-------------------------- MODULE UndoManager_proofs --------------------------
(***************************************************************************)
(* For any blocks, transactions and groups: type correctness of the undo   *)
(* manager, and that a replay takes the blocks back exactly.               *)
(***************************************************************************)
EXTENDS UndoManager, WellFoundedInduction, FiniteSetTheorems, SequenceTheorems, TLAPS

Snaps == [before : Rows, after : Rows \ {NoRow}]

Entries ==
  UNION {[snaps : [S -> Snaps], group : Groups, from : [Page -> Rows], to : [Page -> Rows]] :
           S \in (SUBSET Page) \ {{}}}

Shape ==
  /\ page \in [Page -> Rows] /\ drifted \subseteq Page /\ raced \in BOOLEAN
  /\ undo \in Seq(Entries) /\ Len(undo) <= MaxDepth
  /\ redo \in Seq(Entries) /\ Len(redo) <= MaxDepth
  /\ waiting \in Seq([entry : Entries, back : BOOLEAN])

\* The row r is s, or s was not there and r is deleted: what a replay makes of s.
Fits(r, s) == r = s \/ (s = NoRow /\ r # NoRow /\ ~r.live)

\* A stack with the replays that are in line to put its entries on the other
\* one: the entry that goes next is last.
Joined(stack, line) ==
  [i \in 1 .. Len(stack) + Len(line) |->
     IF i <= Len(stack) THEN stack[i] ELSE line[Len(stack) + Len(line) + 1 - i].entry]

Backward == waiting # <<>> /\ waiting[1].back

OneWay == \A i, j \in DOMAIN waiting : waiting[i].back = waiting[j].back

Past == Joined(undo, IF Backward THEN waiting ELSE <<>>)
Future == Joined(redo, IF Backward THEN <<>> ELSE waiting)

Writes(e, b) == b \in DOMAIN e.snaps

\* What an entry keeps of a block leads from one of its pages to the other.
Leads(e, b) ==
  IF Writes(e, b) THEN e.snaps[b].after = e.to[b] /\ Fits(e.snaps[b].before, e.from[b])
  ELSE Fits(e.to[b], e.from[b])

\* A block with this row is where the entry may be redone.
Meets(row, e, b) == Fits(row, e.from[b]) /\ (~Writes(e, b) => Fits(row, e.to[b]))

PastChain(p, b) == \A i \in DOMAIN p : i > 1 => Fits(p[i].from[b], p[i - 1].to[b])

FutureChain(f, b) == \A i \in DOMAIN f : i < Len(f) => Fits(f[i].from[b], f[i + 1].to[b])

\* What a block will be when its turn comes to redo an entry.
Ready(row, f, b) ==
  \A k \in DOMAIN f :
    /\ (\A i \in DOMAIN f : i > k => ~Writes(f[i], b)) => Meets(row, f[k], b)
    /\ \A j \in DOMAIN f :
         /\ j > k /\ Writes(f[j], b)
         /\ \A i \in DOMAIN f : k < i /\ i < j => ~Writes(f[i], b)
         => Meets(f[j].snaps[b].after, f[k], b)

Here(row, p, f, b) ==
  /\ \A i \in DOMAIN p : Leads(p[i], b)
  /\ \A i \in DOMAIN f : Leads(f[i], b)
  /\ PastChain(p, b) /\ FutureChain(f, b)
  /\ Len(p) > 0 => Fits(row, p[Len(p)].to[b])
  /\ Len(p) > 0 /\ Len(f) > 0 => Fits(f[Len(f)].from[b], p[Len(p)].to[b])
  /\ Ready(row, f, b)

\* Every block sync has left alone is where past and future meet.
Meeting == OneWay /\ \A b \in Page \ drifted : Here(page[b], Past, Future, b)

\* No trigger has anything to say of these rows.
Tidy(rows) ==
  \A b \in Page : InTheWay(rows, b, rows[b], All) = {} /\ ~Orphan(rows, rows[b])

\* An entry between two such pages, whose rows have their parents.
TidyEntry(rows, e) ==
  /\ Tidy(e.from) /\ Tidy(e.to)
  /\ \A b \in DOMAIN e.snaps : ~Orphan(rows, e.snaps[b].before) /\ ~Orphan(rows, e.snaps[b].after)

TidyAll(rows, s) == \A i \in DOMAIN s : TidyEntry(rows, s[i])

Clean == Tidy(page) /\ TidyAll(page, Past) /\ TidyAll(page, Future)

UndoInv == Shape /\ (~raced => Meeting /\ (drifted = {} => Clean))
-----------------------------------------------------------------------------
(***************************************************************************)
(* Counting, and definitions by recursion along an interval.               *)
(***************************************************************************)
LEMMA LeastOf ==
  ASSUME NEW S \in SUBSET Nat, S # {}
  PROVE  \E x \in S : \A y \in S : x <= y
<1> DEFINE T == {1 .. k : k \in S}
<1>1. IsWellFoundedOn(StrictSubsetOrdering(Nat), FiniteSubsetsOf(Nat))
  BY FS_StrictSubsetOrderingWellFounded
<1>2. T \subseteq FiniteSubsetsOf(Nat)
  <2>1. \A k \in S : IsFiniteSet(1 .. k)
    BY FS_Interval
  <2>2. \A k \in S : 1 .. k \subseteq Nat
    OBVIOUS
  <2>3. \A k \in S : 1 .. k \in FiniteSubsetsOf(Nat)
    BY <2>1, <2>2 DEF FiniteSubsetsOf
  <2> QED
    BY <2>3
<1>3. T # {}
  OBVIOUS
<1>4. \E x \in T : \A y \in T : ~(<<y, x>> \in StrictSubsetOrdering(Nat))
  <2> HIDE DEF T
  <2> QED
    BY <1>1, <1>2, <1>3, WFMin
<1>5. PICK x \in S : \A y \in S : ~(<<1 .. y, 1 .. x>> \in StrictSubsetOrdering(Nat))
  BY <1>4
<1>6. ASSUME NEW y \in S, y < x
      PROVE  FALSE
  <2>1. 1 .. y \subseteq 1 .. x /\ 1 .. x \subseteq Nat /\ 1 .. y \subseteq Nat
    BY <1>6
  <2>2. x \in 1 .. x /\ x \notin 1 .. y
    BY <1>6
  <2>3. 1 .. y # 1 .. x
    BY <2>2
  <2>4. <<1 .. y, 1 .. x>> \in StrictSubsetOrdering(Nat)
    BY <2>1, <2>3 DEF StrictSubsetOrdering
  <2> QED
    BY <2>4, <1>5
<1> QED
  BY <1>6

\* Induction over an interval.
LEMMA CountUp ==
  ASSUME NEW n \in Nat, NEW S, 0 \in S, \A i \in 0 .. n : i < n /\ i \in S => i + 1 \in S
  PROVE  \A i \in 0 .. n : i \in S
<1> DEFINE Not == {i \in 0 .. n : i \notin S}
<1>1. SUFFICES ASSUME Not # {} PROVE FALSE
  OBVIOUS
<1>2. PICK x \in Not : \A y \in Not : x <= y
  <2>1. Not \in SUBSET Nat
    OBVIOUS
  <2> HIDE DEF Not
  <2> QED
    BY <1>1, <2>1, LeastOf
<1>3. x # 0 /\ x - 1 \in 0 .. n /\ x - 1 \notin Not
  BY <1>2
<1>4. x - 1 < n /\ x - 1 \in S /\ (x - 1) + 1 = x
  BY <1>3
<1> QED
  BY <1>2, <1>3, <1>4

\* What is defined step by step along an interval exists.
GoesBy(g, base, n, step) ==
  g = [i \in 0 .. n |-> IF i = 0 THEN base ELSE step[<<i, g[i - 1]>>]]

LEMMA Stepwise ==
  ASSUME NEW X, NEW base \in X, NEW n \in Nat, NEW step \in [(1 .. n) \X X -> X]
  PROVE  \E g \in [0 .. n -> X] : GoesBy(g, base, n, step)
<1> DEFINE Upto(m) == \E g \in [0 .. m -> X] :
                        g[0] = base /\ \A i \in 1 .. m : g[i] = step[<<i, g[i - 1]>>]
           S == {m \in 0 .. n : Upto(m)}
<1>1. Upto(0)
  <2> DEFINE g == [i \in 0 .. 0 |-> base]
  <2>1. g \in [0 .. 0 -> X] /\ g[0] = base
    OBVIOUS
  <2>2. \A i \in 1 .. 0 : g[i] = step[<<i, g[i - 1]>>]
    OBVIOUS
  <2> HIDE DEF g
  <2> QED
    BY <2>1, <2>2
<1>2. ASSUME NEW m \in 0 .. n, m < n, Upto(m) PROVE Upto(m + 1)
  <2> m \in Nat
    OBVIOUS
  <2>1. PICK g \in [0 .. m -> X] : g[0] = base /\ \A i \in 1 .. m : g[i] = step[<<i, g[i - 1]>>]
    BY <1>2
  <2> DEFINE h == [i \in 0 .. m + 1 |-> IF i = m + 1 THEN step[<<m + 1, g[m]>>] ELSE g[i]]
  <2>2. step[<<m + 1, g[m]>>] \in X
    BY <1>2
  <2>3. h \in [0 .. m + 1 -> X]
    <3>1. \A i \in 0 .. m + 1 : i # m + 1 => i \in 0 .. m
      BY <1>2
    <3> QED
      BY <2>2, <3>1
  <2>4. h[0] = base /\ h[m + 1] = step[<<m + 1, h[m]>>]
    <3>1. 0 \in 0 .. m + 1 /\ m \in 0 .. m + 1 /\ m + 1 \in 0 .. m + 1 /\ 0 # m + 1 /\ m # m + 1
      OBVIOUS
    <3>2. h[0] = g[0] /\ h[m] = g[m] /\ h[m + 1] = step[<<m + 1, g[m]>>]
      BY <3>1
    <3> HIDE DEF h
    <3> QED
      BY <2>1, <3>2
  <2>5. ASSUME NEW i \in 1 .. m PROVE h[i] = step[<<i, h[i - 1]>>]
    <3>1. i \in 0 .. m + 1 /\ i - 1 \in 0 .. m + 1 /\ i # m + 1 /\ i - 1 # m + 1
      BY <1>2
    <3>2. h[i] = g[i] /\ h[i - 1] = g[i - 1]
      BY <3>1
    <3> HIDE DEF h
    <3> QED
      BY <2>1, <3>2
  <2>6. \A i \in 1 .. m + 1 : h[i] = step[<<i, h[i - 1]>>]
    <3> HIDE DEF h
    <3>1. \A i \in 1 .. m + 1 : i = m + 1 \/ i \in 1 .. m
      OBVIOUS
    <3>2. (m + 1) - 1 = m
      OBVIOUS
    <3> QED
      BY <2>4, <2>5, <3>1, <3>2
  <2> HIDE DEF h
  <2> QED
    BY <2>3, <2>4, <2>6
<1>3. Upto(n)
  <2>1. 0 \in S /\ \A i \in 0 .. n : i < n /\ i \in S => i + 1 \in S
    <3> HIDE DEF Upto
    <3> QED
      BY <1>1, <1>2
  <2>2. \A i \in 0 .. n : i \in S
    <3> HIDE DEF S
    <3> QED
      BY <2>1, CountUp
  <2> QED
    BY <2>2
<1>4. PICK g \in [0 .. n -> X] : g[0] = base /\ \A i \in 1 .. n : g[i] = step[<<i, g[i - 1]>>]
  BY <1>3
<1>5. \A i \in 0 .. n : g[i] = IF i = 0 THEN base ELSE step[<<i, g[i - 1]>>]
  BY <1>4
<1>6. g = [i \in 0 .. n |-> IF i = 0 THEN base ELSE step[<<i, g[i - 1]>>]]
  BY <1>5
<1> QED
  BY <1>6 DEF GoesBy
-----------------------------------------------------------------------------
(***************************************************************************)
(* A replay: its passes, and what they leave.                              *)
(***************************************************************************)
States(target) == [rows : [Page -> Rows], todo : Seq(DOMAIN target), thrown : BOOLEAN]

IsTarget(target) == DOMAIN target \subseteq Page /\ \A b \in DOMAIN target : target[b] \in Rows

\* What a replay makes of a row.
Landing(old, row) ==
  IF row # NoRow THEN row ELSE IF old = NoRow THEN old ELSE [old EXCEPT !.live = FALSE]

LEMMA RowFields ==
  ASSUME NEW r \in Rows, r # NoRow
  PROVE  /\ r = [live |-> r.live, parent |-> r.parent, alias |-> r.alias]
         /\ r.live \in BOOLEAN /\ r.parent \in Page \cup {NoParent}
         /\ r.alias \in Alias \cup {NoAlias}
BY DEF Rows

LEMMA SettleIs ==
  ASSUME NEW old \in Rows, NEW row \in Rows
  PROVE  /\ Landing(old, row) \in Rows
         /\ Fits(Landing(old, row), row)
         /\ Landing(old, row) = NoRow <=> old = NoRow /\ row = NoRow
         /\ row = NoRow /\ old # NoRow => Landing(old, row).parent = old.parent
<1>1. CASE row = NoRow /\ old # NoRow
  <2>1. Landing(old, row) = [live |-> FALSE, parent |-> old.parent, alias |-> old.alias]
    <3>1. old = [live |-> old.live, parent |-> old.parent, alias |-> old.alias]
      BY <1>1, RowFields
    <3> QED
      BY <1>1, <3>1 DEF Landing
  <2>2. Landing(old, row) \in Rows /\ Landing(old, row) # NoRow
    <3>1. old.parent \in Page \cup {NoParent} /\ old.alias \in Alias \cup {NoAlias}
      BY <1>1, RowFields
    <3>2. Landing(old, row) \in
            [live : BOOLEAN, parent : Page \cup {NoParent}, alias : Alias \cup {NoAlias}]
      BY <2>1, <3>1
    <3> QED
      BY <3>2, UndoAssumption DEF Rows
  <2> QED
    BY <1>1, <2>1, <2>2 DEF Fits
<1>2. CASE row # NoRow \/ old = NoRow
  BY <1>2 DEF Landing, Fits
<1> QED
  BY <1>1, <1>2

LEMMA PutIs ==
  ASSUME NEW rows \in [Page -> Rows], NEW b \in Page, NEW row \in Rows
  PROVE  Put(rows, b, row) = [rows EXCEPT ![b] = Landing(rows[b], row)]
<1>1. CASE row = NoRow /\ rows[b] # NoRow
  <2>1. [rows EXCEPT ![b].live = FALSE] = [rows EXCEPT ![b] = [rows[b] EXCEPT !.live = FALSE]]
    OBVIOUS
  <2> QED
    BY <1>1, <2>1 DEF Put, Missing, Landing
<1>2. CASE row = NoRow /\ rows[b] = NoRow
  <2>1. rows = [rows EXCEPT ![b] = rows[b]]
    OBVIOUS
  <2> QED
    BY <1>2, <2>1 DEF Put, Missing, Landing
<1>3. CASE row # NoRow
  BY <1>3 DEF Put, Landing
<1> QED
  BY <1>1, <1>2, <1>3

\* The three outcomes for a row.
LEMMA TryIs ==
  ASSUME NEW target, IsTarget(target), NEW state \in States(target), NEW b \in DOMAIN target
  PROVE  /\ Try(target, state, b) \in States(target)
         /\ \/ /\ Orphan(state.rows, target[b])
               /\ Try(target, state, b) = [state EXCEPT !.thrown = TRUE]
            \/ /\ InTheWay(state.rows, b, target[b], All) # {}
               /\ Try(target, state, b) = [state EXCEPT !.todo = Append(@, b)]
            \/ /\ InTheWay(state.rows, b, target[b], All) = {}
               /\ Try(target, state, b) =
                    [state EXCEPT !.rows = [@ EXCEPT ![b] = Landing(state.rows[b], target[b])]]
<1>1. /\ state = [rows |-> state.rows, todo |-> state.todo, thrown |-> state.thrown]
      /\ state.rows \in [Page -> Rows] /\ state.todo \in Seq(DOMAIN target)
      /\ state.thrown \in BOOLEAN
  BY DEF States
<1>2. b \in Page /\ target[b] \in Rows
  BY DEF IsTarget
<1>3. CASE Orphan(state.rows, target[b])
  <2>1. Try(target, state, b) = [state EXCEPT !.thrown = TRUE]
    BY <1>3 DEF Try
  <2> QED
    BY <1>1, <1>3, <2>1 DEF States
<1>4. CASE ~Orphan(state.rows, target[b]) /\ InTheWay(state.rows, b, target[b], All) # {}
  <2>1. Try(target, state, b) = [state EXCEPT !.todo = Append(@, b)]
    BY <1>4 DEF Try
  <2>2. Append(state.todo, b) \in Seq(DOMAIN target)
    BY <1>1
  <2> QED
    BY <1>1, <1>4, <2>1, <2>2 DEF States
<1>5. CASE ~Orphan(state.rows, target[b]) /\ InTheWay(state.rows, b, target[b], All) = {}
  <2>1. Try(target, state, b) = [state EXCEPT !.rows = Put(@, b, target[b])]
    BY <1>5 DEF Try
  <2>2. Try(target, state, b) =
          [state EXCEPT !.rows = [@ EXCEPT ![b] = Landing(state.rows[b], target[b])]]
    <3>1. Put(state.rows, b, target[b]) =
            [state.rows EXCEPT ![b] = Landing(state.rows[b], target[b])]
      BY <1>1, <1>2, PutIs
    <3> QED
      BY <2>1, <3>1
  <2>3. Landing(state.rows[b], target[b]) \in Rows
    BY <1>1, <1>2, SettleIs
  <2>4. [state.rows EXCEPT ![b] = Landing(state.rows[b], target[b])] \in [Page -> Rows]
    BY <1>1, <2>3
  <2> QED
    BY <1>1, <1>5, <2>2, <2>4 DEF States
<1> QED
  BY <1>3, <1>4, <1>5

LEMMA PassSteps ==
  ASSUME NEW target, IsTarget(target), NEW start \in States(target)
  PROVE  \E after \in [0 .. Len(start.todo) -> States(target)] :
           /\ after[0] = [start EXCEPT !.todo = <<>>]
           /\ \A i \in 1 .. Len(start.todo) :
                after[i] = Try(target, after[i - 1], start.todo[i])
           /\ Pass(target, start) = after[Len(start.todo)]
<1> DEFINE n == Len(start.todo)
           X == States(target)
           base == [start EXCEPT !.todo = <<>>]
           step == [p \in (1 .. n) \X X |-> Try(target, p[2], start.todo[p[1]])]
           Is(g) == g = [i \in 0 .. n |-> IF i = 0 THEN base
                                          ELSE Try(target, g[i - 1], start.todo[i])]
           after == CHOOSE g : Is(g)
<1>1. n \in Nat /\ start.todo \in Seq(DOMAIN target) /\ \A i \in 1 .. n : start.todo[i] \in DOMAIN target
  BY DEF States
<1>2. base \in X
  <2>1. <<>> \in Seq(DOMAIN target)
    OBVIOUS
  <2> QED
    BY <2>1 DEF States
<1>3. step \in [(1 .. n) \X X -> X]
  BY <1>1, TryIs
<1>4. PICK g \in [0 .. n -> X] : GoesBy(g, base, n, step)
  <2>1. n \in Nat
    BY <1>1
  <2> HIDE DEF n, X, base, step
  <2> QED
    BY <1>2, <1>3, <2>1, Stepwise
<1>5. Is(g)
  <2>1. ASSUME NEW i \in 0 .. n, i # 0
        PROVE  step[<<i, g[i - 1]>>] = Try(target, g[i - 1], start.todo[i])
    <3>1. i \in 1 .. n /\ i - 1 \in 0 .. n
      BY <1>1, <2>1
    <3>2. g[i - 1] \in X
      BY <1>4, <3>1
    <3>3. <<i, g[i - 1]>> \in (1 .. n) \X X
      BY <3>1, <3>2
    <3> HIDE DEF X, n
    <3> QED
      BY <3>3
  <2> HIDE DEF step, base
  <2> QED
    BY <1>4, <2>1 DEF GoesBy
<1>6. Is(after)
  <2> HIDE DEF Is
  <2> QED
    BY <1>5
<1>7. Pass(target, start) = after[n]
  BY DEF Pass
<1>8. after[0] = base /\ \A i \in 1 .. n : after[i] = Try(target, after[i - 1], start.todo[i])
  <2>1. \A i \in 0 .. n : after[i] = IF i = 0 THEN base
                                     ELSE Try(target, after[i - 1], start.todo[i])
    <3> HIDE DEF after, base, n
    <3> QED
      BY <1>6
  <2>2. 0 \in 0 .. n /\ \A i \in 1 .. n : i \in 0 .. n /\ i # 0
    BY <1>1
  <2> HIDE DEF after, base, n
  <2> QED
    BY <2>1, <2>2
<1>9. \A i \in 0 .. n : after[i] \in X
  <2> DEFINE S == {i \in 0 .. n : after[i] \in X}
  <2>1. 0 \in S
    BY <1>1, <1>2, <1>8
  <2>2. ASSUME NEW i \in 0 .. n, i < n, i \in S PROVE i + 1 \in S
    <3>1. i + 1 \in 1 .. n /\ i + 1 \in 0 .. n /\ (i + 1) - 1 = i
      BY <1>1, <2>2
    <3>2. after[i + 1] = Try(target, after[i], start.todo[i + 1]) /\ start.todo[i + 1] \in DOMAIN target
      BY <1>1, <1>8, <3>1
    <3>3. after[i] \in X
      BY <2>2
    <3> HIDE DEF after
    <3> QED
      BY <3>1, <3>2, <3>3, TryIs
  <2>3. \A i \in 0 .. n : i \in S
    <3> n \in Nat
      BY <1>1
    <3> HIDE DEF S, n
    <3> QED
      BY <2>1, <2>2, CountUp
  <2> QED
    BY <2>3
<1>10. after \in [0 .. n -> X]
  <2> HIDE DEF base, n
  <2>1. after = [i \in 0 .. n |-> after[i]]
    <3>1. DOMAIN after = 0 .. n
      <4> HIDE DEF after
      <4> QED
        BY <1>6
    <3>2. after = [i \in DOMAIN after |-> after[i]]
      <4> HIDE DEF after
      <4> QED
        BY <1>6
    <3> HIDE DEF after
    <3> QED
      BY <3>1, <3>2
  <2> HIDE DEF after
  <2> QED
    BY <1>9, <2>1
<1> HIDE DEF after
<1> QED
  BY <1>7, <1>8, <1>10

\* Within a pass over a page: what has been done is as meant, the rest as it was.
In(b, s) == \E i \in DOMAIN s : s[i] = b

Apart(s) == \A i, j \in DOMAIN s : i # j => s[i] # s[j]

Midway(base, target, state, rest) ==
  /\ Apart(state.todo) /\ \A i \in DOMAIN state.todo : state.todo[i] \notin rest
  /\ \A b \in Page :
       state.rows[b] = IF b \in DOMAIN target /\ ~In(b, state.todo) /\ b \notin rest
                       THEN Landing(base[b], target[b]) ELSE base[b]

Blocked(target, rows, b) == InTheWay(rows, b, target[b], All) # {}

Stuck(target, state) == \A i \in DOMAIN state.todo : Blocked(target, state.rows, state.todo[i])

LEMMA AppendIs ==
  ASSUME NEW X, NEW s \in Seq(X), NEW b \in X
  PROVE  /\ Len(Append(s, b)) = Len(s) + 1 /\ DOMAIN Append(s, b) = 1 .. Len(s) + 1
         /\ Append(s, b)[Len(s) + 1] = b
         /\ \A i \in DOMAIN s : i \in 1 .. Len(s) /\ Append(s, b)[i] = s[i]
         /\ \A c : In(c, Append(s, b)) <=> In(c, s) \/ c = b
         /\ Apart(s) /\ ~In(b, s) => Apart(Append(s, b))
<1>1. /\ Len(Append(s, b)) = Len(s) + 1 /\ DOMAIN Append(s, b) = 1 .. Len(s) + 1
      /\ Append(s, b)[Len(s) + 1] = b /\ DOMAIN s = 1 .. Len(s) /\ Len(s) \in Nat
      /\ \A i \in 1 .. Len(s) : Append(s, b)[i] = s[i]
  OBVIOUS
<1>2. \A i \in 1 .. Len(s) + 1 : i = Len(s) + 1 \/ i \in 1 .. Len(s)
  BY <1>1
<1>3. Len(s) + 1 \in 1 .. Len(s) + 1 /\ \A i \in 1 .. Len(s) : i \in 1 .. Len(s) + 1
  BY <1>1
<1> DEFINE t == Append(s, b)
           n == Len(s)
           m == Len(s) + 1
<1>4. \A c : In(c, t) <=> In(c, s) \/ c = b
  <2>1. DOMAIN t = 1 .. m /\ DOMAIN s = 1 .. n /\ t[m] = b /\ \A i \in 1 .. n : t[i] = s[i]
    BY <1>1
  <2>2. /\ \A i \in 1 .. m : i = m \/ i \in 1 .. n
        /\ m \in 1 .. m /\ \A i \in 1 .. n : i \in 1 .. m
    BY <1>2, <1>3
  <2> HIDE DEF t, n, m
  <2> QED
    BY <2>1, <2>2 DEF In
<1>5. Apart(s) /\ ~In(b, s) => Apart(t)
  <2>1. DOMAIN t = 1 .. m /\ DOMAIN s = 1 .. n /\ t[m] = b /\ \A i \in 1 .. n : t[i] = s[i]
    BY <1>1
  <2>2. \A i \in 1 .. m : i = m \/ i \in 1 .. n
    BY <1>2
  <2> HIDE DEF t, n, m
  <2> QED
    BY <2>1, <2>2 DEF In, Apart
<1> QED
  BY <1>1, <1>4, <1>5

\* One row of a pass.
LEMMA TryKeeps ==
  ASSUME NEW target, IsTarget(target), NEW base \in [Page -> Rows],
         NEW state \in States(target), NEW b \in DOMAIN target, NEW rest, NEW more,
         more = rest \cup {b}, b \notin rest, Midway(base, target, state, more)
  PROVE  LET new == Try(target, state, b)
         IN /\ state.thrown => new.thrown
            /\ new.thrown => state.thrown \/ Orphan(base, target[b])
            /\ ~new.thrown => Midway(base, target, new, rest)
<1> DEFINE new == Try(target, state, b)
<1>1. /\ state = [rows |-> state.rows, todo |-> state.todo, thrown |-> state.thrown]
      /\ state.rows \in [Page -> Rows] /\ state.todo \in Seq(DOMAIN target)
      /\ state.thrown \in BOOLEAN
  BY DEF States
<1>2. b \in Page /\ target[b] \in Rows /\ \A c \in DOMAIN target : c \in Page /\ target[c] \in Rows
  BY DEF IsTarget
<1>3. ~In(b, state.todo) /\ state.rows[b] = base[b]
  BY <1>2 DEF Midway, In
<1>4. CASE Orphan(state.rows, target[b]) /\ new = [state EXCEPT !.thrown = TRUE]
  <2>1. Orphan(base, target[b])
    <3>1. target[b] # NoRow /\ target[b].parent # NoParent
          /\ state.rows[target[b].parent] = NoRow
      BY <1>4 DEF Orphan, Missing
    <3>2. target[b].parent \in Page
      BY <1>2, <3>1, RowFields
    <3> DEFINE c == target[b].parent
    <3>3. base[c] \in Rows /\ state.rows[c] = NoRow /\ c \in Page
      BY <3>1, <3>2
    <3>4. base[c] = NoRow
      <4> HIDE DEF c
      <4>1. CASE state.rows[c] = base[c]
        BY <3>3, <4>1
      <4>2. CASE c \in DOMAIN target /\ state.rows[c] = Landing(base[c], target[c])
        <5>1. Landing(base[c], target[c]) = NoRow => base[c] = NoRow
          BY <1>2, <3>3, <4>2, SettleIs
        <5> QED
          BY <3>3, <4>2, <5>1
      <4> QED
        BY <3>3, <4>1, <4>2 DEF Midway
    <3> QED
      BY <3>1, <3>4 DEF Orphan, Missing
  <2>2. new.thrown = TRUE
    BY <1>1, <1>4
  <2> QED
    BY <2>1, <2>2
<1>5. CASE new = [state EXCEPT !.todo = Append(@, b)]
  <2>1. new.thrown = state.thrown /\ new.rows = state.rows /\ new.todo = Append(state.todo, b)
    BY <1>1, <1>5
  <2>2. /\ \A c : In(c, new.todo) <=> In(c, state.todo) \/ c = b
        /\ Apart(state.todo) => Apart(new.todo)
    BY <1>1, <1>3, <2>1, AppendIs
  <2>3. \A c : In(c, state.todo) => c \notin more
    BY DEF Midway, In
  <2>4. \A i \in DOMAIN new.todo : new.todo[i] \notin rest
    <3>1. \A i \in DOMAIN new.todo : In(new.todo[i], new.todo)
      BY DEF In
    <3> QED
      BY <2>2, <2>3, <3>1
  <2>5. ASSUME NEW c \in Page
        PROVE  new.rows[c] = IF c \in DOMAIN target /\ ~In(c, new.todo) /\ c \notin rest
                             THEN Landing(base[c], target[c]) ELSE base[c]
    <3>1. ~In(c, new.todo) /\ c \notin rest <=> ~In(c, state.todo) /\ c \notin more
      BY <1>3, <2>2
    <3> HIDE DEF new
    <3> QED
      BY <2>1, <3>1 DEF Midway
  <2>6. Apart(state.todo)
    BY DEF Midway
  <2>7. Midway(base, target, new, rest)
    <3> HIDE DEF new
    <3> QED
      BY <2>2, <2>4, <2>5, <2>6 DEF Midway
  <2> QED
    BY <2>1, <2>7
<1>6. CASE new = [state EXCEPT !.rows = [@ EXCEPT ![b] = Landing(state.rows[b], target[b])]]
  <2>1. new.thrown = state.thrown /\ new.todo = state.todo
        /\ new.rows = [state.rows EXCEPT ![b] = Landing(base[b], target[b])]
    BY <1>1, <1>3, <1>6
  <2>2. new.rows[b] = Landing(base[b], target[b]) /\ \A c \in Page : c # b => new.rows[c] = state.rows[c]
    BY <1>1, <1>2, <2>1
  <2>3. ASSUME NEW c \in Page
        PROVE  new.rows[c] = IF c \in DOMAIN target /\ ~In(c, new.todo) /\ c \notin rest
                             THEN Landing(base[c], target[c]) ELSE base[c]
    <3> HIDE DEF new
    <3>1. CASE c = b
      BY <1>3, <2>1, <2>2, <3>1
    <3>2. CASE c # b
      BY <2>1, <2>2, <3>2 DEF Midway
    <3> QED
      BY <3>1, <3>2
  <2>4. Midway(base, target, new, rest)
    <3> HIDE DEF new
    <3> QED
      BY <2>1, <2>3 DEF Midway
  <2> QED
    BY <2>1, <2>4
<1> QED
  <2> HIDE DEF new
  <2>1. \/ Orphan(state.rows, target[b]) /\ new = [state EXCEPT !.thrown = TRUE]
        \/ new = [state EXCEPT !.todo = Append(@, b)]
        \/ new = [state EXCEPT !.rows = [@ EXCEPT ![b] = Landing(state.rows[b], target[b])]]
    BY TryIs DEF new
  <2> QED
    BY <1>4, <1>5, <1>6, <2>1 DEF new

\* A pass: it throws only for want of a parent, and defers less than it was
\* given unless all of it is blocked.
Throws(base, target) == \E b \in DOMAIN target : Orphan(base, target[b])

LEMMA PassDoes ==
  ASSUME NEW target, IsTarget(target), NEW base \in [Page -> Rows],
         NEW start \in States(target), ~start.thrown => Midway(base, target, start, {}),
         start.thrown => Throws(base, target),
         NEW end, end = Pass(target, start)
  PROVE  /\ end \in States(target)
         /\ end.thrown => Throws(base, target)
         /\ ~end.thrown =>
              /\ ~start.thrown /\ Midway(base, target, end, {})
              /\ Stuck(target, end) \/ Len(end.todo) < Len(start.todo)
              /\ Stuck(target, start) => Stuck(target, end)
<1> DEFINE todo == start.todo
           n == Len(todo)
           Rest(i) == {todo[j] : j \in i + 1 .. n}
<1>1. /\ start = [rows |-> start.rows, todo |-> todo, thrown |-> start.thrown]
      /\ start.rows \in [Page -> Rows] /\ todo \in Seq(DOMAIN target)
      /\ start.thrown \in BOOLEAN
  BY DEF States
<1>2. n \in Nat /\ DOMAIN todo = 1 .. n /\ \A i \in 1 .. n : todo[i] \in DOMAIN target
  BY <1>1
<1>3. PICK after \in [0 .. n -> States(target)] :
        /\ after[0] = [start EXCEPT !.todo = <<>>]
        /\ \A i \in 1 .. n : after[i] = Try(target, after[i - 1], todo[i])
        /\ Pass(target, start) = after[n]
  BY PassSteps
<1> DEFINE Idle(state, i) == /\ state.rows = start.rows /\ Len(state.todo) = i
                             /\ \A j \in 1 .. i : /\ state.todo[j] = todo[j]
                                                  /\ Blocked(target, start.rows, todo[j])
           Good(state, i) ==
             /\ state.thrown => Throws(base, target)
             /\ ~state.thrown => /\ ~start.thrown /\ Midway(base, target, state, Rest(i))
                                 /\ Len(state.todo) < i \/ Idle(state, i)
                                 /\ Stuck(target, start) => Idle(state, i)
           S == {i \in 0 .. n : Good(after[i], i)}
<1>4. 0 \in S
  <2>1. after[0] = [rows |-> start.rows, todo |-> <<>>, thrown |-> start.thrown]
    BY <1>1, <1>3
  <2>2. Idle(after[0], 0)
    BY <2>1
  <2>3. ASSUME ~start.thrown PROVE Midway(base, target, after[0], Rest(0))
    <3>1. \A b : b \in Rest(0) <=> In(b, todo)
      <4>1. 0 + 1 .. n = 1 .. n
        OBVIOUS
      <4> HIDE DEF todo, n
      <4> QED
        BY <1>2, <4>1 DEF In
    <3>2. after[0].todo = <<>> /\ after[0].rows = start.rows
      BY <2>1
    <3>3. DOMAIN after[0].todo = {} /\ \A b : ~In(b, after[0].todo)
      BY <3>2 DEF In
    <3>4. Apart(after[0].todo)
      BY <3>3 DEF Apart
    <3>5. \A b \in Page : after[0].rows[b] =
            IF b \in DOMAIN target /\ ~In(b, after[0].todo) /\ b \notin Rest(0)
            THEN Landing(base[b], target[b]) ELSE base[b]
      <4>1. \A b \in Page : start.rows[b] =
              IF b \in DOMAIN target /\ ~In(b, todo) THEN Landing(base[b], target[b]) ELSE base[b]
        BY <2>3 DEF Midway
      <4> HIDE DEF Rest, todo
      <4> QED
        BY <3>1, <3>2, <3>3, <4>1
    <3> HIDE DEF Rest
    <3> QED
      BY <3>3, <3>4, <3>5 DEF Midway
  <2> HIDE DEF Idle, Rest
  <2> QED
    BY <1>2, <2>1, <2>2, <2>3
<1>5. ASSUME NEW i \in 0 .. n, i < n, i \in S PROVE i + 1 \in S
  <2> DEFINE old == after[i]
             new == after[i + 1]
             b == todo[i + 1]
  <2>1. i \in Nat /\ i + 1 \in 1 .. n /\ i + 1 \in 0 .. n /\ (i + 1) - 1 = i
    BY <1>2, <1>5
  <2>2. old \in States(target) /\ new \in States(target) /\ b \in DOMAIN target
    BY <1>2, <1>3, <2>1
  <2>3. new = Try(target, old, b)
    BY <1>3, <2>1
  <2>4. Good(old, i)
    BY <1>5
  <2>5. Rest(i) = Rest(i + 1) \cup {b}
    <3>1. \A j \in Int : j \in i + 1 .. n <=> j = i + 1 \/ j \in (i + 1) + 1 .. n
      BY <1>2, <2>1
    <3>2. i + 1 .. n \subseteq Int /\ (i + 1) + 1 .. n \subseteq Int /\ i + 1 \in Int
      BY <2>1
    <3> QED
      BY <3>1, <3>2
  <2>6. ~start.thrown => b \notin Rest(i + 1)
    <3>1. ~start.thrown => Apart(todo)
      BY DEF Midway
    <3>2. \A j \in (i + 1) + 1 .. n : j \in 1 .. n /\ j # i + 1
      BY <1>2, <2>1
    <3> QED
      BY <1>2, <2>1, <3>1, <3>2 DEF Apart
  <2>7. CASE old.thrown
    <3>1. new.thrown
      <4>1. old = [rows |-> old.rows, todo |-> old.todo, thrown |-> old.thrown]
        BY <2>2 DEF States
      <4> HIDE DEF old, new, b
      <4>2. \/ new = [old EXCEPT !.thrown = TRUE]
            \/ new = [old EXCEPT !.todo = Append(@, b)]
            \/ new = [old EXCEPT !.rows = [@ EXCEPT ![b] = Landing(old.rows[b], target[b])]]
        BY <2>2, <2>3, TryIs
      <4> QED
        BY <2>7, <4>1, <4>2
    <3> HIDE DEF Idle, Rest, old, b
    <3> QED
      BY <2>1, <2>4, <2>7, <3>1
  <2>8. CASE ~old.thrown
    <3> HIDE DEF old, new, b
    <3>1. ~start.thrown /\ Midway(base, target, old, Rest(i))
      BY <2>4, <2>8
    <3>2. /\ new.thrown => Throws(base, target)
          /\ ~new.thrown => Midway(base, target, new, Rest(i + 1))
      <4> DEFINE more == Rest(i)
                 rest == Rest(i + 1)
      <4>1. more = rest \cup {b} /\ b \notin rest /\ Midway(base, target, old, more)
        BY <2>5, <2>6, <3>1
      <4> HIDE DEF more, rest
      <4>2. /\ new.thrown => old.thrown \/ Orphan(base, target[b])
            /\ ~new.thrown => Midway(base, target, new, rest)
        BY <2>2, <2>3, <4>1, TryKeeps
      <4> QED
        BY <2>2, <2>8, <4>2 DEF Throws, rest
    <3>3. ASSUME ~new.thrown
          PROVE  /\ Len(new.todo) < i + 1 \/ Idle(new, i + 1)
                 /\ Stuck(target, start) => Idle(new, i + 1)
      <4>1. /\ old = [rows |-> old.rows, todo |-> old.todo, thrown |-> old.thrown]
            /\ old.todo \in Seq(DOMAIN target) /\ Len(old.todo) \in Nat
        BY <2>2 DEF States
      <4>2. Len(old.todo) < i \/ Idle(old, i)
        BY <2>4, <2>8
      <4>3. Stuck(target, start) => Idle(old, i) /\ Blocked(target, start.rows, b)
        <5>1. Stuck(target, start) => Blocked(target, start.rows, todo[i + 1])
          BY <1>2, <2>1 DEF Stuck
        <5> QED
          BY <2>4, <2>8, <5>1 DEF b
      <4>4. CASE Blocked(target, old.rows, b) /\ new = [old EXCEPT !.todo = Append(@, b)]
        <5>1. new.rows = old.rows /\ new.todo = Append(old.todo, b)
          BY <4>1, <4>4
        <5>2. /\ Len(new.todo) = Len(old.todo) + 1 /\ new.todo[Len(old.todo) + 1] = b
              /\ \A j \in 1 .. Len(old.todo) : new.todo[j] = old.todo[j]
          BY <2>2, <4>1, <5>1
        <5>3. Idle(old, i) => Idle(new, i + 1)
          <6> SUFFICES ASSUME Idle(old, i) PROVE Idle(new, i + 1)
            OBVIOUS
          <6>1. new.rows = start.rows /\ Len(new.todo) = i + 1
            BY <5>1, <5>2
          <6>2. ASSUME NEW j \in 1 .. i + 1
                PROVE  new.todo[j] = todo[j] /\ Blocked(target, start.rows, todo[j])
            <7>1. CASE j = i + 1
              <8>1. todo[j] = b /\ new.todo[j] = b /\ Blocked(target, start.rows, b)
                BY <4>4, <5>2, <7>1 DEF b
              <8> QED
                BY <8>1
            <7>2. CASE j # i + 1
              <8>1. j \in 1 .. i /\ j \in 1 .. Len(old.todo)
                BY <2>1, <7>2
              <8> QED
                BY <5>2, <8>1
            <7> QED
              BY <7>1, <7>2
          <6> QED
            BY <6>1, <6>2
        <5>4. Len(old.todo) < i => Len(new.todo) < i + 1
          BY <2>1, <4>1, <5>2
        <5> HIDE DEF Idle
        <5> QED
          BY <4>2, <4>3, <5>3, <5>4
      <4>5. CASE new = [old EXCEPT !.rows = [@ EXCEPT ![b] = Landing(old.rows[b], target[b])]]
                 /\ ~Blocked(target, old.rows, b)
        <5>1. new.todo = old.todo
          BY <4>1, <4>5
        <5>2. Len(new.todo) < i + 1
          BY <2>1, <4>1, <4>2, <5>1
        <5>3. ~Stuck(target, start)
          BY <4>3, <4>5
        <5> QED
          BY <5>2, <5>3
      <4> QED
        <5>1. \/ new = [old EXCEPT !.thrown = TRUE]
              \/ Blocked(target, old.rows, b) /\ new = [old EXCEPT !.todo = Append(@, b)]
              \/ /\ ~Blocked(target, old.rows, b)
                 /\ new = [old EXCEPT !.rows = [@ EXCEPT ![b] = Landing(old.rows[b], target[b])]]
          BY <2>2, <2>3, TryIs DEF Blocked
        <5>2. new # [old EXCEPT !.thrown = TRUE]
          BY <3>3, <4>1
        <5> QED
          BY <4>4, <4>5, <5>1, <5>2
    <3> HIDE DEF Idle, Rest
    <3> QED
      BY <2>1, <3>1, <3>2, <3>3 DEF new
  <2> QED
    BY <2>7, <2>8
<1>6. Good(after[n], n)
  <2>1. \A i \in 0 .. n : i \in S
    <3>1. n \in Nat
      BY <1>2
    <3> HIDE DEF S, n
    <3> QED
      BY <1>4, <1>5, <3>1, CountUp
  <2>2. n \in 0 .. n
    BY <1>2
  <2> HIDE DEF Good
  <2> QED
    BY <2>1, <2>2
<1>7. end = after[n] /\ end \in States(target)
  BY <1>2, <1>3
<1>8. Rest(n) = {}
  BY <1>2
<1>9. Idle(end, n) => Stuck(target, end)
  <2> SUFFICES ASSUME Idle(end, n) PROVE Stuck(target, end)
    OBVIOUS
  <2>1. DOMAIN end.todo = 1 .. n
    BY <1>7 DEF States
  <2> HIDE DEF n, todo
  <2> QED
    BY <2>1 DEF Stuck
<1>10. n = Len(start.todo)
  OBVIOUS
<1> HIDE DEF Idle, n, Rest
<1> QED
  BY <1>6, <1>7, <1>8, <1>9, <1>10

LEMMA WorklistSteps ==
  ASSUME NEW target, IsTarget(target), page \in [Page -> Rows], NEW order \in Seq(DOMAIN target)
  PROVE  \E after \in [0 .. Len(order) -> States(target)] :
           /\ after[0] = [rows |-> page, todo |-> order, thrown |-> FALSE]
           /\ \A i \in 1 .. Len(order) : after[i] = Pass(target, after[i - 1])
           /\ Worklist(target, order) = after[Len(order)]
<1> DEFINE n == Len(order)
           X == States(target)
           base == [rows |-> page, todo |-> order, thrown |-> FALSE]
           step == [p \in (1 .. n) \X X |-> Pass(target, p[2])]
           Is(g) == g = [i \in 0 .. n |-> IF i = 0 THEN base ELSE Pass(target, g[i - 1])]
           after == CHOOSE g : Is(g)
<1>1. n \in Nat /\ base \in X
  BY DEF States
<1>2. \A start \in X : Pass(target, start) \in X
  <2> SUFFICES ASSUME NEW start \in X PROVE Pass(target, start) \in X
    OBVIOUS
  <2>1. PICK g \in [0 .. Len(start.todo) -> States(target)] :
          /\ g[0] = [start EXCEPT !.todo = <<>>]
          /\ \A i \in 1 .. Len(start.todo) : g[i] = Try(target, g[i - 1], start.todo[i])
          /\ Pass(target, start) = g[Len(start.todo)]
    BY PassSteps
  <2>2. Len(start.todo) \in 0 .. Len(start.todo)
    BY DEF States
  <2> QED
    BY <2>1, <2>2
<1>3. step \in [(1 .. n) \X X -> X]
  <2> HIDE DEF X
  <2> QED
    BY <1>2
<1>4. PICK g \in [0 .. n -> X] : GoesBy(g, base, n, step)
  <2>1. n \in Nat /\ base \in X
    BY <1>1
  <2> HIDE DEF n, X, base, step
  <2> QED
    BY <1>3, <2>1, Stepwise
<1>5. Is(g)
  <2>1. ASSUME NEW i \in 0 .. n, i # 0
        PROVE  step[<<i, g[i - 1]>>] = Pass(target, g[i - 1])
    <3>1. i \in 1 .. n /\ i - 1 \in 0 .. n
      BY <1>1, <2>1
    <3>2. g[i - 1] \in X
      BY <1>4, <3>1
    <3>3. <<i, g[i - 1]>> \in (1 .. n) \X X
      BY <3>1, <3>2
    <3> HIDE DEF X, n
    <3> QED
      BY <3>3
  <2> HIDE DEF step, base
  <2> QED
    BY <1>4, <2>1 DEF GoesBy
<1>6. Is(after)
  <2> HIDE DEF Is
  <2> QED
    BY <1>5
<1>7. Worklist(target, order) = after[n]
  BY DEF Worklist
<1>8. after[0] = base /\ \A i \in 1 .. n : after[i] = Pass(target, after[i - 1])
  <2>1. \A i \in 0 .. n : after[i] = IF i = 0 THEN base ELSE Pass(target, after[i - 1])
    <3> HIDE DEF after, base, n
    <3> QED
      BY <1>6
  <2>2. 0 \in 0 .. n /\ \A i \in 1 .. n : i \in 0 .. n /\ i # 0
    BY <1>1
  <2> HIDE DEF after, base, n
  <2> QED
    BY <2>1, <2>2
<1>9. \A i \in 0 .. n : after[i] \in X
  <2> DEFINE S == {i \in 0 .. n : after[i] \in X}
  <2>1. 0 \in S
    BY <1>1, <1>8
  <2>2. ASSUME NEW i \in 0 .. n, i < n, i \in S PROVE i + 1 \in S
    <3>1. i + 1 \in 1 .. n /\ i + 1 \in 0 .. n /\ (i + 1) - 1 = i
      BY <1>1, <2>2
    <3>2. after[i + 1] = Pass(target, after[i])
      BY <1>8, <3>1
    <3>3. after[i] \in X
      BY <2>2
    <3> HIDE DEF after, X
    <3> QED
      BY <1>2, <3>1, <3>2, <3>3
  <2>3. \A i \in 0 .. n : i \in S
    <3> n \in Nat
      BY <1>1
    <3> HIDE DEF S, n
    <3> QED
      BY <2>1, <2>2, CountUp
  <2> QED
    BY <2>3
<1>10. after \in [0 .. n -> X]
  <2> HIDE DEF base, n
  <2>1. after = [i \in 0 .. n |-> after[i]]
    <3>1. DOMAIN after = 0 .. n
      <4> HIDE DEF after
      <4> QED
        BY <1>6
    <3>2. after = [i \in DOMAIN after |-> after[i]]
      <4> HIDE DEF after
      <4> QED
        BY <1>6
    <3> HIDE DEF after
    <3> QED
      BY <3>1, <3>2
  <2> HIDE DEF after
  <2> QED
    BY <1>9, <2>1
<1> HIDE DEF after
<1> QED
  BY <1>7, <1>8, <1>10

\* The rows of a target in some order, each of them once.
IsOrder(target, order) ==
  /\ order \in Seq(DOMAIN target) /\ Apart(order)
  /\ \A b \in DOMAIN target : In(b, order)

LEMMA OrdersAre ==
  ASSUME NEW target, IsTarget(target), NEW order \in Orders(target)
  PROVE  IsOrder(target, order)
<1> DEFINE T == DOMAIN target
           n == Cardinality(T)
<1>1. IsFiniteSet(T) /\ n \in Nat
  <2>1. IsFiniteSet(Page) /\ T \in SUBSET Page
    BY UndoAssumption DEF IsTarget
  <2>2. IsFiniteSet(T)
    <3> HIDE DEF T
    <3> QED
      BY <2>1, FS_Subset
  <2> HIDE DEF T
  <2> QED
    BY <2>2, FS_CardinalityType
<1>2. order \in [1 .. n -> T] /\ \A i, j \in 1 .. n : i # j => order[i] # order[j]
  BY DEF Orders, SetToSeqs
<1>3. order \in Seq(T) /\ DOMAIN order = 1 .. n
  BY <1>1, <1>2
<1>4. order \in Surjection(1 .. n, T)
  <2>1. order \in Injection(1 .. n, T)
    BY <1>2 DEF Injection, IsInjective
  <2>2. IsFiniteSet(1 .. n) /\ Cardinality(1 .. n) = n
    BY <1>1, FS_Interval
  <2> HIDE DEF T
  <2> QED
    BY <1>1, <2>1, <2>2, FS_Injection
<1>5. \A b \in T : In(b, order)
  BY <1>3, <1>4 DEF Surjection, In
<1> QED
  BY <1>2, <1>3, <1>5 DEF IsOrder, Apart

\* A replay to the end: what it leaves undone is all blocked.
LEMMA WorklistDoes ==
  ASSUME NEW target, IsTarget(target), page \in [Page -> Rows],
         NEW order, IsOrder(target, order), NEW end, end = Worklist(target, order)
  PROVE  /\ end \in States(target)
         /\ end.thrown => Throws(page, target)
         /\ ~end.thrown => Midway(page, target, end, {}) /\ Stuck(target, end)
<1> DEFINE n == Len(order)
<1>1. n \in Nat /\ order \in Seq(DOMAIN target) /\ DOMAIN order = 1 .. n
  BY DEF IsOrder
<1>2. PICK after \in [0 .. n -> States(target)] :
        /\ after[0] = [rows |-> page, todo |-> order, thrown |-> FALSE]
        /\ \A i \in 1 .. n : after[i] = Pass(target, after[i - 1])
        /\ Worklist(target, order) = after[n]
  BY <1>1, WorklistSteps
<1> DEFINE Good(state, i) ==
             /\ state.thrown => Throws(page, target)
             /\ ~state.thrown => /\ Midway(page, target, state, {})
                                 /\ Stuck(target, state) \/ Len(state.todo) <= n - i
           S == {i \in 0 .. n : Good(after[i], i)}
<1>3. 0 \in S
  <2>1. after[0].rows = page /\ after[0].todo = order /\ after[0].thrown = FALSE
    BY <1>2
  <2>2. Midway(page, target, after[0], {})
    BY <2>1 DEF IsOrder, Midway
  <2>3. Len(after[0].todo) <= n - 0
    BY <1>1, <2>1
  <2> QED
    BY <1>1, <2>1, <2>2, <2>3
<1>4. ASSUME NEW i \in 0 .. n, i < n, i \in S PROVE i + 1 \in S
  <2> DEFINE old == after[i]
             new == after[i + 1]
  <2>1. i \in Nat /\ i + 1 \in 1 .. n /\ i + 1 \in 0 .. n /\ (i + 1) - 1 = i
    BY <1>1, <1>4
  <2>2. old \in States(target) /\ new \in States(target)
    BY <1>2, <2>1
  <2>3. new = Pass(target, old)
    BY <1>2, <2>1
  <2>4. Good(old, i)
    BY <1>4
  <2>5. /\ new.thrown => Throws(page, target)
        /\ ~new.thrown => /\ ~old.thrown /\ Midway(page, target, new, {})
                          /\ Stuck(target, new) \/ Len(new.todo) < Len(old.todo)
                          /\ Stuck(target, old) => Stuck(target, new)
    <3> HIDE DEF old, new
    <3> QED
      BY <2>2, <2>3, <2>4, PassDoes
  <2>6. Len(new.todo) \in Nat /\ Len(old.todo) \in Nat
    BY <2>2 DEF States
  <2>7. Good(new, i + 1)
    <3> HIDE DEF old, new
    <3>1. Len(new.todo) < Len(old.todo) /\ Len(old.todo) <= n - i => Len(new.todo) <= n - (i + 1)
      BY <1>1, <2>1, <2>6
    <3> HIDE DEF n
    <3> QED
      BY <2>4, <2>5, <3>1
  <2> QED
    BY <2>1, <2>7
<1>5. Good(after[n], n)
  <2>1. \A i \in 0 .. n : i \in S
    <3> n \in Nat
      BY <1>1
    <3> HIDE DEF S, n
    <3> QED
      BY <1>3, <1>4, CountUp
  <2>2. n \in 0 .. n
    BY <1>1
  <2> HIDE DEF Good
  <2> QED
    BY <2>1, <2>2
<1>6. end = after[n] /\ end \in States(target)
  BY <1>1, <1>2
<1>7. Len(end.todo) <= n - n => Stuck(target, end)
  <2>1. end.todo \in Seq(DOMAIN target) /\ Len(end.todo) \in Nat
    BY <1>6 DEF States
  <2>2. Len(end.todo) <= n - n => DOMAIN end.todo = {}
    BY <1>1, <2>1
  <2> QED
    BY <2>2 DEF Stuck
<1> QED
  <2> HIDE DEF n
  <2> QED
    BY <1>5, <1>6, <1>7
-----------------------------------------------------------------------------
(***************************************************************************)
(* A block along the stacks.                                               *)
(***************************************************************************)
LEMMA FitsOn ==
  ASSUME NEW r, NEW s, NEW t, Fits(r, s), Fits(s, t)
  PROVE  Fits(r, t)
BY DEF Fits

LEMMA EntryFields ==
  ASSUME NEW e \in Entries
  PROVE  /\ DOMAIN e.snaps \in SUBSET Page /\ DOMAIN e.snaps # {}
         /\ e.snaps \in [DOMAIN e.snaps -> Snaps]
         /\ \A b \in DOMAIN e.snaps : e.snaps[b].before \in Rows /\ e.snaps[b].after \in Rows
                                      /\ e.snaps[b].after # NoRow
         /\ e.group \in Groups /\ e.from \in [Page -> Rows] /\ e.to \in [Page -> Rows]
<1>1. PICK S \in (SUBSET Page) \ {{}} :
        e \in [snaps : [S -> Snaps], group : Groups, from : [Page -> Rows], to : [Page -> Rows]]
  BY DEF Entries
<1>2. DOMAIN e.snaps = S /\ e.snaps \in [S -> Snaps]
  BY <1>1
<1>3. \A b \in S : e.snaps[b] \in Snaps
  BY <1>2
<1> QED
  BY <1>1, <1>2, <1>3 DEF Snaps

\* What an entry makes of a block on the way back, and on the way forth.
Undone(row, e, b) == IF Writes(e, b) THEN Landing(row, e.snaps[b].before) ELSE row
Redone(row, e, b) == IF Writes(e, b) THEN Landing(row, e.snaps[b].after) ELSE row

LEMMA UndoneFits ==
  ASSUME NEW e \in Entries, NEW b \in Page, NEW row \in Rows, Leads(e, b), Fits(row, e.to[b])
  PROVE  Fits(Undone(row, e, b), e.from[b])
<1>1. CASE Writes(e, b)
  <2>1. Fits(Landing(row, e.snaps[b].before), e.snaps[b].before)
    BY <1>1, EntryFields, SettleIs DEF Writes
  <2> QED
    BY <1>1, <2>1, FitsOn DEF Undone, Leads
<1>2. CASE ~Writes(e, b)
  BY <1>2, FitsOn DEF Undone, Leads
<1> QED
  BY <1>1, <1>2

LEMMA RedoneFits ==
  ASSUME NEW e \in Entries, NEW b \in Page, NEW row \in Rows, Leads(e, b), Meets(row, e, b)
  PROVE  /\ Fits(Redone(row, e, b), e.to[b])
         /\ Writes(e, b) => Redone(row, e, b) = e.snaps[b].after
<1>1. CASE Writes(e, b)
  <2>1. Redone(row, e, b) = e.snaps[b].after
    BY <1>1, EntryFields DEF Writes, Redone, Landing
  <2> QED
    BY <1>1, <2>1 DEF Leads, Fits
<1>2. CASE ~Writes(e, b)
  BY <1>2 DEF Redone, Meets
<1> QED
  BY <1>1, <1>2

\* The newest entry of the past is undone.
LEMMA UndoOne ==
  ASSUME NEW b \in Page, NEW row \in Rows, NEW p \in Seq(Entries), NEW f \in Seq(Entries),
         Here(row, p, f, b), NEW n \in Nat, n = Len(p), n > 0,
         NEW p2 \in Seq(Entries), Len(p2) = n - 1, \A i \in 1 .. n - 1 : p2[i] = p[i],
         NEW m \in Nat, m = Len(f),
         NEW f2 \in Seq(Entries), Len(f2) = m + 1, \A i \in 1 .. m : f2[i] = f[i], f2[m + 1] = p[n]
  PROVE  Here(Undone(row, p[n], b), p2, f2, b)
<1> DEFINE e == p[n]
           row2 == Undone(row, e, b)
<1>1. /\ DOMAIN p = 1 .. n /\ DOMAIN f = 1 .. m /\ DOMAIN p2 = 1 .. n - 1 /\ DOMAIN f2 = 1 .. m + 1
      /\ n \in 1 .. n /\ m + 1 \in 1 .. m + 1
      /\ \A i \in 1 .. n - 1 : i \in 1 .. n /\ i \in Nat
      /\ \A i \in 1 .. m + 1 : i \in Nat /\ (i = m + 1 \/ (i \in 1 .. m /\ i < m + 1))
      /\ \A i \in 1 .. m : i \in 1 .. m + 1 /\ i < m + 1 /\ i \in Nat
  OBVIOUS
<1>2. e \in Entries /\ Leads(e, b) /\ Fits(row, e.to[b])
  BY <1>1 DEF Here
<1>3. Fits(row2, e.from[b]) /\ (~Writes(e, b) => row2 = row)
  BY <1>2, UndoneFits DEF Undone
<1>4. Writes(e, b) => row = e.snaps[b].after
  BY <1>2, EntryFields DEF Writes, Leads, Fits
<1>5. /\ \A i \in DOMAIN p2 : Leads(p2[i], b)
      /\ \A i \in DOMAIN f2 : Leads(f2[i], b)
  BY <1>1, <1>2 DEF Here
<1>6. PastChain(p2, b)
  <2> SUFFICES ASSUME NEW i \in 1 .. n - 1, i > 1 PROVE Fits(p2[i].from[b], p2[i - 1].to[b])
    BY <1>1 DEF PastChain
  <2>1. i \in DOMAIN p /\ i - 1 \in 1 .. n - 1
    BY <1>1
  <2> QED
    BY <2>1 DEF Here, PastChain
<1>7. FutureChain(f2, b)
  <2> SUFFICES ASSUME NEW i \in 1 .. m + 1, i < m + 1 PROVE Fits(f2[i].from[b], f2[i + 1].to[b])
    BY <1>1 DEF FutureChain
  <2>1. CASE i = m
    <3>1. f2[i] = f[m] /\ f2[i + 1] = e /\ m > 0
      BY <1>1, <2>1
    <3> QED
      BY <3>1 DEF Here
  <2>2. CASE i # m
    <3>1. i \in 1 .. m /\ i + 1 \in 1 .. m /\ i < m
      BY <2>2
    <3>2. f2[i] = f[i] /\ f2[i + 1] = f[i + 1]
      BY <3>1
    <3> QED
      BY <1>1, <3>1, <3>2 DEF Here, FutureChain
  <2> QED
    BY <2>1, <2>2
<1>8. Len(p2) > 0 => Fits(e.from[b], p2[Len(p2)].to[b])
  <2> SUFFICES ASSUME n - 1 > 0 PROVE Fits(e.from[b], p[n - 1].to[b])
    BY <1>1
  <2>1. n \in DOMAIN p /\ n > 1
    BY <1>1
  <2> QED
    BY <2>1 DEF Here, PastChain
<1>9. ASSUME NEW k \in 1 .. m + 1, \A i \in 1 .. m + 1 : i > k => ~Writes(f2[i], b)
      PROVE  Meets(row2, f2[k], b)
  <2>1. CASE k = m + 1
    BY <1>2, <1>3, <2>1 DEF Meets
  <2>2. CASE k \in 1 .. m
    <3>1. row2 = row
      BY <1>1, <1>3, <1>9, <2>2
    <3>2. \A i \in 1 .. m : i > k => ~Writes(f[i], b)
      BY <1>1, <1>9
    <3> HIDE DEF row2
    <3> QED
      BY <1>1, <2>2, <3>1, <3>2 DEF Here, Ready
  <2> QED
    BY <1>1, <2>1, <2>2
<1>10. ASSUME NEW k \in 1 .. m + 1, NEW j \in 1 .. m + 1, j > k, Writes(f2[j], b),
              \A i \in 1 .. m + 1 : k < i /\ i < j => ~Writes(f2[i], b)
       PROVE  Meets(f2[j].snaps[b].after, f2[k], b)
  <2>1. k \in 1 .. m
    BY <1>10
  <2>2. CASE j = m + 1
    <3>1. f2[j].snaps[b].after = row
      BY <1>4, <1>10, <2>2
    <3>2. \A i \in 1 .. m : i > k => ~Writes(f[i], b)
      BY <1>1, <1>10, <2>2
    <3> QED
      BY <1>1, <2>1, <3>1, <3>2 DEF Here, Ready
  <2>3. CASE j \in 1 .. m
    <3>1. \A i \in 1 .. m : k < i /\ i < j => ~Writes(f[i], b)
      BY <1>1, <1>10
    <3> QED
      BY <1>1, <1>10, <2>1, <2>3, <3>1 DEF Here, Ready
  <2> QED
    BY <1>1, <2>2, <2>3
<1>11. Ready(row2, f2, b)
  <2> HIDE DEF row2
  <2> QED
    BY <1>1, <1>9, <1>10 DEF Ready
<1>12. f2[Len(f2)] = e
  OBVIOUS
<1> HIDE DEF row2, e
<1>13. Len(p2) > 0 => Fits(row2, p2[Len(p2)].to[b])
  BY <1>3, <1>8, FitsOn
<1> QED
  BY <1>5, <1>6, <1>7, <1>8, <1>11, <1>12, <1>13 DEF Here, row2, e

\* The next entry of the future is redone.
LEMMA RedoOne ==
  ASSUME NEW b \in Page, NEW row \in Rows, NEW p \in Seq(Entries), NEW f \in Seq(Entries),
         Here(row, p, f, b), NEW m \in Nat, m = Len(f), m > 0,
         NEW f2 \in Seq(Entries), Len(f2) = m - 1, \A i \in 1 .. m - 1 : f2[i] = f[i],
         NEW n \in Nat, n = Len(p),
         NEW p2 \in Seq(Entries), Len(p2) = n + 1, \A i \in 1 .. n : p2[i] = p[i], p2[n + 1] = f[m]
  PROVE  Here(Redone(row, f[m], b), p2, f2, b)
<1> DEFINE e == f[m]
           row2 == Redone(row, e, b)
<1>1. /\ DOMAIN p = 1 .. n /\ DOMAIN f = 1 .. m /\ DOMAIN p2 = 1 .. n + 1 /\ DOMAIN f2 = 1 .. m - 1
      /\ m \in 1 .. m /\ n + 1 \in 1 .. n + 1
      /\ \A i \in 1 .. m - 1 : i \in 1 .. m /\ i \in Nat /\ i < m
      /\ \A i \in 1 .. m : i \in Nat /\ (i = m \/ i \in 1 .. m - 1)
      /\ \A i \in 1 .. n + 1 : i \in Nat /\ (i = n + 1 \/ i \in 1 .. n)
      /\ \A i \in 1 .. n : i \in 1 .. n + 1 /\ i < n + 1 /\ i \in Nat
  OBVIOUS
<1>2. e \in Entries /\ Leads(e, b) /\ Meets(row, e, b)
  <2>1. \A i \in DOMAIN f : i > m => ~Writes(f[i], b)
    BY <1>1
  <2> QED
    BY <1>1, <2>1 DEF Here, Ready
<1>3. /\ Fits(row2, e.to[b]) /\ (~Writes(e, b) => row2 = row)
      /\ Writes(e, b) => row2 = e.snaps[b].after
  BY <1>2, RedoneFits DEF Redone
<1>5. /\ \A i \in DOMAIN p2 : Leads(p2[i], b)
      /\ \A i \in DOMAIN f2 : Leads(f2[i], b)
  BY <1>1, <1>2 DEF Here
<1>6. PastChain(p2, b)
  <2> SUFFICES ASSUME NEW i \in 1 .. n + 1, i > 1 PROVE Fits(p2[i].from[b], p2[i - 1].to[b])
    BY <1>1 DEF PastChain
  <2>1. CASE i = n + 1
    <3>1. p2[i] = e /\ p2[i - 1] = p[n] /\ n > 0
      BY <1>1, <2>1
    <3> QED
      BY <3>1 DEF Here
  <2>2. CASE i \in 1 .. n
    <3>1. i - 1 \in 1 .. n
      BY <2>2
    <3>2. p2[i] = p[i] /\ p2[i - 1] = p[i - 1]
      BY <2>2, <3>1
    <3> QED
      BY <1>1, <2>2, <3>2 DEF Here, PastChain
  <2> QED
    BY <1>1, <2>1, <2>2
<1>7. FutureChain(f2, b)
  <2> SUFFICES ASSUME NEW i \in 1 .. m - 1, i < m - 1 PROVE Fits(f2[i].from[b], f2[i + 1].to[b])
    BY <1>1 DEF FutureChain
  <2>1. i \in 1 .. m /\ i + 1 \in 1 .. m - 1 /\ i < m
    BY <1>1
  <2>2. f2[i] = f[i] /\ f2[i + 1] = f[i + 1]
    BY <2>1
  <2> QED
    BY <1>1, <2>1, <2>2 DEF Here, FutureChain
<1>8. Len(f2) > 0 => Fits(f2[Len(f2)].from[b], e.to[b])
  <2> SUFFICES ASSUME m - 1 > 0 PROVE Fits(f[m - 1].from[b], e.to[b])
    BY <1>1
  <2>1. m - 1 \in DOMAIN f /\ m - 1 < Len(f) /\ (m - 1) + 1 = m
    BY <1>1
  <2> QED
    BY <2>1 DEF Here, FutureChain
<1>9. ASSUME NEW k \in 1 .. m - 1, \A i \in 1 .. m - 1 : i > k => ~Writes(f2[i], b)
      PROVE  Meets(row2, f2[k], b)
  <2>1. k \in 1 .. m /\ m > k /\ f2[k] = f[k]
    BY <1>1
  <2>2. \A i \in 1 .. m - 1 : i > k => ~Writes(f[i], b)
    BY <1>9
  <2>3. CASE Writes(e, b)
    <3>1. \A i \in 1 .. m : k < i /\ i < m => ~Writes(f[i], b)
      BY <1>1, <2>2
    <3>2. Meets(e.snaps[b].after, f[k], b)
      BY <1>1, <2>1, <2>3, <3>1 DEF Here, Ready
    <3> QED
      BY <1>3, <2>1, <2>3, <3>2
  <2>4. CASE ~Writes(e, b)
    <3>1. \A i \in 1 .. m : i > k => ~Writes(f[i], b)
      BY <1>1, <2>2, <2>4
    <3>2. Meets(row, f[k], b)
      BY <1>1, <2>1, <3>1 DEF Here, Ready
    <3> QED
      BY <1>3, <2>1, <2>4, <3>2
  <2> QED
    BY <2>3, <2>4
<1>10. ASSUME NEW k \in 1 .. m - 1, NEW j \in 1 .. m - 1, j > k, Writes(f2[j], b),
              \A i \in 1 .. m - 1 : k < i /\ i < j => ~Writes(f2[i], b)
       PROVE  Meets(f2[j].snaps[b].after, f2[k], b)
  <2>1. k \in 1 .. m /\ j \in 1 .. m /\ f2[k] = f[k] /\ f2[j] = f[j]
    BY <1>1
  <2>2. \A i \in 1 .. m : k < i /\ i < j => ~Writes(f[i], b)
    <3>1. \A i \in 1 .. m : k < i /\ i < j => i \in 1 .. m - 1
      BY <1>1, <2>1
    <3> QED
      BY <1>10, <3>1
  <2> QED
    BY <1>1, <1>10, <2>1, <2>2 DEF Here, Ready
<1>11. Ready(row2, f2, b)
  <2> HIDE DEF row2
  <2> QED
    BY <1>1, <1>9, <1>10 DEF Ready
<1>12. p2[Len(p2)] = e
  OBVIOUS
<1> HIDE DEF row2, e
<1> QED
  BY <1>3, <1>5, <1>6, <1>7, <1>8, <1>11, <1>12 DEF Here, row2, e

\* The oldest entry of the past, or the last of the future, is forgotten.
LEMMA DropPast ==
  ASSUME NEW b \in Page, NEW row, NEW p \in Seq(Entries), NEW f \in Seq(Entries),
         Here(row, p, f, b), NEW n \in Nat, n = Len(p), n > 0,
         NEW p2 \in Seq(Entries), Len(p2) = n - 1, \A i \in 1 .. n - 1 : p2[i] = p[i + 1]
  PROVE  Here(row, p2, f, b)
<1>1. /\ DOMAIN p = 1 .. n /\ DOMAIN p2 = 1 .. n - 1
      /\ \A i \in 1 .. n - 1 : i \in Nat /\ i + 1 \in 1 .. n /\ (i + 1) - 1 = i
  OBVIOUS
<1>2. \A i \in DOMAIN p2 : Leads(p2[i], b)
  BY <1>1 DEF Here
<1>3. PastChain(p2, b)
  <2> SUFFICES ASSUME NEW i \in 1 .. n - 1, i > 1 PROVE Fits(p2[i].from[b], p2[i - 1].to[b])
    BY <1>1 DEF PastChain
  <2>1. i + 1 \in 1 .. n /\ i + 1 > 1 /\ i - 1 \in 1 .. n - 1 /\ (i + 1) - 1 = i /\ (i - 1) + 1 = i
    BY <1>1
  <2>2. p2[i] = p[i + 1] /\ p2[i - 1] = p[i]
    BY <2>1
  <2> QED
    BY <1>1, <2>1, <2>2 DEF Here, PastChain
<1>4. Len(p2) > 0 => p2[Len(p2)] = p[Len(p)] /\ Len(p) > 0
  OBVIOUS
<1> QED
  BY <1>2, <1>3, <1>4 DEF Here

LEMMA DropFuture ==
  ASSUME NEW b \in Page, NEW row, NEW p \in Seq(Entries), NEW f \in Seq(Entries),
         Here(row, p, f, b), NEW m \in Nat, m = Len(f), m > 0,
         NEW f2 \in Seq(Entries), Len(f2) = m - 1, \A i \in 1 .. m - 1 : f2[i] = f[i + 1]
  PROVE  Here(row, p, f2, b)
<1>1. /\ DOMAIN f = 1 .. m /\ DOMAIN f2 = 1 .. m - 1
      /\ \A i \in 1 .. m - 1 : i \in Nat /\ i + 1 \in 1 .. m
      /\ \A i \in 1 .. m : i > 1 => i - 1 \in 1 .. m - 1 /\ f2[i - 1] = f[i]
  OBVIOUS
<1>2. \A i \in DOMAIN f2 : Leads(f2[i], b)
  BY <1>1 DEF Here
<1>3. FutureChain(f2, b)
  <2> SUFFICES ASSUME NEW i \in 1 .. m - 1, i < m - 1 PROVE Fits(f2[i].from[b], f2[i + 1].to[b])
    BY <1>1 DEF FutureChain
  <2>1. i + 1 \in 1 .. m /\ i + 1 < m /\ i + 1 \in 1 .. m - 1
    BY <1>1
  <2>2. f2[i] = f[i + 1] /\ f2[i + 1] = f[(i + 1) + 1]
    BY <2>1
  <2> QED
    BY <1>1, <2>1, <2>2 DEF Here, FutureChain
<1>4. ASSUME NEW k \in 1 .. m - 1, \A i \in 1 .. m - 1 : i > k => ~Writes(f2[i], b)
      PROVE  Meets(row, f2[k], b)
  <2>1. k + 1 \in 1 .. m /\ f2[k] = f[k + 1]
    BY <1>1
  <2>2. ASSUME NEW i \in 1 .. m, i > k + 1 PROVE ~Writes(f[i], b)
    <3>1. i - 1 \in 1 .. m - 1 /\ i - 1 > k /\ f2[i - 1] = f[i]
      BY <1>1, <2>2
    <3> QED
      BY <1>4, <3>1
  <2> QED
    BY <1>1, <2>1, <2>2 DEF Here, Ready
<1>5. ASSUME NEW k \in 1 .. m - 1, NEW j \in 1 .. m - 1, j > k, Writes(f2[j], b),
             \A i \in 1 .. m - 1 : k < i /\ i < j => ~Writes(f2[i], b)
      PROVE  Meets(f2[j].snaps[b].after, f2[k], b)
  <2>1. /\ k + 1 \in 1 .. m /\ f2[k] = f[k + 1] /\ j + 1 \in 1 .. m /\ f2[j] = f[j + 1]
        /\ j + 1 > k + 1
    BY <1>1, <1>5
  <2>2. ASSUME NEW i \in 1 .. m, k + 1 < i, i < j + 1 PROVE ~Writes(f[i], b)
    <3>1. i - 1 \in 1 .. m - 1 /\ k < i - 1 /\ i - 1 < j /\ f2[i - 1] = f[i]
      BY <1>1, <2>2
    <3> QED
      BY <1>5, <3>1
  <2> QED
    BY <1>1, <1>5, <2>1, <2>2 DEF Here, Ready
<1>6. Ready(row, f2, b)
  BY <1>1, <1>4, <1>5 DEF Ready
<1>7. Len(f2) > 0 => f2[Len(f2)] = f[Len(f)] /\ Len(f) > 0
  OBVIOUS
<1> QED
  BY <1>2, <1>3, <1>6, <1>7 DEF Here

\* A transaction is recorded: nothing is left to redo.
LEMMA Recorded ==
  ASSUME NEW b \in Page, NEW row, NEW p \in Seq(Entries), NEW f, Here(row, p, f, b),
         NEW n \in Nat, n = Len(p), NEW e \in Entries, NEW row2,
         Leads(e, b), e.from[b] = row, e.to[b] = row2,
         NEW p2 \in Seq(Entries), Len(p2) = n + 1, \A i \in 1 .. n : p2[i] = p[i], p2[n + 1] = e
  PROVE  Here(row2, p2, <<>>, b)
<1>1. /\ DOMAIN p = 1 .. n /\ DOMAIN p2 = 1 .. n + 1
      /\ \A i \in 1 .. n + 1 : i \in Nat /\ (i = n + 1 \/ i \in 1 .. n)
  OBVIOUS
<1>2. \A i \in DOMAIN p2 : Leads(p2[i], b)
  BY <1>1 DEF Here
<1>3. PastChain(p2, b)
  <2> SUFFICES ASSUME NEW i \in 1 .. n + 1, i > 1 PROVE Fits(p2[i].from[b], p2[i - 1].to[b])
    BY <1>1 DEF PastChain
  <2>1. CASE i = n + 1
    <3>1. p2[i] = e /\ p2[i - 1] = p[n] /\ n > 0
      BY <1>1, <2>1
    <3> QED
      BY <3>1 DEF Here
  <2>2. CASE i \in 1 .. n
    <3>1. i - 1 \in 1 .. n
      BY <2>2
    <3>2. p2[i] = p[i] /\ p2[i - 1] = p[i - 1]
      BY <2>2, <3>1
    <3> QED
      BY <1>1, <2>2, <3>2 DEF Here, PastChain
  <2> QED
    BY <1>1, <2>1, <2>2
<1>4. p2[Len(p2)] = e /\ Fits(row2, e.to[b])
  BY DEF Fits
<1>5. Len(<<>>) = 0 /\ DOMAIN <<>> = {}
  OBVIOUS
<1>6. FutureChain(<<>>, b) /\ Ready(row2, <<>>, b)
  BY <1>5 DEF FutureChain, Ready
<1> QED
  BY <1>2, <1>3, <1>4, <1>5, <1>6 DEF Here

\* One that joins the group on top.
LEMMA Joins ==
  ASSUME NEW b \in Page, NEW row, NEW p \in Seq(Entries), NEW f, Here(row, p, f, b),
         NEW n \in Nat, n = Len(p), n > 0, NEW e \in Entries, NEW row2,
         Leads(e, b), e.from[b] = p[n].from[b], e.to[b] = row2,
         NEW p2 \in Seq(Entries), Len(p2) = n, \A i \in 1 .. n - 1 : p2[i] = p[i], p2[n] = e
  PROVE  Here(row2, p2, <<>>, b)
<1>1. /\ DOMAIN p = 1 .. n /\ DOMAIN p2 = 1 .. n
      /\ \A i \in 1 .. n : i \in Nat /\ (i = n \/ i \in 1 .. n - 1)
  OBVIOUS
<1>2. \A i \in DOMAIN p2 : Leads(p2[i], b)
  BY <1>1 DEF Here
<1>3. PastChain(p2, b)
  <2> SUFFICES ASSUME NEW i \in 1 .. n, i > 1 PROVE Fits(p2[i].from[b], p2[i - 1].to[b])
    BY <1>1 DEF PastChain
  <2>1. i - 1 \in 1 .. n - 1 /\ p2[i - 1] = p[i - 1] /\ p2[i].from[b] = p[i].from[b]
    BY <1>1
  <2> QED
    BY <1>1, <2>1 DEF Here, PastChain
<1>4. p2[Len(p2)] = e /\ Fits(row2, e.to[b])
  BY DEF Fits
<1>5. Len(<<>>) = 0 /\ DOMAIN <<>> = {}
  OBVIOUS
<1>6. FutureChain(<<>>, b) /\ Ready(row2, <<>>, b)
  BY <1>5 DEF FutureChain, Ready
<1> QED
  BY <1>2, <1>3, <1>4, <1>5, <1>6 DEF Here

LEMMA MergedLeads ==
  ASSUME NEW b \in Page, NEW old \in Entries, NEW new \in Entries, NEW e \in Entries,
         e.snaps = Merge(old.snaps, new.snaps), e.from = old.from, e.to = new.to,
         Leads(old, b), Fits(new.from[b], old.to[b]),
         Writes(new, b) => new.snaps[b].before = new.from[b] /\ new.snaps[b].after = new.to[b],
         ~Writes(new, b) => new.to[b] = new.from[b]
  PROVE  Leads(e, b)
<1>1. DOMAIN e.snaps = DOMAIN old.snaps \cup DOMAIN new.snaps
  BY DEF Merge
<1>2. ASSUME Writes(e, b)
      PROVE  /\ e.snaps[b].before = IF Writes(old, b) THEN old.snaps[b].before ELSE new.snaps[b].before
             /\ e.snaps[b].after = IF Writes(new, b) THEN new.snaps[b].after ELSE old.snaps[b].after
  BY <1>1, <1>2 DEF Merge, Writes
<1>3. Writes(e, b) <=> Writes(old, b) \/ Writes(new, b)
  BY <1>1 DEF Writes
<1>4. CASE Writes(old, b)
  <2>1. old.snaps[b].after = old.to[b] /\ Fits(old.snaps[b].before, old.from[b])
    BY <1>4 DEF Leads
  <2>2. old.to[b] # NoRow
    BY <1>4, <2>1, EntryFields DEF Writes
  <2>3. ~Writes(new, b) => old.snaps[b].after = new.to[b]
    BY <2>1, <2>2 DEF Fits
  <2> QED
    BY <1>2, <1>3, <1>4, <2>1, <2>3 DEF Leads
<1>5. CASE ~Writes(old, b)
  <2>1. Fits(new.from[b], old.from[b])
    BY <1>5, FitsOn DEF Leads
  <2> QED
    BY <1>2, <1>3, <1>5, <2>1 DEF Leads
<1> QED
  BY <1>4, <1>5
-----------------------------------------------------------------------------
(***************************************************************************)
(* The stacks and the line.                                                *)
(***************************************************************************)
Line == [entry : Entries, back : BOOLEAN]

LEMMA FrontIs ==
  ASSUME NEW X, NEW s \in Seq(X), s # <<>>
  PROVE  /\ Len(s) \in Nat \ {0} /\ Last(s) = s[Len(s)] /\ Last(s) \in X
         /\ Front(s) \in Seq(X) /\ Len(Front(s)) = Len(s) - 1
         /\ \A i \in 1 .. Len(s) - 1 : Front(s)[i] = s[i]
<1> DEFINE n == Len(s)
<1>1. n \in Nat \ {0} /\ s[n] \in X /\ DOMAIN s = 1 .. n
  OBVIOUS
<1>2. 1 \in 1 .. n + 1 /\ n - 1 \in 1 - 1 .. n
  BY <1>1
<1>3. /\ SubSeq(s, 1, n - 1) \in Seq(X) /\ Len(SubSeq(s, 1, n - 1)) = n - 1
      /\ \A i \in 1 .. n - 1 : SubSeq(s, 1, n - 1)[i] = s[i]
  BY <1>1, <1>2, SubSeqProperties
<1> QED
  BY <1>1, <1>3 DEF Front, Last

\* The same but for the entry at the bottom, which may be gone.
Dropped(old, new) ==
  /\ Len(old) > 0 /\ Len(new) = Len(old) - 1
  /\ \A i \in 1 .. Len(old) - 1 : new[i] = old[i + 1]

Kept(old, new) == new = old \/ Dropped(old, new)

LEMMA PushIs ==
  ASSUME NEW X, NEW s \in Seq(X), NEW e \in X, Len(s) <= MaxDepth
  PROVE  /\ Push(s, e) \in Seq(X) /\ Len(Push(s, e)) <= MaxDepth
         /\ Kept(Append(s, e), Push(s, e))
<1> DEFINE t == Append(s, e)
<1>1. /\ t \in Seq(X) /\ Len(t) = Len(s) + 1 /\ t # <<>> /\ t[Len(s) + 1] = e
      /\ \A i \in 1 .. Len(s) : t[i] = s[i]
  OBVIOUS
<1>2. Len(s) \in Nat /\ MaxDepth \in Nat
  BY UndoAssumption
<1>3. CASE Len(t) > MaxDepth
  <2>1. Push(s, e) = Tail(t)
    BY <1>3 DEF Push
  <2>2. /\ Tail(t) \in Seq(X) /\ Len(Tail(t)) = Len(t) - 1
        /\ \A i \in 1 .. Len(t) - 1 : Tail(t)[i] = t[i + 1]
    <3> HIDE DEF t
    <3> QED
      BY <1>1
  <2>3. Dropped(t, Push(s, e))
    <3> HIDE DEF t
    <3> QED
      BY <1>1, <1>2, <2>1, <2>2 DEF Dropped
  <2> HIDE DEF t
  <2> QED
    BY <1>1, <1>2, <2>1, <2>2, <2>3 DEF Kept, t
<1>4. CASE ~(Len(t) > MaxDepth)
  <2>1. Push(s, e) = t
    BY <1>4 DEF Push
  <2> QED
    BY <1>1, <1>2, <1>4, <2>1 DEF Kept
<1> QED
  BY <1>3, <1>4

LEMMA RemoveAtIs ==
  ASSUME NEW X, NEW s \in Seq(X), NEW i \in DOMAIN s
  PROVE  /\ RemoveAt(s, i) \in Seq(X) /\ Len(RemoveAt(s, i)) = Len(s) - 1
         /\ i = Len(s) => \A j \in 1 .. Len(s) - 1 : RemoveAt(s, i)[j] = s[j]
<1> DEFINE l == SubSeq(s, 1, i - 1)
           r == SubSeq(s, i + 1, Len(s))
<1>1. i \in 1 .. Len(s) /\ Len(s) \in Nat /\ i \in Nat
  OBVIOUS
<1>2. l \in Seq(X) /\ Len(l) = i - 1 /\ \A j \in 1 .. i - 1 : l[j] = s[j]
  BY <1>1, SubSeqProperties
<1>3. r \in Seq(X) /\ Len(r) = Len(s) - i
  BY <1>1, SubSeqProperties
<1>4. RemoveAt(s, i) = l \o r
  BY DEF RemoveAt
<1> HIDE DEF l, r
<1>5. /\ l \o r \in Seq(X) /\ Len(l \o r) = Len(l) + Len(r)
      /\ \A j \in 1 .. Len(l) + Len(r) : (l \o r)[j] = IF j <= Len(l) THEN l[j] ELSE r[j - Len(l)]
  BY <1>2, <1>3, ConcatProperties
<1>6. Len(l) + Len(r) = Len(s) - 1
  BY <1>1, <1>2, <1>3
<1>7. ASSUME i = Len(s), NEW j \in 1 .. Len(s) - 1 PROVE (l \o r)[j] = s[j]
  <2>1. j \in 1 .. Len(l) + Len(r) /\ j <= Len(l) /\ j \in 1 .. i - 1
    BY <1>1, <1>2, <1>6, <1>7
  <2> QED
    BY <1>2, <1>5, <2>1
<1> QED
  BY <1>4, <1>5, <1>6, <1>7

LEMMA JoinedIs ==
  ASSUME NEW s \in Seq(Entries), NEW line \in Seq(Line)
  PROVE  /\ Joined(s, line) \in Seq(Entries)
         /\ Len(Joined(s, line)) = Len(s) + Len(line)
         /\ Len(Joined(s, line)) \in Nat
         /\ \A i \in 1 .. Len(s) : Joined(s, line)[i] = s[i]
         /\ \A i \in 1 .. Len(line) :
              Joined(s, line)[Len(s) + i] = line[Len(line) + 1 - i].entry
<1> DEFINE m == Len(s)
           n == Len(line)
           j == Joined(s, line)
<1>1. /\ m \in Nat /\ n \in Nat
      /\ \A i \in 1 .. m : s[i] \in Entries
      /\ \A i \in 1 .. n : line[i] \in Line
  OBVIOUS
<1>2. j = [i \in 1 .. m + n |-> IF i <= m THEN s[i] ELSE line[m + n + 1 - i].entry]
  BY DEF Joined
<1> HIDE DEF m, n, j
<1>3. \A i \in 1 .. m + n : i <= m \/ m + n + 1 - i \in 1 .. n
  BY <1>1
<1>4. \A i \in 1 .. n : line[i].entry \in Entries
  BY <1>1 DEF Line
<1>5. \A i \in 1 .. m + n : j[i] \in Entries
  BY <1>1, <1>2, <1>3, <1>4
<1>6. j \in Seq(Entries) /\ Len(j) = m + n
  BY <1>1, <1>2, <1>5
<1>7. \A i \in 1 .. m : j[i] = s[i]
  BY <1>1, <1>2
<1>8. ASSUME NEW i \in 1 .. n PROVE j[m + i] = line[n + 1 - i].entry
  <2>1. m + i \in 1 .. m + n /\ ~(m + i <= m) /\ m + n + 1 - (m + i) = n + 1 - i
    BY <1>1
  <2> QED
    BY <1>2, <2>1
<1> QED
  BY <1>1, <1>6, <1>7, <1>8 DEF m, n, j

\* With nothing in line.
LEMMA JoinedNone ==
  ASSUME NEW s \in Seq(Entries)
  PROVE  Joined(s, <<>>) = s
<1>1. <<>> \in Seq(Line) /\ Len(<<>>) = 0
  OBVIOUS
<1>2. /\ Joined(s, <<>>) \in Seq(Entries) /\ Len(Joined(s, <<>>)) = Len(s) + Len(<<>>)
      /\ \A i \in 1 .. Len(s) : Joined(s, <<>>)[i] = s[i]
  BY <1>1, JoinedIs
<1>3. Len(s) \in Nat /\ Len(Joined(s, <<>>)) = Len(s)
  BY <1>1, <1>2
<1> QED
  BY <1>2, <1>3, SeqEqual

\* A press leaves them as they are.
LEMMA JoinedMoves ==
  ASSUME NEW s \in Seq(Entries), s # <<>>, NEW line \in Seq(Line), NEW back \in BOOLEAN
  PROVE  /\ Append(line, [entry |-> Last(s), back |-> back]) \in Seq(Line)
         /\ Joined(Front(s), Append(line, [entry |-> Last(s), back |-> back])) = Joined(s, line)
<1> DEFINE m == Len(s)
           n == Len(line)
           item == [entry |-> Last(s), back |-> back]
           line2 == Append(line, item)
           s2 == Front(s)
           j == Joined(s, line)
           j2 == Joined(s2, line2)
<1>1. /\ m \in Nat \ {0} /\ n \in Nat /\ Last(s) = s[m] /\ s[m] \in Entries
      /\ s2 \in Seq(Entries) /\ Len(s2) = m - 1 /\ \A i \in 1 .. m - 1 : s2[i] = s[i]
  BY FrontIs
<1>2. item \in Line
  BY <1>1 DEF Line
<1>3. /\ line2 \in Seq(Line) /\ Len(line2) = n + 1 /\ line2[n + 1] = item
      /\ \A i \in 1 .. n : line2[i] = line[i]
  <2> HIDE DEF item
  <2> QED
    BY <1>2
<1>4. /\ j \in Seq(Entries) /\ Len(j) = m + n /\ \A i \in 1 .. m : j[i] = s[i]
      /\ \A i \in 1 .. n : j[m + i] = line[n + 1 - i].entry
  BY JoinedIs
<1>5. /\ j2 \in Seq(Entries) /\ Len(j2) = m - 1 + (n + 1) /\ \A i \in 1 .. m - 1 : j2[i] = s2[i]
      /\ \A i \in 1 .. n + 1 : j2[m - 1 + i] = line2[n + 1 + 1 - i].entry
  <2> HIDE DEF s2, line2
  <2>1. /\ j2 \in Seq(Entries) /\ Len(j2) = Len(s2) + Len(line2)
        /\ \A i \in 1 .. Len(s2) : j2[i] = s2[i]
        /\ \A i \in 1 .. Len(line2) : j2[Len(s2) + i] = line2[Len(line2) + 1 - i].entry
    BY <1>1, <1>3, JoinedIs
  <2> QED
    BY <1>1, <1>3, <2>1
<1>6. item.entry = s[m]
  BY <1>1
<1> HIDE DEF m, n, item, line2, s2, j, j2
<1>7. ASSUME NEW i \in 1 .. m + n PROVE j2[i] = j[i]
  <2>1. CASE i < m
    <3>1. i \in 1 .. m - 1 /\ i \in 1 .. m
      BY <1>1, <2>1
    <3> QED
      BY <1>1, <1>4, <1>5, <3>1
  <2>2. CASE i = m
    <3>1. 1 \in 1 .. n + 1 /\ m - 1 + 1 = m /\ n + 1 + 1 - 1 = n + 1 /\ m \in 1 .. m
      BY <1>1
    <3>2. j2[m - 1 + 1] = line2[n + 1 + 1 - 1].entry
      BY <1>5, <3>1
    <3>3. j2[m] = s[m] /\ j[m] = s[m]
      BY <1>3, <1>4, <1>6, <3>1, <3>2
    <3> QED
      BY <2>2, <3>3
  <2>3. CASE i > m
    <3> DEFINE k == i - m
    <3>1. /\ k \in 1 .. n /\ m + k = i /\ k + 1 \in 1 .. n + 1 /\ m - 1 + (k + 1) = i
          /\ n + 1 + 1 - (k + 1) = n + 1 - k /\ n + 1 - k \in 1 .. n
      BY <1>1, <2>3
    <3> HIDE DEF k
    <3>2. j[m + k] = line[n + 1 - k].entry /\ j2[m - 1 + (k + 1)] = line2[n + 1 + 1 - (k + 1)].entry
      BY <1>4, <1>5, <3>1
    <3>3. line2[n + 1 - k] = line[n + 1 - k]
      BY <1>3, <3>1
    <3> QED
      BY <3>1, <3>2, <3>3
  <2> QED
    BY <1>1, <2>1, <2>2, <2>3
<1>8. j2 = j
  <2>1. Len(j2) = Len(j) /\ Len(j) = m + n
    BY <1>1, <1>4, <1>5
  <2> QED
    BY <1>4, <1>5, <1>7, <2>1, SeqEqual
<1> QED
  BY <1>3, <1>8 DEF j, j2, s2, line2, item

\* What is in line first is joined last, whether it goes or not.
LEMMA JoinedGoes ==
  ASSUME NEW s \in Seq(Entries), NEW line \in Seq(Line), line # <<>>
  PROVE  /\ Len(line) \in Nat \ {0} /\ Head(line) = line[1] /\ line[1] \in Line
         /\ Tail(line) \in Seq(Line) /\ Len(Tail(line)) = Len(line) - 1
         /\ \A i \in 1 .. Len(line) - 1 : Tail(line)[i] = line[i + 1]
         /\ Joined(s, line)[Len(Joined(s, line))] = line[1].entry
         /\ Len(Joined(s, Tail(line))) = Len(Joined(s, line)) - 1
         /\ \A i \in 1 .. Len(Joined(s, line)) - 1 : Joined(s, Tail(line))[i] = Joined(s, line)[i]
<1> DEFINE m == Len(s)
           n == Len(line)
           rest == Tail(line)
           j == Joined(s, line)
           j2 == Joined(s, rest)
<1>1. /\ m \in Nat /\ n \in Nat \ {0} /\ Head(line) = line[1] /\ line[1] \in Line
      /\ rest \in Seq(Line) /\ Len(rest) = n - 1 /\ \A i \in 1 .. n - 1 : rest[i] = line[i + 1]
  OBVIOUS
<1>2. /\ j \in Seq(Entries) /\ Len(j) = m + n /\ \A i \in 1 .. m : j[i] = s[i]
      /\ \A i \in 1 .. n : j[m + i] = line[n + 1 - i].entry
  BY JoinedIs
<1>3. /\ Len(j2) = m + (n - 1) /\ \A i \in 1 .. m : j2[i] = s[i]
      /\ \A i \in 1 .. n - 1 : j2[m + i] = rest[n - 1 + 1 - i].entry
  <2> HIDE DEF rest
  <2>1. /\ Len(j2) = m + Len(rest) /\ \A i \in 1 .. m : j2[i] = s[i]
        /\ \A i \in 1 .. Len(rest) : j2[m + i] = rest[Len(rest) + 1 - i].entry
    BY <1>1, JoinedIs
  <2> QED
    BY <1>1, <2>1
<1> HIDE DEF m, n, rest, j, j2
<1>4. j[m + n] = line[1].entry
  <2>1. n \in 1 .. n /\ n + 1 - n = 1
    BY <1>1
  <2>2. j[m + n] = line[n + 1 - n].entry
    BY <1>2, <2>1
  <2> QED
    BY <2>1, <2>2
<1>5. ASSUME NEW i \in 1 .. m + n - 1 PROVE j2[i] = j[i]
  <2>1. CASE i <= m
    BY <1>1, <1>2, <1>3, <2>1
  <2>2. CASE i > m
    <3> DEFINE k == i - m
    <3>1. /\ k \in 1 .. n - 1 /\ k \in 1 .. n /\ m + k = i
          /\ n - 1 + 1 - k = n - k /\ n - k \in 1 .. n - 1 /\ n + 1 - k = n - k + 1
      BY <1>1, <2>2
    <3> HIDE DEF k
    <3>2. j[m + k] = line[n - k + 1].entry /\ j2[m + k] = rest[n - k].entry
      BY <1>2, <1>3, <3>1
    <3> QED
      BY <1>1, <3>1, <3>2
  <2> QED
    BY <1>1, <2>1, <2>2
<1>6. Len(j2) = m + n - 1
  BY <1>1, <1>3
<1> QED
  BY <1>1, <1>2, <1>4, <1>5, <1>6 DEF m, n, rest, j, j2
-----------------------------------------------------------------------------
(***************************************************************************)
(* What is recorded.                                                       *)
(***************************************************************************)
LEMMA IsEntry ==
  ASSUME NEW S \in (SUBSET Page) \ {{}}, NEW snaps \in [S -> Snaps], NEW group \in Groups,
         NEW from \in [Page -> Rows], NEW to \in [Page -> Rows]
  PROVE  [snaps |-> snaps, group |-> group, from |-> from, to |-> to] \in Entries
BY DEF Entries

LEMMA OverIs ==
  ASSUME NEW rows, NEW old \in [Page -> Rows], DOMAIN rows \subseteq Page,
         rows \in [DOMAIN rows -> Rows]
  PROVE  /\ Over(rows, old) \in [Page -> Rows]
         /\ \A b \in DOMAIN rows : Over(rows, old)[b] = rows[b]
         /\ \A b \in Page \ DOMAIN rows : Over(rows, old)[b] = old[b]
BY DEF Over

\* The entry of an edit: from the page before it to the page after it.
Fresh(new) ==
  /\ new \in Entries /\ new.from = page /\ new.to = page'
  /\ \A b \in Page :
       /\ Writes(new, b) => new.snaps[b].before = page[b] /\ new.snaps[b].after = page'[b]
       /\ ~Writes(new, b) => page'[b] = page[b]

LEMMA EditIs ==
  ASSUME page \in [Page -> Rows], NEW rows \in Edits, NEW group \in Groups, Edit(rows, group)
  PROVE  /\ page' \in [Page -> Rows] /\ waiting' = waiting /\ drifted' = drifted
         /\ raced' = (raced \/ waiting # <<>>)
         /\ \E new : Fresh(new) /\ Record(new)
<1> DEFINE S == DOMAIN rows
           snaps == [b \in S |-> [before |-> page[b], after |-> rows[b]]]
           new == [snaps |-> snaps, group |-> group, from |-> page, to |-> page']
<1>1. S \in (SUBSET Page) \ {{}} /\ rows \in [S -> Rows \ {NoRow}]
  BY UndoAssumption
<1>2. rows \in [DOMAIN rows -> Rows] /\ DOMAIN rows \subseteq Page
  BY <1>1
<1>3. /\ page' = Over(rows, page) /\ waiting' = waiting /\ drifted' = drifted
      /\ raced' = (raced \/ waiting # <<>>)
      /\ Record([snaps |-> [b \in DOMAIN rows |-> [before |-> page[b], after |-> rows[b]]],
                 group |-> group, from |-> page, to |-> Over(rows, page)])
  BY DEF Edit
<1>4. /\ page' \in [Page -> Rows]
      /\ \A b \in S : page'[b] = rows[b]
      /\ \A b \in Page \ S : page'[b] = page[b]
  BY <1>2, <1>3, OverIs
<1>5. snaps \in [S -> Snaps]
  BY <1>1 DEF Snaps
<1>6. new \in Entries
  <2> HIDE DEF S, snaps
  <2> QED
    BY <1>1, <1>4, <1>5, IsEntry
<1>7. DOMAIN new.snaps = S /\ \A b \in S : new.snaps[b] = [before |-> page[b], after |-> rows[b]]
  OBVIOUS
<1>8. Fresh(new)
  <2>1. new.from = page /\ new.to = page'
    OBVIOUS
  <2> HIDE DEF new, S
  <2>2. ASSUME NEW b \in S PROVE new.snaps[b].before = page[b] /\ new.snaps[b].after = page'[b]
    <3>1. new.snaps[b] = [before |-> page[b], after |-> rows[b]]
      BY <1>7
    <3>2. page'[b] = rows[b]
      BY <1>4
    <3> QED
      BY <3>1, <3>2
  <2> QED
    BY <1>4, <1>6, <1>7, <2>1, <2>2 DEF Fresh, Writes
<1>9. Record(new)
  BY <1>3
<1> HIDE DEF new
<1> QED
  BY <1>3, <1>4, <1>8, <1>9

LEMMA TwoFields ==
  ASSUME NEW s, NEW g, NEW f, NEW t, NEW r, r = [snaps |-> s, group |-> g, from |-> f, to |-> t],
         NEW s2, NEW t2
  PROVE  [r EXCEPT !.snaps = s2, !.to = t2] = [snaps |-> s2, group |-> g, from |-> f, to |-> t2]
<1> DEFINE r1 == [snaps |-> s2, group |-> g, from |-> f, to |-> t]
<1>1. [r EXCEPT !.snaps = s2, !.to = t2] = [[r EXCEPT !.snaps = s2] EXCEPT !.to = t2]
  OBVIOUS
<1>2. [r EXCEPT !.snaps = s2] = r1
  OBVIOUS
<1>3. [r1 EXCEPT !.to = t2] = [snaps |-> s2, group |-> g, from |-> f, to |-> t2]
  OBVIOUS
<1> QED
  BY <1>1, <1>2, <1>3

\* The two ways an entry is recorded.
Pushed(new) == undo' = Push(undo, new)

Joining(new, e) ==
  /\ e \in Entries /\ undo # <<>>
  /\ e.snaps = Merge(undo[Len(undo)].snaps, new.snaps)
  /\ e.from = undo[Len(undo)].from /\ e.to = new.to
  /\ undo' \in Seq(Entries) /\ Len(undo') = Len(undo)
  /\ \A i \in 1 .. Len(undo) - 1 : undo'[i] = undo[i]
  /\ undo'[Len(undo)] = e

LEMMA RecordIs ==
  ASSUME undo \in Seq(Entries), NEW new \in Entries, Record(new)
  PROVE  redo' = <<>> /\ (Pushed(new) \/ \E e : Joining(new, e))
<1>1. CASE undo # <<>> /\ new.group # NoGroup /\ Last(undo).group = new.group
  <2> DEFINE old == Last(undo)
             snaps == Merge(old.snaps, new.snaps)
             e == [old EXCEPT !.snaps = Merge(@, new.snaps), !.to = new.to]
             n == Len(undo)
  <2>1. /\ n \in Nat \ {0} /\ old = undo[n] /\ old \in Entries
        /\ Front(undo) \in Seq(Entries) /\ Len(Front(undo)) = n - 1
        /\ \A i \in 1 .. n - 1 : Front(undo)[i] = undo[i]
    BY <1>1, FrontIs
  <2>2. old = [snaps |-> old.snaps, group |-> old.group, from |-> old.from, to |-> old.to]
    <3> HIDE DEF old
    <3> QED
      BY <2>1 DEF Entries
  <2>3. e = [snaps |-> snaps, group |-> old.group, from |-> old.from, to |-> new.to]
    <3>1. e = [old EXCEPT !.snaps = snaps, !.to = new.to]
      OBVIOUS
    <3> HIDE DEF snaps, e, old
    <3> QED
      BY <2>2, <3>1, TwoFields
  <2>4. /\ DOMAIN old.snaps \in SUBSET Page /\ DOMAIN old.snaps # {}
        /\ old.snaps \in [DOMAIN old.snaps -> Snaps]
        /\ old.group \in Groups /\ old.from \in [Page -> Rows]
    <3> HIDE DEF old
    <3> QED
      BY <2>1, EntryFields
  <2>5. /\ DOMAIN new.snaps \in SUBSET Page
        /\ new.snaps \in [DOMAIN new.snaps -> Snaps] /\ new.to \in [Page -> Rows]
    BY EntryFields
  <2> DEFINE S == DOMAIN old.snaps \cup DOMAIN new.snaps
  <2>6. snaps \in [S -> Snaps]
    <3> HIDE DEF old
    <3> DEFINE f(b) == [before |-> IF b \in DOMAIN old.snaps THEN old.snaps[b].before ELSE new.snaps[b].before,
                        after  |-> IF b \in DOMAIN new.snaps THEN new.snaps[b].after ELSE old.snaps[b].after]
    <3>1. snaps = [b \in S |-> f(b)]
      BY DEF Merge
    <3>2. ASSUME NEW b \in S PROVE f(b) \in Snaps
      <4>1. /\ b \in DOMAIN old.snaps => old.snaps[b].before \in Rows /\ old.snaps[b].after \in Rows \ {NoRow}
            /\ b \in DOMAIN new.snaps => new.snaps[b].before \in Rows /\ new.snaps[b].after \in Rows \ {NoRow}
        BY <2>4, <2>5 DEF Snaps
      <4> QED
        BY <4>1 DEF Snaps
    <3> HIDE DEF f, snaps, S
    <3> QED
      BY <3>1, <3>2
  <2>7. e \in Entries
    <3>1. S \in (SUBSET Page) \ {{}}
      BY <2>4, <2>5
    <3> HIDE DEF S, snaps, old, e
    <3> QED
      BY <2>3, <2>4, <2>5, <2>6, <3>1, IsEntry
  <2>8. undo' = Append(Front(undo), e) /\ redo' = <<>>
    BY <1>1 DEF Record
  <2>9. e.snaps = snaps /\ e.from = old.from /\ e.to = new.to
    <3> HIDE DEF old, snaps, e
    <3> QED
      BY <2>3
  <2> HIDE DEF e
  <2>10. /\ undo' \in Seq(Entries) /\ Len(undo') = Len(undo)
         /\ \A i \in 1 .. Len(undo) - 1 : undo'[i] = undo[i]
         /\ undo'[Len(undo)] = e
    BY <2>1, <2>7, <2>8
  <2>11. Joining(new, e)
    BY <1>1, <2>1, <2>7, <2>9, <2>10 DEF Joining
  <2> QED
    BY <2>8, <2>11
<1>2. CASE ~(undo # <<>> /\ new.group # NoGroup /\ Last(undo).group = new.group)
  BY <1>2 DEF Record, Pushed
<1> QED
  BY <1>1, <1>2
-----------------------------------------------------------------------------
(***************************************************************************)
(* A replay either drives every block of its entry home and puts the entry *)
(* on the other stack, or leaves the page and puts it back.                *)
(***************************************************************************)
Turned(replay, row, b) ==
  IF replay.back THEN Undone(row, replay.entry, b) ELSE Redone(row, replay.entry, b)

Done(replay) ==
  /\ page' \in [Page -> Rows] /\ \A b \in Page : page'[b] = Turned(replay, page[b], b)
  /\ undo' = IF replay.back THEN undo ELSE Push(undo, replay.entry)
  /\ redo' = IF replay.back THEN Push(redo, replay.entry) ELSE redo
  /\ raced' = raced

Jammed(target) ==
  \E end \in States(target) :
    end.todo # <<>> /\ Midway(page, target, end, {}) /\ Stuck(target, end)

GivenUp(replay) ==
  /\ page' = page
  /\ undo' = IF replay.back THEN Push(undo, replay.entry) ELSE undo
  /\ redo' = IF replay.back THEN redo ELSE Push(redo, replay.entry)
  /\ raced' = (raced \/ Tail(waiting) # <<>>)
  /\ Throws(page, Target(replay)) \/ Jammed(Target(replay))

LEMMA TargetIs ==
  ASSUME NEW replay \in Line
  PROVE  /\ IsTarget(Target(replay))
         /\ DOMAIN Target(replay) = DOMAIN replay.entry.snaps
         /\ \A b \in DOMAIN Target(replay) :
              Target(replay)[b] = IF replay.back THEN replay.entry.snaps[b].before
                                  ELSE replay.entry.snaps[b].after
<1>1. replay.entry \in Entries /\ replay.back \in BOOLEAN
  BY DEF Line
<1> DEFINE e == replay.entry
<1>2. /\ DOMAIN e.snaps \in SUBSET Page
      /\ \A b \in DOMAIN e.snaps : e.snaps[b].before \in Rows /\ e.snaps[b].after \in Rows
  BY <1>1, EntryFields
<1> QED
  BY <1>1, <1>2 DEF Target, IsTarget

LEMMA ReplayIs ==
  ASSUME page \in [Page -> Rows], waiting \in Seq(Line), raced \in BOOLEAN, Replay
  PROVE  /\ waiting # <<>> /\ waiting[1] \in Line /\ waiting' = Tail(waiting) /\ drifted' = drifted
         /\ Done(waiting[1]) \/ GivenUp(waiting[1])
<1> DEFINE replay == waiting[1]
           target == Target(replay)
<1>1. waiting # <<>> /\ Head(waiting) = replay /\ replay \in Line /\ waiting' = Tail(waiting)
      /\ drifted' = drifted
  BY DEF Replay
<1>2. PICK order \in Orders(target) :
        LET end == Worklist(target, order)
            done == ~end.thrown /\ end.todo = <<>>
        IN /\ page' = IF done THEN end.rows ELSE page
           /\ undo' = IF replay.back # done THEN Push(undo, replay.entry) ELSE undo
           /\ redo' = IF replay.back = done THEN Push(redo, replay.entry) ELSE redo
           /\ raced' = (raced \/ (~done /\ waiting' # <<>>))
  BY <1>1 DEF Replay
<1> DEFINE end == Worklist(target, order)
           done == ~end.thrown /\ end.todo = <<>>
<1>3. /\ IsTarget(target) /\ DOMAIN target = DOMAIN replay.entry.snaps
      /\ \A b \in DOMAIN target : target[b] = IF replay.back THEN replay.entry.snaps[b].before
                                               ELSE replay.entry.snaps[b].after
  <2> HIDE DEF replay
  <2> QED
    BY <1>1, TargetIs
<1>4. /\ end \in States(target)
      /\ end.thrown => Throws(page, target)
      /\ ~end.thrown => Midway(page, target, end, {}) /\ Stuck(target, end)
  <2> HIDE DEF target
  <2>1. IsOrder(target, order)
    BY <1>2, <1>3, OrdersAre
  <2> QED
    BY <1>3, <2>1, WorklistDoes
<1>5. /\ page' = IF done THEN end.rows ELSE page
      /\ undo' = IF replay.back # done THEN Push(undo, replay.entry) ELSE undo
      /\ redo' = IF replay.back = done THEN Push(redo, replay.entry) ELSE redo
      /\ raced' = (raced \/ (~done /\ waiting' # <<>>))
  BY <1>2
<1>6. replay.back \in BOOLEAN
  <2> HIDE DEF replay
  <2> QED
    BY <1>1 DEF Line
<1> HIDE DEF end
<1>7. CASE done
  <2>1. page' = end.rows /\ page' \in [Page -> Rows]
    BY <1>4, <1>5, <1>7 DEF States
  <2>2. \A b : ~In(b, end.todo)
    BY <1>7 DEF In
  <2>3. ASSUME NEW b \in Page PROVE page'[b] = Turned(replay, page[b], b)
    <3>1. page'[b] = IF b \in DOMAIN target THEN Landing(page[b], target[b]) ELSE page[b]
      BY <1>4, <1>7, <2>1, <2>2 DEF Midway
    <3> HIDE DEF target, replay
    <3> QED
      BY <1>3, <1>6, <3>1 DEF Turned, Undone, Redone, Writes
  <2> HIDE DEF target, replay
  <2>4. Done(replay)
    BY <1>5, <1>6, <1>7, <2>1, <2>3 DEF Done
  <2> QED
    BY <1>1, <2>4 DEF replay
<1>8. CASE ~done
  <2>1. Throws(page, target) \/ Jammed(target)
    BY <1>4, <1>8 DEF Jammed
  <2>2. GivenUp(replay)
    <3> HIDE DEF replay
    <3> QED
      BY <1>1, <1>5, <1>6, <1>8, <2>1 DEF GivenUp
  <2> QED
    BY <1>1, <2>2
<1> QED
  BY <1>7, <1>8
-----------------------------------------------------------------------------
(***************************************************************************)
(* Type correctness.                                                       *)
(***************************************************************************)
LEMMA ShapeStarts ==
  ASSUME UndoInit
  PROVE  Shape
<1>1. \A X : <<>> \in Seq(X)
  OBVIOUS
<1>2. Len(<<>>) = 0 /\ 0 <= MaxDepth /\ Paper \in [Page -> Rows]
  BY UndoAssumption
<1> QED
  BY <1>1, <1>2 DEF UndoInit, Shape

LEMMA ShapeUntouched ==
  ASSUME Shape, UNCHANGED undoVars
  PROVE  Shape'
BY DEF Shape, undoVars

LEMMA ShapeEdit ==
  ASSUME Shape, NEW rows \in Edits, NEW group \in Groups, Edit(rows, group)
  PROVE  Shape'
<1>1. page' \in [Page -> Rows] /\ waiting' = waiting /\ drifted' = drifted /\ raced' \in BOOLEAN
  BY EditIs DEF Shape
<1>2. PICK new : Fresh(new) /\ Record(new)
  BY EditIs DEF Shape
<1>3. new \in Entries /\ redo' = <<>> /\ (Pushed(new) \/ \E e : Joining(new, e))
  BY <1>2, RecordIs DEF Shape, Fresh
<1>4. undo' \in Seq(Entries) /\ Len(undo') <= MaxDepth
  <2>1. CASE Pushed(new)
    BY <1>3, <2>1, PushIs DEF Shape, Pushed
  <2>2. CASE \E e : Joining(new, e)
    BY <2>2 DEF Shape, Joining
  <2> QED
    BY <1>3, <2>1, <2>2
<1>5. redo' \in Seq(Entries) /\ Len(redo') <= MaxDepth
  BY <1>3, UndoAssumption
<1> QED
  BY <1>1, <1>4, <1>5 DEF Shape

LEMMA ShapeDrift ==
  ASSUME Shape, NEW rows \in Drifts, Drift(rows)
  PROVE  Shape'
<1>1. DOMAIN rows \subseteq Page /\ rows \in [DOMAIN rows -> Rows]
  BY UndoAssumption
<1>2. page' \in [Page -> Rows]
  BY <1>1, OverIs DEF Shape, Drift
<1> QED
  BY <1>1, <1>2 DEF Shape, Drift

LEMMA BackfillIs ==
  ASSUME page \in [Page -> Rows], NEW rows \in Edits, Backfill(rows)
  PROVE  /\ page' \in [Page -> Rows]
         /\ undo' = <<>> /\ redo' = <<>> /\ waiting' = waiting /\ drifted' = drifted
         /\ raced' = (raced \/ waiting # <<>>)
<1>1. DOMAIN rows \in (SUBSET Page) \ {{}} /\ rows \in [DOMAIN rows -> Rows \ {NoRow}]
  BY UndoAssumption
<1>2. DOMAIN rows \subseteq Page /\ rows \in [DOMAIN rows -> Rows]
  BY <1>1
<1>3. page' \in [Page -> Rows]
  BY <1>2, OverIs DEF Backfill
<1> QED
  BY <1>3 DEF Backfill

LEMMA ShapeBackfill ==
  ASSUME Shape, NEW rows \in Edits, Backfill(rows)
  PROVE  Shape'
<1>1. /\ page' \in [Page -> Rows] /\ raced' \in BOOLEAN
      /\ undo' = <<>> /\ redo' = <<>> /\ waiting' = waiting /\ drifted' = drifted
  BY BackfillIs DEF Shape
<1>2. <<>> \in Seq(Entries) /\ Len(<<>>) <= MaxDepth
  BY UndoAssumption
<1> QED
  BY <1>1, <1>2 DEF Shape

LEMMA ShapePresses ==
  ASSUME Shape, PressUndo \/ PressRedo
  PROVE  Shape'
<1>1. raced' \in BOOLEAN /\ page' = page /\ drifted' = drifted
  BY DEF Shape, PressUndo, PressRedo
<1>2. MaxDepth \in Nat /\ waiting \in Seq(Line)
  BY UndoAssumption DEF Shape, Line
<1>3. CASE PressUndo
  <2>1. /\ undo # <<>> /\ undo' = Front(undo) /\ redo' = redo
        /\ waiting' = Append(waiting, [entry |-> Last(undo), back |-> TRUE])
    BY <1>3 DEF PressUndo
  <2>2. undo' \in Seq(Entries) /\ Len(undo') <= MaxDepth
    <3>1. undo \in Seq(Entries) /\ Len(undo) <= MaxDepth /\ Len(undo) \in Nat
      BY DEF Shape
    <3>2. Front(undo) \in Seq(Entries) /\ Len(Front(undo)) = Len(undo) - 1
      BY <2>1, <3>1, FrontIs
    <3> QED
      BY <1>2, <2>1, <3>1, <3>2
  <2>3. waiting' \in Seq(Line)
    BY <1>2, <2>1, JoinedMoves DEF Shape
  <2> QED
    BY <1>1, <2>1, <2>2, <2>3 DEF Shape, Line
<1>4. CASE PressRedo
  <2>1. /\ redo # <<>> /\ redo' = Front(redo) /\ undo' = undo
        /\ waiting' = Append(waiting, [entry |-> Last(redo), back |-> FALSE])
    BY <1>4 DEF PressRedo
  <2>2. redo' \in Seq(Entries) /\ Len(redo') <= MaxDepth
    <3>1. redo \in Seq(Entries) /\ Len(redo) <= MaxDepth /\ Len(redo) \in Nat
      BY DEF Shape
    <3>2. Front(redo) \in Seq(Entries) /\ Len(Front(redo)) = Len(redo) - 1
      BY <2>1, <3>1, FrontIs
    <3> QED
      BY <1>2, <2>1, <3>1, <3>2
  <2>3. waiting' \in Seq(Line)
    BY <1>2, <2>1, JoinedMoves DEF Shape
  <2> QED
    BY <1>1, <2>1, <2>2, <2>3 DEF Shape, Line
<1> QED
  BY <1>3, <1>4

LEMMA ShapeReplay ==
  ASSUME Shape, Replay
  PROVE  Shape'
<1>1. waiting \in Seq(Line) /\ raced \in BOOLEAN /\ page \in [Page -> Rows]
  BY DEF Shape, Line
<1>2. /\ waiting # <<>> /\ waiting[1] \in Line /\ waiting' = Tail(waiting) /\ drifted' = drifted
      /\ Done(waiting[1]) \/ GivenUp(waiting[1])
  BY <1>1, ReplayIs
<1>3. waiting' \in Seq(Line) /\ waiting[1].entry \in Entries
  BY <1>1, <1>2 DEF Line
<1>4. page' \in [Page -> Rows] /\ raced' \in BOOLEAN
  BY <1>1, <1>2 DEF Done, GivenUp
<1>5. /\ undo' = undo \/ undo' = Push(undo, waiting[1].entry)
      /\ redo' = redo \/ redo' = Push(redo, waiting[1].entry)
  BY <1>2 DEF Done, GivenUp
<1>6. undo' \in Seq(Entries) /\ Len(undo') <= MaxDepth
  <2>1. undo \in Seq(Entries) /\ Len(undo) <= MaxDepth
    BY DEF Shape
  <2>2. Push(undo, waiting[1].entry) \in Seq(Entries) /\ Len(Push(undo, waiting[1].entry)) <= MaxDepth
    BY <1>3, <2>1, PushIs
  <2> QED
    BY <1>5, <2>1, <2>2
<1>7. redo' \in Seq(Entries) /\ Len(redo') <= MaxDepth
  <2>1. redo \in Seq(Entries) /\ Len(redo) <= MaxDepth
    BY DEF Shape
  <2>2. Push(redo, waiting[1].entry) \in Seq(Entries) /\ Len(Push(redo, waiting[1].entry)) <= MaxDepth
    BY <1>3, <2>1, PushIs
  <2> QED
    BY <1>5, <2>1, <2>2
<1> QED
  BY <1>2, <1>3, <1>4, <1>6, <1>7 DEF Shape, Line

LEMMA ShapeThrows ==
  ASSUME Shape, ReplayThrows
  PROVE  Shape'
<1>1. PICK i \in DOMAIN waiting :
        /\ waiting' = RemoveAt(waiting, i)
        /\ LET replay == waiting[i]
           IN /\ undo' = IF replay.back THEN Push(undo, replay.entry) ELSE undo
              /\ redo' = IF replay.back THEN redo ELSE Push(redo, replay.entry)
        /\ raced' = (raced \/ i < Len(waiting))
        /\ page' = page /\ drifted' = drifted
  BY DEF ReplayThrows
<1>2. waiting \in Seq(Line) /\ waiting[i] \in Line /\ waiting[i].entry \in Entries
  <2>1. waiting \in Seq(Line)
    BY DEF Shape, Line
  <2>2. waiting[i] \in Line
    BY <2>1
  <2> QED
    BY <2>1, <2>2 DEF Line
<1>3. waiting' \in Seq(Line)
  BY <1>1, <1>2, RemoveAtIs
<1>4. /\ undo' = undo \/ undo' = Push(undo, waiting[i].entry)
      /\ redo' = redo \/ redo' = Push(redo, waiting[i].entry)
  BY <1>1
<1>5. undo' \in Seq(Entries) /\ Len(undo') <= MaxDepth
  <2>1. undo \in Seq(Entries) /\ Len(undo) <= MaxDepth
    BY DEF Shape
  <2>2. Push(undo, waiting[i].entry) \in Seq(Entries) /\ Len(Push(undo, waiting[i].entry)) <= MaxDepth
    BY <1>2, <2>1, PushIs
  <2> QED
    BY <1>4, <2>1, <2>2
<1>6. redo' \in Seq(Entries) /\ Len(redo') <= MaxDepth
  <2>1. redo \in Seq(Entries) /\ Len(redo) <= MaxDepth
    BY DEF Shape
  <2>2. Push(redo, waiting[i].entry) \in Seq(Entries) /\ Len(Push(redo, waiting[i].entry)) <= MaxDepth
    BY <1>2, <2>1, PushIs
  <2> QED
    BY <1>4, <2>1, <2>2
<1>7. raced' \in BOOLEAN
  BY <1>1 DEF Shape
<1> QED
  BY <1>1, <1>3, <1>5, <1>6, <1>7 DEF Shape, Line

LEMMA ShapeKept ==
  ASSUME Shape, [UndoNext]_undoVars
  PROVE  Shape'
<1>1. CASE UndoNext
  BY <1>1, ShapeEdit, ShapeDrift, ShapeBackfill, ShapePresses, ShapeReplay, ShapeThrows DEF UndoNext
<1>2. CASE UNCHANGED undoVars
  BY <1>2, ShapeUntouched
<1> QED
  BY <1>1, <1>2

LEMMA ShapeIsTyped ==
  ASSUME Shape
  PROVE  UndoTypeOK
<1>1. ASSUME NEW e \in Entries PROVE EntryOK(e)
  <2>1. /\ DOMAIN e.snaps \in SUBSET Page /\ DOMAIN e.snaps # {}
        /\ e.snaps \in [DOMAIN e.snaps -> Snaps]
        /\ e.group \in Groups /\ e.from \in [Page -> Rows] /\ e.to \in [Page -> Rows]
    BY EntryFields
  <2> QED
    BY <2>1 DEF EntryOK, Snaps
<1>2. \A e \in Range(undo) \cup Range(redo) : e \in Entries
  BY DEF Shape, Range
<1>3. \A i \in DOMAIN waiting : waiting[i].entry \in Entries /\ waiting[i].back \in BOOLEAN
  <2>1. \A i \in DOMAIN waiting : waiting[i] \in Line
    <3>1. waiting \in Seq(Line)
      BY DEF Shape, Line
    <3> QED
      BY <3>1
  <2> QED
    BY <2>1 DEF Line
<1> QED
  BY <1>1, <1>2, <1>3 DEF Shape, UndoTypeOK

\* The page, the stacks and the line hold what the code's types say, and no
\* stack is longer than UndoManager lets it grow (undoManager.ts).
THEOREM UndoTyped == UndoSpec => []UndoTypeOK
<1>1. UndoInit => Shape
  BY ShapeStarts
<1>2. Shape /\ [UndoNext]_undoVars => Shape'
  BY ShapeKept
<1>3. Shape => UndoTypeOK
  BY ShapeIsTyped
<1> QED
  BY <1>1, <1>2, <1>3, PTL DEF UndoSpec
-----------------------------------------------------------------------------
(***************************************************************************)
(* Past and future: a press moves nothing, a replay moves one entry from   *)
(* the one to the other or leaves both, an edit ends the future.           *)
(***************************************************************************)
LEMMA Sides ==
  ASSUME NEW u, NEW r, NEW w \in Seq(Line), NEW back \in BOOLEAN,
         \A i \in DOMAIN w : w[i].back = back
  PROVE  LET b == w # <<>> /\ w[1].back
         IN /\ Joined(u, IF b THEN w ELSE <<>>) = Joined(u, IF back THEN w ELSE <<>>)
            /\ Joined(r, IF b THEN <<>> ELSE w) = Joined(r, IF back THEN <<>> ELSE w)
<1>1. CASE w = <<>>
  BY <1>1
<1>2. CASE w # <<>>
  <2>1. w[1].back = back
    BY <1>2
  <2> QED
    BY <1>2, <2>1
<1> QED
  BY <1>1, <1>2

\* What is joined when the last in line goes back on top of its stack.
LEMMA BackOnTop ==
  ASSUME NEW s \in Seq(Entries), Len(s) <= MaxDepth, NEW line \in Seq(Line),
         NEW n \in Nat, n = Len(line), n > 0,
         NEW rest \in Seq(Line), Len(rest) = n - 1, \A i \in 1 .. n - 1 : rest[i] = line[i]
  PROVE  Kept(Joined(s, line), Joined(Push(s, line[n].entry), rest))
<1> DEFINE e == line[n].entry
           m == Len(s)
           t == Append(s, e)
           p == Push(s, e)
           j == Joined(s, line)
           j2 == Joined(p, rest)
<1>1. m \in Nat /\ e \in Entries
  <2>1. line[n] \in Line
    OBVIOUS
  <2> QED
    BY <2>1 DEF Line
<1>2. t \in Seq(Entries) /\ Len(t) = m + 1 /\ t[m + 1] = e /\ \A i \in 1 .. m : t[i] = s[i]
  <2> HIDE DEF e
  <2> QED
    BY <1>1
<1>3. p \in Seq(Entries) /\ Kept(t, p)
  <2> HIDE DEF e
  <2> QED
    BY <1>1, PushIs
<1>4. j = [i \in 1 .. m + n |-> IF i <= m THEN s[i] ELSE line[m + n + 1 - i].entry]
  BY DEF Joined
<1>5. j2 = [i \in 1 .. Len(p) + (n - 1) |->
              IF i <= Len(p) THEN p[i] ELSE rest[Len(p) + (n - 1) + 1 - i].entry]
  <2> HIDE DEF p
  <2> QED
    BY DEF Joined
<1>6. Len(j) = m + n /\ j2 \in Seq(Entries) /\ Len(j2) = Len(p) + (n - 1) /\ j \in Seq(Entries)
  <2> HIDE DEF p
  <2> QED
    BY <1>3, JoinedIs
<1> HIDE DEF e, m, t, p, j, j2
<1>7. CASE p = t
  <2>1. Len(j2) = m + n /\ Len(p) = m + 1
    <3>1. Len(p) = m + 1
      BY <1>2, <1>7
    <3>2. m + 1 + (n - 1) = m + n
      BY <1>1
    <3> QED
      BY <1>6, <3>1, <3>2
  <2>2. ASSUME NEW i \in 1 .. m + n PROVE j2[i] = j[i]
    <3>1. CASE i <= m
      BY <1>1, <1>2, <1>4, <1>5, <1>7, <2>1, <3>1
    <3>2. CASE i = m + 1
      <4>1. j2[i] = e
        BY <1>1, <1>2, <1>5, <1>7, <2>1, <3>2
      <4>2. j[i] = line[n].entry
        <5>1. m + n + 1 - i = n /\ ~(i <= m)
          BY <1>1, <3>2
        <5> QED
          BY <1>4, <5>1
      <4> QED
        BY <4>1, <4>2 DEF e
    <3>3. CASE i > m + 1
      <4>1. /\ ~(i <= m + 1) /\ ~(i <= m) /\ m + 1 + (n - 1) + 1 - i = m + n + 1 - i
            /\ m + n + 1 - i \in 1 .. n - 1 /\ i \in 1 .. m + 1 + (n - 1)
        BY <1>1, <3>3
      <4> QED
        BY <1>4, <1>5, <2>1, <4>1
    <3> QED
      BY <1>1, <3>1, <3>2, <3>3
  <2>3. j2 = j
    BY <1>6, <2>1, <2>2, SeqEqual
  <2> QED
    BY <2>3 DEF Kept, j, j2, p, e
<1>8. CASE Dropped(t, p)
  <2>1. Len(p) = m /\ \A i \in 1 .. m : p[i] = t[i + 1]
    <3>1. Len(t) - 1 = m
      BY <1>1, <1>2
    <3>2. Len(p) = Len(t) - 1 /\ \A i \in 1 .. Len(t) - 1 : p[i] = t[i + 1]
      BY <1>8 DEF Dropped
    <3> QED
      BY <3>1, <3>2
  <2>2. Len(j2) = m + n - 1 /\ m + n > 0
    BY <1>1, <1>6, <2>1
  <2>3. ASSUME NEW i \in 1 .. m + n - 1 PROVE j2[i] = j[i + 1]
    <3>0. i + 1 \in 1 .. m + n /\ i \in 1 .. m + (n - 1)
      BY <1>1
    <3>1. CASE i < m
      <4>1. i <= m /\ i + 1 <= m /\ i \in 1 .. m /\ i + 1 \in 1 .. m
        BY <1>1, <3>1
      <4> QED
        BY <1>2, <1>4, <1>5, <2>1, <3>0, <4>1
    <3>2. CASE i = m
      <4>1. i <= m /\ ~(i + 1 <= m) /\ i \in 1 .. m /\ m + n + 1 - (i + 1) = n
        BY <1>1, <3>2
      <4>2. j2[i] = e
        BY <1>2, <1>5, <2>1, <3>0, <3>2, <4>1
      <4>3. j[i + 1] = line[n].entry
        BY <1>4, <3>0, <4>1
      <4> QED
        BY <4>2, <4>3 DEF e
    <3>3. CASE i > m
      <4>1. /\ ~(i <= m) /\ ~(i + 1 <= m) /\ m + (n - 1) + 1 - i = m + n - i
            /\ m + n + 1 - (i + 1) = m + n - i /\ m + n - i \in 1 .. n - 1
        BY <1>1, <3>3
      <4> QED
        BY <1>4, <1>5, <2>1, <3>0, <4>1
    <3> QED
      BY <1>1, <3>1, <3>2, <3>3
  <2>4. Dropped(j, j2)
    <3>1. Len(j) > 0 /\ Len(j) - 1 = m + n - 1
      BY <1>1, <1>6, <2>2
    <3> QED
      BY <2>2, <2>3, <3>1 DEF Dropped
  <2> QED
    BY <2>4 DEF Kept, j, j2, p, e
<1> QED
  BY <1>3, <1>7, <1>8 DEF Kept

LEMMA OneWayIs ==
  ASSUME waiting \in Seq(Line), OneWay
  PROVE  \E back \in BOOLEAN : \A i \in DOMAIN waiting : waiting[i].back = back
<1>1. CASE waiting = <<>>
  <2>1. \A i \in DOMAIN waiting : waiting[i].back = TRUE
    BY <1>1
  <2> QED
    BY <2>1
<1>2. CASE waiting # <<>>
  <2>1. 1 \in DOMAIN waiting /\ waiting[1] \in Line
    BY <1>2
  <2>2. waiting[1].back \in BOOLEAN
    BY <2>1 DEF Line
  <2> QED
    BY <2>1, <2>2 DEF OneWay
<1> QED
  BY <1>1, <1>2

LEMMA PastFuture ==
  ASSUME waiting \in Seq(Line), NEW back \in BOOLEAN,
         \A i \in DOMAIN waiting : waiting[i].back = back
  PROVE  /\ Past = Joined(undo, IF back THEN waiting ELSE <<>>)
         /\ Future = Joined(redo, IF back THEN <<>> ELSE waiting)
BY Sides DEF Past, Future, Backward

LEMMA PastFutureNext ==
  ASSUME waiting' \in Seq(Line), NEW back \in BOOLEAN,
         \A i \in DOMAIN waiting' : waiting'[i].back = back
  PROVE  /\ Past' = Joined(undo', IF back THEN waiting' ELSE <<>>)
         /\ Future' = Joined(redo', IF back THEN <<>> ELSE waiting')
         /\ OneWay'
BY Sides DEF Past, Future, Backward, OneWay

LEMMA PressIs ==
  ASSUME Shape, PressUndo \/ PressRedo, ~raced'
  PROVE  ~raced /\ page' = page /\ drifted' = drifted /\ OneWay' /\ Past' = Past /\ Future' = Future
<1>1. ~raced /\ page' = page /\ drifted' = drifted
  BY DEF PressUndo, PressRedo
<1>2. waiting \in Seq(Line) /\ undo \in Seq(Entries) /\ redo \in Seq(Entries)
  BY DEF Shape, Line
<1>3. CASE PressUndo
  <2>1. /\ undo # <<>> /\ undo' = Front(undo) /\ redo' = redo
        /\ waiting' = Append(waiting, [entry |-> Last(undo), back |-> TRUE])
        /\ \A i \in DOMAIN waiting : waiting[i].back
    BY <1>3 DEF PressUndo
  <2>2. waiting' \in Seq(Line) /\ Joined(undo', waiting') = Joined(undo, waiting)
    BY <1>2, <2>1, JoinedMoves
  <2>3. \A i \in DOMAIN waiting : waiting[i].back = TRUE
    BY <1>2, <2>1 DEF Line
  <2>4. \A i \in DOMAIN waiting' : waiting'[i].back = TRUE
    BY <1>2, <2>1, <2>3
  <2>5. Past = Joined(undo, waiting) /\ Future = Joined(redo, <<>>)
    BY <1>2, <2>3, PastFuture
  <2>6. OneWay' /\ Past' = Joined(undo', waiting') /\ Future' = Joined(redo', <<>>)
    BY <2>2, <2>4, PastFutureNext
  <2> QED
    BY <1>1, <2>1, <2>2, <2>5, <2>6
<1>4. CASE PressRedo
  <2>1. /\ redo # <<>> /\ redo' = Front(redo) /\ undo' = undo
        /\ waiting' = Append(waiting, [entry |-> Last(redo), back |-> FALSE])
        /\ \A i \in DOMAIN waiting : ~waiting[i].back
    BY <1>4 DEF PressRedo
  <2>2. waiting' \in Seq(Line) /\ Joined(redo', waiting') = Joined(redo, waiting)
    BY <1>2, <2>1, JoinedMoves
  <2>3. \A i \in DOMAIN waiting : waiting[i].back = FALSE
    BY <1>2, <2>1 DEF Line
  <2>4. \A i \in DOMAIN waiting' : waiting'[i].back = FALSE
    BY <1>2, <2>1, <2>3
  <2>5. Past = Joined(undo, <<>>) /\ Future = Joined(redo, waiting)
    BY <1>2, <2>3, PastFuture
  <2>6. OneWay' /\ Past' = Joined(undo', <<>>) /\ Future' = Joined(redo', waiting')
    BY <2>2, <2>4, PastFutureNext
  <2> QED
    BY <1>1, <2>1, <2>2, <2>5, <2>6
<1> QED
  BY <1>3, <1>4

\* The entry that goes next is the last of the past, or of the future.
LEMMA DoneIs ==
  ASSUME Shape, OneWay, waiting # <<>>, waiting' = Tail(waiting), Done(waiting[1])
  PROVE  /\ OneWay' /\ waiting[1].entry \in Entries
         /\ Past \in Seq(Entries) /\ Future \in Seq(Entries)
         /\ waiting[1].back =>
              /\ Len(Past) > 0 /\ Past[Len(Past)] = waiting[1].entry
              /\ Past' \in Seq(Entries) /\ Len(Past') = Len(Past) - 1
              /\ \A i \in 1 .. Len(Past) - 1 : Past'[i] = Past[i]
              /\ Future' \in Seq(Entries) /\ Kept(Append(Future, waiting[1].entry), Future')
         /\ ~waiting[1].back =>
              /\ Len(Future) > 0 /\ Future[Len(Future)] = waiting[1].entry
              /\ Future' \in Seq(Entries) /\ Len(Future') = Len(Future) - 1
              /\ \A i \in 1 .. Len(Future) - 1 : Future'[i] = Future[i]
              /\ Past' \in Seq(Entries) /\ Kept(Append(Past, waiting[1].entry), Past')
<1> DEFINE e == waiting[1].entry
<1>1. /\ waiting \in Seq(Line) /\ undo \in Seq(Entries) /\ redo \in Seq(Entries)
      /\ Len(undo) <= MaxDepth /\ Len(redo) <= MaxDepth
  BY DEF Shape, Line
<1>2. PICK back \in BOOLEAN : \A i \in DOMAIN waiting : waiting[i].back = back
  BY <1>1, OneWayIs
<1>3. /\ waiting' \in Seq(Line) /\ Len(waiting') = Len(waiting) - 1 /\ Len(waiting) \in Nat \ {0}
      /\ \A i \in 1 .. Len(waiting) - 1 : waiting'[i] = waiting[i + 1]
  BY <1>1, JoinedGoes
<1>4. \A i \in DOMAIN waiting' : waiting'[i].back = back
  <2>1. \A i \in DOMAIN waiting' : i \in 1 .. Len(waiting) - 1 /\ i + 1 \in DOMAIN waiting
    BY <1>1, <1>3
  <2> QED
    BY <1>2, <1>3, <2>1
<1>5. waiting[1] \in Line /\ e \in Entries /\ waiting[1].back = back
  <2>1. 1 \in DOMAIN waiting /\ waiting[1] \in Line
    BY <1>1, <1>3
  <2> QED
    BY <1>2, <2>1 DEF Line
<1>6. /\ Past = Joined(undo, IF back THEN waiting ELSE <<>>)
      /\ Future = Joined(redo, IF back THEN <<>> ELSE waiting)
  BY <1>1, <1>2, PastFuture
<1>7. /\ Past' = Joined(undo', IF back THEN waiting' ELSE <<>>)
      /\ Future' = Joined(redo', IF back THEN <<>> ELSE waiting')
      /\ OneWay'
  BY <1>3, <1>4, PastFutureNext
<1>8. \A s \in Seq(Entries) : s = Joined(s, <<>>)
  BY JoinedNone
<1>9. /\ Joined(undo, waiting) \in Seq(Entries) /\ Joined(undo, waiting') \in Seq(Entries)
      /\ Joined(redo, waiting) \in Seq(Entries) /\ Joined(redo, waiting') \in Seq(Entries)
      /\ Len(Joined(undo, waiting)) = Len(undo) + Len(waiting)
      /\ Len(Joined(redo, waiting)) = Len(redo) + Len(waiting)
  BY <1>1, <1>3, JoinedIs
<1>10. Len(Joined(undo, waiting)) > 0 /\ Len(Joined(redo, waiting)) > 0
  BY <1>1, <1>3, <1>9
<1>11. Past \in Seq(Entries) /\ Future \in Seq(Entries)
  BY <1>1, <1>6, <1>8, <1>9
<1>12. CASE back
  <2>1. Past = Joined(undo, waiting) /\ Past' = Joined(undo, waiting') /\ Future = redo
    BY <1>1, <1>5, <1>6, <1>7, <1>8, <1>12 DEF Done
  <2>2. redo' = Push(redo, e)
    BY <1>5, <1>12 DEF Done
  <2>3. redo' \in Seq(Entries) /\ Kept(Append(redo, e), redo')
    <3> HIDE DEF e
    <3> QED
      BY <1>1, <1>5, <2>2, PushIs
  <2>4. Future' = redo'
    BY <1>7, <1>8, <1>12, <2>3
  <2>5. /\ Past[Len(Past)] = e /\ Len(Past') = Len(Past) - 1
        /\ \A i \in 1 .. Len(Past) - 1 : Past'[i] = Past[i]
    BY <1>1, <2>1, JoinedGoes
  <2> QED
    BY <1>5, <1>7, <1>9, <1>10, <1>11, <1>12, <2>1, <2>3, <2>4, <2>5
<1>13. CASE ~back
  <2>1. Future = Joined(redo, waiting) /\ Future' = Joined(redo, waiting') /\ Past = undo
    BY <1>1, <1>5, <1>6, <1>7, <1>8, <1>13 DEF Done
  <2>2. undo' = Push(undo, e)
    BY <1>5, <1>13 DEF Done
  <2>3. undo' \in Seq(Entries) /\ Kept(Append(undo, e), undo')
    <3> HIDE DEF e
    <3> QED
      BY <1>1, <1>5, <2>2, PushIs
  <2>4. Past' = undo'
    BY <1>7, <1>8, <1>13, <2>3
  <2>5. /\ Future[Len(Future)] = e /\ Len(Future') = Len(Future) - 1
        /\ \A i \in 1 .. Len(Future) - 1 : Future'[i] = Future[i]
    BY <1>1, <2>1, JoinedGoes
  <2> QED
    BY <1>5, <1>7, <1>9, <1>10, <1>11, <1>13, <2>1, <2>3, <2>4, <2>5
<1> QED
  BY <1>12, <1>13

\* What is last in line goes back on top.
LEMMA BackIs ==
  ASSUME Shape, OneWay, waiting # <<>>, NEW rest \in Seq(Line), waiting' = rest,
         Len(rest) = Len(waiting) - 1, \A i \in 1 .. Len(waiting) - 1 : rest[i] = waiting[i],
         NEW item, item = waiting[Len(waiting)],
         undo' = IF item.back THEN Push(undo, item.entry) ELSE undo,
         redo' = IF item.back THEN redo ELSE Push(redo, item.entry)
  PROVE  OneWay' /\ Kept(Past, Past') /\ Kept(Future, Future')
<1> DEFINE n == Len(waiting)
<1>1. /\ waiting \in Seq(Line) /\ undo \in Seq(Entries) /\ redo \in Seq(Entries)
      /\ Len(undo) <= MaxDepth /\ Len(redo) <= MaxDepth /\ n \in Nat /\ n > 0
  BY DEF Shape, Line
<1>2. PICK back \in BOOLEAN : \A i \in DOMAIN waiting : waiting[i].back = back
  BY <1>1, OneWayIs
<1>3. \A i \in DOMAIN waiting' : waiting'[i].back = back
  <2>1. \A i \in DOMAIN waiting' : i \in 1 .. n - 1 /\ i \in DOMAIN waiting
    BY <1>1
  <2> QED
    BY <1>2, <2>1
<1>4. item.back = back
  BY <1>1, <1>2
<1>5. /\ Past = Joined(undo, IF back THEN waiting ELSE <<>>)
      /\ Future = Joined(redo, IF back THEN <<>> ELSE waiting)
  BY <1>1, <1>2, PastFuture
<1>6. /\ Past' = Joined(undo', IF back THEN rest ELSE <<>>)
      /\ Future' = Joined(redo', IF back THEN <<>> ELSE rest)
      /\ OneWay'
  BY <1>3, PastFutureNext
<1>7. /\ Kept(Joined(undo, waiting), Joined(Push(undo, item.entry), rest))
      /\ Kept(Joined(redo, waiting), Joined(Push(redo, item.entry), rest))
  <2> HIDE DEF n
  <2>1. n = Len(waiting) /\ item = waiting[n]
    BY DEF n
  <2> QED
    BY <1>1, <2>1, BackOnTop
<1>8. CASE back
  <2>1. undo' = Push(undo, item.entry) /\ redo' = redo
    BY <1>4, <1>8
  <2> QED
    BY <1>5, <1>6, <1>7, <1>8, <2>1 DEF Kept
<1>9. CASE ~back
  <2>1. redo' = Push(redo, item.entry) /\ undo' = undo
    BY <1>4, <1>9
  <2> QED
    BY <1>5, <1>6, <1>7, <1>9, <2>1 DEF Kept
<1> QED
  BY <1>8, <1>9

LEMMA GivenUpIs ==
  ASSUME Shape, OneWay, waiting # <<>>, waiting' = Tail(waiting), GivenUp(waiting[1]), ~raced'
  PROVE  ~raced /\ page' = page /\ OneWay' /\ Kept(Past, Past') /\ Kept(Future, Future')
<1>1. waiting \in Seq(Line)
  BY DEF Shape, Line
<1>2. ~raced /\ page' = page /\ Tail(waiting) = <<>>
  BY DEF GivenUp
<1>3. Len(waiting) \in Nat /\ Len(Tail(waiting)) = Len(waiting) - 1 /\ Len(<<>>) = 0
  BY <1>1, JoinedGoes
<1>4. Len(waiting) = 1
  BY <1>2, <1>3
<1>5. /\ undo' = IF waiting[1].back THEN Push(undo, waiting[1].entry) ELSE undo
      /\ redo' = IF waiting[1].back THEN redo ELSE Push(redo, waiting[1].entry)
  BY DEF GivenUp
<1>6. <<>> \in Seq(Line) /\ waiting' = <<>> /\ Len(<<>>) = Len(waiting) - 1
      /\ \A i \in 1 .. Len(waiting) - 1 : <<>>[i] = waiting[i]
  BY <1>2, <1>3, <1>4
<1>7. OneWay' /\ Kept(Past, Past') /\ Kept(Future, Future')
  BY <1>4, <1>5, <1>6, BackIs
<1> QED
  BY <1>2, <1>7

LEMMA ThrowsIs ==
  ASSUME Shape, OneWay, ReplayThrows, ~raced'
  PROVE  /\ ~raced /\ page' = page /\ drifted' = drifted
         /\ OneWay' /\ Kept(Past, Past') /\ Kept(Future, Future')
<1>1. PICK i \in DOMAIN waiting :
        /\ waiting' = RemoveAt(waiting, i)
        /\ LET replay == waiting[i]
           IN /\ undo' = IF replay.back THEN Push(undo, replay.entry) ELSE undo
              /\ redo' = IF replay.back THEN redo ELSE Push(redo, replay.entry)
        /\ raced' = (raced \/ i < Len(waiting))
        /\ page' = page /\ drifted' = drifted
  BY DEF ReplayThrows
<1>2. waiting \in Seq(Line) /\ waiting # <<>> /\ Len(waiting) \in Nat /\ DOMAIN waiting = 1 .. Len(waiting)
  BY <1>1 DEF Shape, Line
<1>3. i = Len(waiting) /\ ~raced
  <2>1. ~(raced \/ i < Len(waiting))
    BY <1>1, Zenon
  <2>2. ~(i < Len(waiting)) /\ i \in 1 .. Len(waiting)
    BY <1>2, <2>1
  <2> QED
    BY <1>2, <2>1, <2>2
<1> DEFINE rest == RemoveAt(waiting, i)
<1>4. /\ rest \in Seq(Line) /\ Len(rest) = Len(waiting) - 1 /\ waiting' = rest
      /\ \A j \in 1 .. Len(waiting) - 1 : rest[j] = waiting[j]
  BY <1>1, <1>2, <1>3, RemoveAtIs
<1>5. /\ undo' = IF waiting[i].back THEN Push(undo, waiting[i].entry) ELSE undo
      /\ redo' = IF waiting[i].back THEN redo ELSE Push(redo, waiting[i].entry)
  BY <1>1
<1> HIDE DEF rest
<1>6. OneWay' /\ Kept(Past, Past') /\ Kept(Future, Future')
  BY <1>2, <1>3, <1>4, <1>5, BackIs
<1> QED
  BY <1>1, <1>3, <1>6
-----------------------------------------------------------------------------
(***************************************************************************)
(* Every block sync has left alone stays where past and future meet.       *)
(***************************************************************************)
LEMMA KeptHere ==
  ASSUME NEW b \in Page, NEW row, NEW p \in Seq(Entries), NEW f \in Seq(Entries), Here(row, p, f, b),
         NEW p2 \in Seq(Entries), Kept(p, p2), NEW f2 \in Seq(Entries), Kept(f, f2)
  PROVE  Here(row, p2, f2, b)
<1>1. Here(row, p2, f, b)
  <2>1. CASE p2 = p
    BY <2>1
  <2>2. CASE Dropped(p, p2)
    <3>1. /\ Len(p) \in Nat /\ Len(p) > 0 /\ Len(p2) = Len(p) - 1
          /\ \A i \in 1 .. Len(p) - 1 : p2[i] = p[i + 1]
      BY <2>2 DEF Dropped
    <3> QED
      BY <3>1, DropPast
  <2> QED
    BY <2>1, <2>2 DEF Kept
<1>2. CASE f2 = f
  BY <1>1, <1>2
<1>3. CASE Dropped(f, f2)
  <2>1. /\ Len(f) \in Nat /\ Len(f) > 0 /\ Len(f2) = Len(f) - 1
        /\ \A i \in 1 .. Len(f) - 1 : f2[i] = f[i + 1]
    BY <1>3 DEF Dropped
  <2> QED
    BY <1>1, <2>1, DropFuture
<1> QED
  BY <1>2, <1>3 DEF Kept

LEMMA PastTyped ==
  ASSUME Shape
  PROVE  Past \in Seq(Entries) /\ Future \in Seq(Entries)
<1>1. <<>> \in Seq(Line) /\ waiting \in Seq(Line) /\ undo \in Seq(Entries) /\ redo \in Seq(Entries)
  BY DEF Shape, Line
<1> QED
  BY <1>1, JoinedIs DEF Past, Future

LEMMA PastTypedNext ==
  ASSUME Shape'
  PROVE  Past' \in Seq(Entries) /\ Future' \in Seq(Entries)
<1>1. <<>> \in Seq(Line) /\ waiting' \in Seq(Line) /\ undo' \in Seq(Entries) /\ redo' \in Seq(Entries)
  BY DEF Shape, Line
<1> QED
  BY <1>1, JoinedIs DEF Past, Future, Backward

LEMMA MeetingStarts ==
  ASSUME UndoInit
  PROVE  Meeting
<1>1. Past = <<>> /\ Future = <<>>
  <2>1. <<>> \in Seq(Entries)
    OBVIOUS
  <2>2. Joined(<<>>, <<>>) = <<>>
    BY <2>1, JoinedNone
  <2> QED
    BY <2>2 DEF UndoInit, Past, Future, Backward
<1>2. Len(<<>>) = 0 /\ DOMAIN <<>> = {}
  OBVIOUS
<1>3. OneWay
  BY <1>2 DEF UndoInit, OneWay
<1>4. \A b \in Page : Here(page[b], <<>>, <<>>, b)
  BY <1>2 DEF Here, PastChain, FutureChain, Ready
<1> QED
  BY <1>1, <1>3, <1>4 DEF Meeting

LEMMA MeetingUntouched ==
  ASSUME Meeting, UNCHANGED undoVars
  PROVE  Meeting'
<1>1. /\ page' = page /\ undo' = undo /\ redo' = redo /\ waiting' = waiting /\ drifted' = drifted
  BY DEF undoVars
<1>2. Past' = Past /\ Future' = Future /\ (OneWay => OneWay')
  BY <1>1 DEF Past, Future, Backward, OneWay
<1> QED
  BY <1>1, <1>2 DEF Meeting

LEMMA MeetingDrift ==
  ASSUME Shape, Meeting, NEW rows \in Drifts, Drift(rows)
  PROVE  Meeting'
<1>1. /\ page' = Over(rows, page) /\ undo' = undo /\ redo' = redo /\ waiting' = waiting
      /\ drifted' = drifted \cup DOMAIN rows
  BY DEF Drift
<1>2. Past' = Past /\ Future' = Future /\ OneWay'
  BY <1>1 DEF Past, Future, Backward, OneWay, Meeting
<1>3. DOMAIN rows \subseteq Page /\ rows \in [DOMAIN rows -> Rows] /\ page \in [Page -> Rows]
  BY UndoAssumption DEF Shape
<1>4. \A b \in Page \ DOMAIN rows : page'[b] = page[b]
  BY <1>1, <1>3, OverIs
<1>5. \A b \in Page \ drifted' : b \in Page \ drifted /\ page'[b] = page[b]
  BY <1>1, <1>4
<1> QED
  BY <1>2, <1>5 DEF Meeting

LEMMA MeetingPresses ==
  ASSUME Shape, Meeting, PressUndo \/ PressRedo, ~raced'
  PROVE  Meeting'
<1>1. page' = page /\ drifted' = drifted /\ OneWay' /\ Past' = Past /\ Future' = Future
  BY PressIs
<1> QED
  BY <1>1 DEF Meeting

LEMMA MeetingThrows ==
  ASSUME Shape, Shape', Meeting, ReplayThrows, ~raced'
  PROVE  Meeting'
<1>1. /\ page' = page /\ drifted' = drifted /\ OneWay' /\ Kept(Past, Past') /\ Kept(Future, Future')
  BY ThrowsIs DEF Meeting
<1>2. /\ Past \in Seq(Entries) /\ Future \in Seq(Entries)
      /\ Past' \in Seq(Entries) /\ Future' \in Seq(Entries)
  BY PastTyped, PastTypedNext
<1>3. \A b \in Page \ drifted' : Here(page'[b], Past', Future', b)
  BY <1>1, <1>2, KeptHere DEF Meeting
<1> QED
  BY <1>1, <1>3 DEF Meeting

\* With no replay in line, past and future are the stacks.
LEMMA Idle ==
  ASSUME Shape, waiting = <<>>
  PROVE  Past = undo /\ Future = redo
<1>1. undo \in Seq(Entries) /\ redo \in Seq(Entries) /\ ~Backward
  BY DEF Shape, Backward
<1> QED
  BY <1>1, JoinedNone DEF Past, Future

LEMMA IdleNext ==
  ASSUME undo' \in Seq(Entries), redo' \in Seq(Entries), waiting' = <<>>
  PROVE  Past' = undo' /\ Future' = redo' /\ OneWay'
<1>1. ~Backward' /\ DOMAIN waiting' = {}
  BY DEF Backward
<1> QED
  BY <1>1, JoinedNone DEF Past, Future, OneWay

LEMMA MeetingBackfill ==
  ASSUME Shape, Meeting, NEW rows \in Edits, Backfill(rows), ~raced'
  PROVE  Meeting'
<1>1. undo' = <<>> /\ redo' = <<>> /\ waiting' = <<>>
  BY BackfillIs DEF Shape
<1>2. <<>> \in Seq(Entries) /\ Len(<<>>) = 0 /\ DOMAIN <<>> = {}
  OBVIOUS
<1>3. Past' = <<>> /\ Future' = <<>> /\ OneWay'
  BY <1>1, <1>2, IdleNext
<1>4. \A b \in Page : Here(page'[b], <<>>, <<>>, b)
  BY <1>2 DEF Here, PastChain, FutureChain, Ready
<1> QED
  BY <1>3, <1>4 DEF Meeting

LEMMA EditPast ==
  ASSUME Shape, NEW rows \in Edits, NEW group \in Groups, Edit(rows, group), ~raced'
  PROVE  \E new : /\ Fresh(new) /\ ~raced /\ waiting = <<>> /\ drifted' = drifted
                  /\ Past = undo /\ Future = redo /\ Past' = undo' /\ Future' = <<>> /\ OneWay'
                  /\ undo' \in Seq(Entries) /\ undo \in Seq(Entries) /\ redo \in Seq(Entries)
                  /\ \/ Kept(Append(undo, new), undo')
                     \/ \E e : Joining(new, e)
<1>1. waiting' = waiting /\ drifted' = drifted /\ waiting = <<>> /\ ~raced
  BY EditIs DEF Shape
<1>2. PICK new : Fresh(new) /\ Record(new)
  BY EditIs DEF Shape
<1>3. new \in Entries /\ redo' = <<>> /\ (Pushed(new) \/ \E e : Joining(new, e))
  BY <1>2, RecordIs DEF Shape, Fresh
<1>4. Pushed(new) => undo' \in Seq(Entries) /\ Kept(Append(undo, new), undo')
  BY <1>3, PushIs DEF Pushed, Shape
<1>5. undo' \in Seq(Entries)
  BY <1>3, <1>4 DEF Joining
<1>6. <<>> \in Seq(Entries)
  OBVIOUS
<1>7. Past' = undo' /\ Future' = <<>> /\ OneWay'
  BY <1>1, <1>3, <1>5, <1>6, IdleNext
<1>8. Past = undo /\ Future = redo /\ undo \in Seq(Entries) /\ redo \in Seq(Entries)
  BY <1>1, Idle DEF Shape
<1> QED
  BY <1>1, <1>2, <1>3, <1>4, <1>5, <1>7, <1>8

LEMMA MeetingEdit ==
  ASSUME Shape, Meeting, NEW rows \in Edits, NEW group \in Groups, Edit(rows, group), ~raced'
  PROVE  Meeting'
<1>1. PICK new : /\ Fresh(new) /\ ~raced /\ waiting = <<>> /\ drifted' = drifted
                 /\ Past = undo /\ Future = redo /\ Past' = undo' /\ Future' = <<>> /\ OneWay'
                 /\ undo' \in Seq(Entries) /\ undo \in Seq(Entries) /\ redo \in Seq(Entries)
                 /\ \/ Kept(Append(undo, new), undo')
                    \/ \E e : Joining(new, e)
  BY EditPast
<1> SUFFICES ASSUME NEW b \in Page \ drifted PROVE Here(page'[b], undo', <<>>, b)
  BY <1>1 DEF Meeting
<1> DEFINE n == Len(undo)
<1>2. n \in Nat /\ b \in Page /\ new \in Entries /\ Here(page[b], undo, redo, b)
  BY <1>1 DEF Meeting, Fresh
<1>3. Leads(new, b) /\ new.from[b] = page[b] /\ new.to[b] = page'[b]
  BY <1>1, <1>2 DEF Fresh, Leads, Fits
<1>4. CASE Kept(Append(undo, new), undo')
  <2> DEFINE p == Append(undo, new)
  <2>1. p \in Seq(Entries) /\ Len(p) = n + 1 /\ (\A i \in 1 .. n : p[i] = undo[i]) /\ p[n + 1] = new
    BY <1>1, <1>2
  <2>2. Here(page'[b], p, <<>>, b)
    <3> HIDE DEF p
    <3>1. n = Len(undo)
      OBVIOUS
    <3> HIDE DEF n
    <3> QED
      BY <1>1, <1>2, <1>3, <2>1, <3>1, Recorded
  <2>3. <<>> \in Seq(Entries) /\ Kept(<<>>, <<>>)
    BY DEF Kept
  <2>4. Kept(p, undo')
    BY <1>4
  <2> HIDE DEF p
  <2> QED
    BY <1>1, <1>2, <2>1, <2>2, <2>3, <2>4, KeptHere
<1>5. CASE \E e : Joining(new, e)
  <2>1. PICK e : Joining(new, e)
    BY <1>5
  <2> DEFINE old == undo[n]
  <2>2. /\ e \in Entries /\ n > 0 /\ old \in Entries
        /\ e.snaps = Merge(old.snaps, new.snaps) /\ e.from = old.from /\ e.to = new.to
        /\ Len(undo') = n /\ (\A i \in 1 .. n - 1 : undo'[i] = undo[i]) /\ undo'[n] = e
    BY <1>1, <2>1 DEF Joining
  <2>3. Leads(old, b) /\ Fits(page[b], old.to[b])
    BY <1>1, <1>2, <2>2 DEF Here
  <2>4. /\ Writes(new, b) => new.snaps[b].before = new.from[b] /\ new.snaps[b].after = new.to[b]
        /\ ~Writes(new, b) => new.to[b] = new.from[b]
    BY <1>1, <1>2, <1>3 DEF Fresh
  <2>5. Leads(e, b)
    <3> HIDE DEF old
    <3> QED
      BY <1>2, <1>3, <2>2, <2>3, <2>4, MergedLeads
  <2>6. e.from[b] = undo[n].from[b] /\ e.to[b] = page'[b]
    BY <1>3, <2>2
  <2>7. n = Len(undo)
    OBVIOUS
  <2> HIDE DEF n, old
  <2> QED
    BY <1>1, <1>2, <2>2, <2>5, <2>6, <2>7, Joins
<1> QED
  BY <1>1, <1>4, <1>5

LEMMA MeetingReplay ==
  ASSUME Shape, Shape', Meeting, Replay, ~raced'
  PROVE  Meeting'
<1>1. /\ waiting # <<>> /\ waiting' = Tail(waiting) /\ drifted' = drifted
      /\ Done(waiting[1]) \/ GivenUp(waiting[1])
  <2>1. page \in [Page -> Rows] /\ waiting \in Seq(Line) /\ raced \in BOOLEAN
    BY DEF Shape, Line
  <2> QED
    BY <2>1, ReplayIs
<1>2. CASE GivenUp(waiting[1])
  <2>1. page' = page /\ OneWay' /\ Kept(Past, Past') /\ Kept(Future, Future')
    BY <1>1, <1>2, GivenUpIs DEF Meeting
  <2>2. /\ Past \in Seq(Entries) /\ Future \in Seq(Entries)
        /\ Past' \in Seq(Entries) /\ Future' \in Seq(Entries)
    BY PastTyped, PastTypedNext
  <2>3. \A b \in Page \ drifted' : Here(page'[b], Past', Future', b)
    BY <1>1, <2>1, <2>2, KeptHere DEF Meeting
  <2> QED
    BY <2>1, <2>3 DEF Meeting
<1>3. CASE Done(waiting[1])
  <2> DEFINE e == waiting[1].entry
             n == Len(Past)
             m == Len(Future)
             turned == IF waiting[1].back THEN 1 ELSE 0
  <2>1. /\ OneWay' /\ e \in Entries
        /\ Past \in Seq(Entries) /\ Future \in Seq(Entries)
        /\ waiting[1].back =>
             /\ n > 0 /\ Past[n] = e /\ Past' \in Seq(Entries) /\ Len(Past') = n - 1
             /\ \A i \in 1 .. n - 1 : Past'[i] = Past[i]
             /\ Future' \in Seq(Entries) /\ Kept(Append(Future, e), Future')
        /\ ~waiting[1].back =>
             /\ m > 0 /\ Future[m] = e /\ Future' \in Seq(Entries) /\ Len(Future') = m - 1
             /\ \A i \in 1 .. m - 1 : Future'[i] = Future[i]
             /\ Past' \in Seq(Entries) /\ Kept(Append(Past, e), Past')
    BY <1>1, <1>3, DoneIs DEF Meeting
  <2>2. \A b \in Page : page'[b] = Turned(waiting[1], page[b], b)
    BY <1>3 DEF Done
  <2> SUFFICES ASSUME NEW b \in Page \ drifted PROVE Here(page'[b], Past', Future', b)
    BY <1>1, <2>1 DEF Meeting
  <2>3. Here(page[b], Past, Future, b) /\ page[b] \in Rows /\ b \in Page
    BY DEF Meeting, Shape
  <2>4. n \in Nat /\ n = Len(Past) /\ m \in Nat /\ m = Len(Future)
    BY <2>1
  <2>5. CASE waiting[1].back
    <3> DEFINE f == Append(Future, e)
    <3>1. f \in Seq(Entries) /\ Len(f) = m + 1 /\ (\A i \in 1 .. m : f[i] = Future[i]) /\ f[m + 1] = e
      <4> HIDE DEF e
      <4> QED
        BY <2>1
    <3>2. page'[b] = Undone(page[b], e, b)
      BY <2>2, <2>5 DEF Turned
    <3>3. Here(page'[b], Past', f, b)
      <4> HIDE DEF f, e, n, m
      <4>1. /\ n > 0 /\ Past' \in Seq(Entries) /\ Len(Past') = n - 1
            /\ \A i \in 1 .. n - 1 : Past'[i] = Past[i]
        BY <2>1, <2>5
      <4>2. f[m + 1] = Past[n] /\ page'[b] = Undone(page[b], Past[n], b)
        BY <2>1, <2>5, <3>1, <3>2
      <4>3. f \in Seq(Entries) /\ Len(f) = m + 1 /\ (\A i \in 1 .. m : f[i] = Future[i])
        BY <3>1
      <4>4. Here(Undone(page[b], Past[n], b), Past', f, b)
        BY <2>1, <2>3, <2>4, <4>1, <4>2, <4>3, UndoOne
      <4> QED
        BY <4>2, <4>4
    <3>4. Kept(Past', Past') /\ Kept(f, Future')
      BY <2>1, <2>5 DEF Kept
    <3> HIDE DEF f
    <3> QED
      BY <2>1, <2>3, <2>5, <3>1, <3>3, <3>4, KeptHere
  <2>6. CASE ~waiting[1].back
    <3> DEFINE p == Append(Past, e)
    <3>1. p \in Seq(Entries) /\ Len(p) = n + 1 /\ (\A i \in 1 .. n : p[i] = Past[i]) /\ p[n + 1] = e
      <4> HIDE DEF e
      <4> QED
        BY <2>1
    <3>2. page'[b] = Redone(page[b], e, b)
      BY <2>2, <2>6 DEF Turned
    <3>3. Here(page'[b], p, Future', b)
      <4> HIDE DEF p, e, n, m
      <4>1. /\ m > 0 /\ Future' \in Seq(Entries) /\ Len(Future') = m - 1
            /\ \A i \in 1 .. m - 1 : Future'[i] = Future[i]
        BY <2>1, <2>6
      <4>2. p[n + 1] = Future[m] /\ page'[b] = Redone(page[b], Future[m], b)
        BY <2>1, <2>6, <3>1, <3>2
      <4>3. p \in Seq(Entries) /\ Len(p) = n + 1 /\ (\A i \in 1 .. n : p[i] = Past[i])
        BY <3>1
      <4>4. Here(Redone(page[b], Future[m], b), p, Future', b)
        BY <2>1, <2>3, <2>4, <4>1, <4>2, <4>3, RedoOne
      <4> QED
        BY <4>2, <4>4
    <3>4. Kept(Future', Future') /\ Kept(p, Past')
      BY <2>1, <2>6 DEF Kept
    <3> HIDE DEF p
    <3> QED
      BY <2>1, <2>3, <2>6, <3>1, <3>3, <3>4, KeptHere
  <2> QED
    BY <2>5, <2>6
<1> QED
  BY <1>1, <1>2, <1>3

LEMMA RacedStays ==
  ASSUME [UndoNext]_undoVars, raced
  PROVE  raced'
BY DEF UndoNext, undoVars, Edit, Drift, Backfill, PressUndo, PressRedo, Replay, ReplayThrows

LEMMA MeetingKept ==
  ASSUME Shape, Meeting, [UndoNext]_undoVars, ~raced'
  PROVE  Meeting'
<1>1. Shape'
  BY ShapeKept
<1>2. CASE UndoNext
  BY <1>1, <1>2, MeetingEdit, MeetingDrift, MeetingBackfill, MeetingPresses, MeetingReplay,
     MeetingThrows DEF UndoNext
<1>3. CASE UNCHANGED undoVars
  BY <1>3, MeetingUntouched
<1> QED
  BY <1>2, <1>3
-----------------------------------------------------------------------------
(***************************************************************************)
(* All or nothing.                                                         *)
(***************************************************************************)
Meant(replay) == IF replay.back THEN replay.entry.from ELSE replay.entry.to

LEMMA NextIs ==
  ASSUME Shape, OneWay, waiting # <<>>
  PROVE  /\ waiting[1] \in Line /\ waiting[1].entry \in Entries /\ waiting[1].back \in BOOLEAN
         /\ Past \in Seq(Entries) /\ Future \in Seq(Entries)
         /\ waiting[1].back => Len(Past) > 0 /\ Past[Len(Past)] = waiting[1].entry
         /\ ~waiting[1].back => Len(Future) > 0 /\ Future[Len(Future)] = waiting[1].entry
<1>1. waiting \in Seq(Line) /\ undo \in Seq(Entries) /\ redo \in Seq(Entries)
  BY DEF Shape, Line
<1>2. PICK back \in BOOLEAN : \A i \in DOMAIN waiting : waiting[i].back = back
  BY <1>1, OneWayIs
<1>3. 1 \in DOMAIN waiting /\ waiting[1] \in Line /\ Len(waiting) \in Nat \ {0}
  BY <1>1
<1>4. waiting[1].entry \in Entries /\ waiting[1].back = back
  BY <1>2, <1>3 DEF Line
<1>5. /\ Past = Joined(undo, IF back THEN waiting ELSE <<>>)
      /\ Future = Joined(redo, IF back THEN <<>> ELSE waiting)
  BY <1>1, <1>2, PastFuture
<1>6. /\ Joined(undo, waiting)[Len(Joined(undo, waiting))] = waiting[1].entry
      /\ Joined(redo, waiting)[Len(Joined(redo, waiting))] = waiting[1].entry
  BY <1>1, JoinedGoes
<1>7. Len(Joined(undo, waiting)) > 0 /\ Len(Joined(redo, waiting)) > 0
  <2>1. /\ Len(Joined(undo, waiting)) = Len(undo) + Len(waiting)
        /\ Len(Joined(redo, waiting)) = Len(redo) + Len(waiting)
    BY <1>1, JoinedIs
  <2> QED
    BY <1>1, <1>3, <2>1
<1> QED
  BY <1>2, <1>3, <1>4, <1>5, <1>6, <1>7, PastTyped

\* A replay makes of every block sync has left alone what it is meant to be.
LEMMA HomeIs ==
  ASSUME Shape, Meeting, waiting # <<>>, NEW b \in Page \ drifted
  PROVE  Fits(Turned(waiting[1], page[b], b), Meant(waiting[1])[b])
<1> DEFINE replay == waiting[1]
           e == replay.entry
<1>1. /\ e \in Entries /\ replay.back \in BOOLEAN /\ Past \in Seq(Entries) /\ Future \in Seq(Entries)
      /\ replay.back => Len(Past) > 0 /\ Past[Len(Past)] = e
      /\ ~replay.back => Len(Future) > 0 /\ Future[Len(Future)] = e
  BY NextIs DEF Meeting
<1>2. Here(page[b], Past, Future, b) /\ page[b] \in Rows /\ b \in Page
  BY DEF Shape, Meeting
<1> HIDE DEF replay, e
<1>3. CASE replay.back
  <2>1. Len(Past) \in DOMAIN Past
    BY <1>1, <1>3
  <2>2. Leads(e, b) /\ Fits(page[b], e.to[b])
    BY <1>1, <1>2, <1>3, <2>1 DEF Here
  <2>3. Fits(Undone(page[b], e, b), e.from[b])
    BY <1>1, <1>2, <2>2, UndoneFits
  <2> QED
    BY <1>3, <2>3 DEF Turned, Meant, e, replay
<1>4. CASE ~replay.back
  <2> DEFINE m == Len(Future)
  <2>1. m \in DOMAIN Future /\ DOMAIN Future = 1 .. m /\ m \in Nat
    BY <1>1, <1>4
  <2>2. Leads(e, b)
    BY <1>1, <1>2, <1>4, <2>1 DEF Here
  <2>3. Meets(page[b], e, b)
    <3>1. \A i \in DOMAIN Future : ~(i > m)
      BY <2>1
    <3>2. Ready(page[b], Future, b)
      BY <1>2 DEF Here
    <3>3. Meets(page[b], Future[m], b)
      <4> HIDE DEF m
      <4> QED
        BY <2>1, <3>1, <3>2 DEF Ready
    <3> QED
      BY <1>1, <1>4, <3>3
  <2>4. Fits(Redone(page[b], e, b), e.to[b])
    BY <1>1, <1>2, <2>2, <2>3, RedoneFits
  <2> QED
    BY <1>4, <2>4 DEF Turned, Meant, e, replay
<1> QED
  BY <1>1, <1>3, <1>4

LEMMA FitsIsAlike ==
  ASSUME NEW r, NEW s, Fits(r, s)
  PROVE  Alike(r, s)
BY DEF Fits, Alike

\* What UndoIsExact says, but for the reasons a replay may fail.
AllOrNothing ==
  Replay /\ ~raced =>
    \/ \A b \in Page \ drifted : Alike(page'[b], Meant(waiting[1])[b])
    \/ page' = page

LEMMA ReplayEnds ==
  ASSUME Shape, Meeting, Replay
  PROVE  /\ waiting # <<>> /\ Head(waiting) = waiting[1] /\ waiting[1] \in Line
         /\ \/ \A b \in Page \ drifted : Alike(page'[b], Meant(waiting[1])[b])
            \/ page' = page /\ (Throws(page, Target(waiting[1])) \/ Jammed(Target(waiting[1])))
<1>1. page \in [Page -> Rows] /\ waiting \in Seq(Line) /\ raced \in BOOLEAN
  BY DEF Shape, Line
<1>2. /\ waiting # <<>> /\ waiting[1] \in Line
      /\ Done(waiting[1]) \/ GivenUp(waiting[1])
  BY <1>1, ReplayIs
<1>3. Head(waiting) = waiting[1]
  BY <1>1, <1>2
<1>4. CASE Done(waiting[1])
  <2> SUFFICES ASSUME NEW b \in Page \ drifted PROVE Alike(page'[b], Meant(waiting[1])[b])
    BY <1>2, <1>3
  <2>1. page'[b] = Turned(waiting[1], page[b], b)
    BY <1>4 DEF Done
  <2>2. Fits(Turned(waiting[1], page[b], b), Meant(waiting[1])[b])
    BY <1>2, HomeIs
  <2> QED
    BY <2>1, <2>2, FitsIsAlike
<1>5. CASE GivenUp(waiting[1])
  BY <1>2, <1>3, <1>5 DEF GivenUp
<1> QED
  BY <1>2, <1>4, <1>5

\* For any edits and any sync: with nothing in between, a replay takes every
\* block sync has left alone, written by its entry or not, to the row it had
\* on the far side of the entry's transactions, or it leaves the page as it
\* is (Repo._replay, one transaction).
THEOREM ReplaysAreAllOrNothing == UndoSpec => [][AllOrNothing]_undoVars
<1> DEFINE Inv == Shape /\ (~raced => Meeting)
<1>1. UndoInit => Inv
  BY ShapeStarts, MeetingStarts
<1>2. Inv /\ [UndoNext]_undoVars => Inv'
  <2> SUFFICES ASSUME Inv, [UndoNext]_undoVars PROVE Inv'
    OBVIOUS
  <2>1. Shape'
    BY ShapeKept
  <2>2. ~raced' => ~raced
    BY RacedStays
  <2>3. ~raced' => Meeting'
    BY <2>2, MeetingKept
  <2> QED
    BY <2>1, <2>3
<1>3. Inv /\ [UndoNext]_undoVars => [AllOrNothing]_undoVars
  <2> SUFFICES ASSUME Inv, Replay, ~raced
               PROVE  \/ \A b \in Page \ drifted : Alike(page'[b], Meant(waiting[1])[b])
                      \/ page' = page
    BY DEF AllOrNothing
  <2> QED
    BY ReplayEnds
<1> QED
  BY <1>1, <1>2, <1>3, PTL DEF UndoSpec
-----------------------------------------------------------------------------
(***************************************************************************)
(* While sync stays away, no trigger has anything to say of the page, nor  *)
(* of the pages the entries keep.                                          *)
(***************************************************************************)
\* No block is lost.
Grows(old, new) == \A b \in Page : old[b] # NoRow => new[b] # NoRow

LEMMA StillParented ==
  ASSUME NEW old, NEW new, Grows(old, new), NEW row \in Rows, ~Orphan(old, row)
  PROVE  ~Orphan(new, row)
<1>1. CASE row = NoRow \/ row.parent = NoParent
  BY <1>1 DEF Orphan
<1>2. CASE row # NoRow /\ row.parent # NoParent
  <2>1. row.parent \in Page
    BY <1>2, RowFields
  <2> QED
    BY <1>2, <2>1 DEF Orphan, Missing, Grows
<1> QED
  BY <1>1, <1>2

LEMMA StillTidyEntry ==
  ASSUME NEW old, NEW new, Grows(old, new), NEW e \in Entries, TidyEntry(old, e)
  PROVE  TidyEntry(new, e)
<1>1. \A b \in DOMAIN e.snaps : e.snaps[b].before \in Rows /\ e.snaps[b].after \in Rows
  BY EntryFields
<1> QED
  BY <1>1, StillParented DEF TidyEntry

LEMMA StillTidyAll ==
  ASSUME NEW old, NEW new, Grows(old, new), NEW s \in Seq(Entries), TidyAll(old, s),
         NEW s2 \in Seq(Entries), \A i \in DOMAIN s2 : \E j \in DOMAIN s : s2[i] = s[j]
  PROVE  TidyAll(new, s2)
<1> SUFFICES ASSUME NEW i \in DOMAIN s2 PROVE TidyEntry(new, s2[i])
  BY DEF TidyAll
<1>1. PICK j \in DOMAIN s : s2[i] = s[j]
  OBVIOUS
<1>2. s[j] \in Entries /\ TidyEntry(old, s[j])
  BY DEF TidyAll
<1> QED
  BY <1>1, <1>2, StillTidyEntry

\* A page that fits a tidy one.
LEMMA FittingIsClear ==
  ASSUME NEW rows \in [Page -> Rows], NEW meant \in [Page -> Rows], Tidy(meant),
         \A b \in Page : Fits(rows[b], meant[b]), NEW b \in Page
  PROVE  InTheWay(rows, b, rows[b], All) = {}
<1> SUFFICES ASSUME NEW c \in InTheWay(rows, b, rows[b], All) PROVE FALSE
  OBVIOUS
<1>1. /\ rows[b] # NoRow /\ rows[b].live /\ c \in Page \ {b}
      /\ \/ c = rows[b].parent /\ rows[c] # NoRow /\ ~rows[c].live
         \/ rows[b].alias # NoAlias /\ rows[c] # NoRow /\ rows[c].live /\ rows[c].alias = rows[b].alias
  BY DEF InTheWay, Missing, Live
<1>2. meant[b] = rows[b] /\ Fits(rows[c], meant[c])
  BY <1>1 DEF Fits
<1>3. c \notin InTheWay(meant, b, meant[b], All) /\ ~Orphan(meant, meant[b])
  BY DEF Tidy
<1>4. CASE c = rows[b].parent /\ rows[c] # NoRow /\ ~rows[c].live
  <2>1. meant[c] # NoRow
    <3>1. rows[b].parent # NoParent
      BY <1>1, <1>4, UndoAssumption
    <3> QED
      BY <1>1, <1>2, <1>3, <1>4, <3>1 DEF Orphan, Missing
  <2>2. meant[c] = rows[c]
    BY <1>2, <2>1 DEF Fits
  <2> QED
    BY <1>1, <1>2, <1>3, <1>4, <2>2 DEF InTheWay, Missing, All
<1>5. CASE rows[b].alias # NoAlias /\ rows[c] # NoRow /\ rows[c].live /\ rows[c].alias = rows[b].alias
  <2>1. meant[c] = rows[c]
    BY <1>2, <1>5 DEF Fits
  <2> QED
    BY <1>1, <1>2, <1>3, <1>5, <2>1 DEF InTheWay, Missing, Live, All
<1> QED
  BY <1>1, <1>4, <1>5
-----------------------------------------------------------------------------
(***************************************************************************)
(* Edits.                                                                  *)
(***************************************************************************)
\* No block is deleted from over a live one.
TakesChildren ==
  \A b, d \in Page : Live(page, b) /\ ~Live(page', b) /\ Live(page', d) => page'[d].parent # b

UserWrites == \E rows \in Edits : (\E group \in Groups : Edit(rows, group)) \/ Backfill(rows)

\* What the code's own deletes do (deleteSubtreeInTx, subtreeDelete.ts): who
\* deletes a block deletes what is under it.
DeletesTakeChildren == [][UserWrites => TakesChildren]_undoVars

\* What the triggers were asked of a block, or else was already so.
LEMMA AskedOf ==
  ASSUME NEW old \in Rows, NEW row \in Rows \ {NoRow}, row.live
  PROVE  /\ "alias" \in Columns(old, row) \/ (old # NoRow /\ old.live /\ old.alias = row.alias)
         /\ "parent" \in Columns(old, row) \/ (old # NoRow /\ old.live /\ old.parent = row.parent)
<1>1. CASE old = NoRow \/ old.live # row.live
  BY <1>1 DEF Columns, All
<1>2. CASE old # NoRow /\ old.live = row.live
  <2>1. Columns(old, row) = {col \in All : old[col] # row[col]}
    BY <1>2 DEF Columns
  <2>2. old["alias"] = old.alias /\ old["parent"] = old.parent
        /\ row["alias"] = row.alias /\ row["parent"] = row.parent
    OBVIOUS
  <2> QED
    BY <1>2, <2>1, <2>2 DEF All
<1> QED
  BY <1>1, <1>2

LEMMA AcceptedIsTidy ==
  ASSUME page \in [Page -> Rows], Tidy(page), NEW rows \in Edits, Accepted(rows),
         page' = Over(rows, page), TakesChildren
  PROVE  Grows(page, page') /\ Tidy(page')
<1> DEFINE S == DOMAIN rows
<1>1. S \subseteq Page /\ rows \in [DOMAIN rows -> Rows] /\ \A b \in S : rows[b] \in Rows \ {NoRow}
  BY UndoAssumption
<1>2. /\ page' \in [Page -> Rows]
      /\ \A b \in S : page'[b] = rows[b]
      /\ \A b \in Page \ S : page'[b] = page[b]
  BY <1>1, OverIs
<1>3. Grows(page, page')
  BY <1>1, <1>2 DEF Grows
<1>4. \A b \in S : /\ InTheWay(page', b, page'[b], Columns(page[b], page'[b])) = {}
                   /\ ~Orphan(page', page'[b])
  BY <1>2 DEF Accepted
<1>5. ASSUME NEW b \in Page PROVE ~Orphan(page', page'[b])
  <2>1. CASE b \in S
    BY <1>4, <2>1
  <2>2. CASE b \notin S
    <3>1. page'[b] = page[b] /\ page[b] \in Rows /\ ~Orphan(page, page[b])
      BY <1>2, <2>2 DEF Tidy
    <3> QED
      BY <1>3, <3>1, StillParented
  <2> QED
    BY <2>1, <2>2
\* A live block was asked about, or has not changed.
<1>6. ASSUME NEW b \in Page, page'[b] # NoRow, page'[b].live
      PROVE  /\ \/ InTheWay(page', b, page'[b], {"alias"}) = {}
                \/ page[b] # NoRow /\ page[b].live /\ page[b].alias = page'[b].alias
             /\ \/ InTheWay(page', b, page'[b], {"parent"}) = {}
                \/ page[b] # NoRow /\ page[b].live /\ page[b].parent = page'[b].parent
  <2>1. CASE b \notin S
    BY <1>2, <1>6, <2>1
  <2>2. CASE b \in S
    <3>1. page[b] \in Rows /\ page'[b] \in Rows \ {NoRow} /\ page'[b].live
      BY <1>2, <1>6
    <3>2. InTheWay(page', b, page'[b], Columns(page[b], page'[b])) = {}
      BY <1>4, <2>2
    <3>3. \A col : col \in Columns(page[b], page'[b]) => InTheWay(page', b, page'[b], {col}) = {}
      BY <3>2 DEF InTheWay
    <3> QED
      BY <3>1, <3>3, AskedOf
  <2> QED
    BY <2>1, <2>2
<1>7. ASSUME NEW b \in Page PROVE InTheWay(page', b, page'[b], All) = {}
  <2> SUFFICES ASSUME NEW c \in InTheWay(page', b, page'[b], All) PROVE FALSE
    OBVIOUS
  <2>1. /\ page'[b] # NoRow /\ page'[b].live /\ c \in Page /\ c # b
        /\ \/ c = page'[b].parent /\ page'[c] # NoRow /\ ~page'[c].live
           \/ /\ page'[b].alias # NoAlias /\ page'[c] # NoRow /\ page'[c].live
              /\ page'[c].alias = page'[b].alias
    BY DEF InTheWay, Missing, Live
  <2>2. CASE c = page'[b].parent /\ page'[c] # NoRow /\ ~page'[c].live
    <3>1. c \in InTheWay(page', b, page'[b], {"parent"})
      BY <2>1, <2>2 DEF InTheWay, Missing
    <3>2. page[b] # NoRow /\ page[b].live /\ page[b].parent = c
      BY <1>6, <2>1, <2>2, <3>1
    <3>3. c \notin InTheWay(page, b, page[b], All) /\ ~Orphan(page, page[b])
      BY DEF Tidy
    <3>4. c # NoParent
      BY <2>1, UndoAssumption
    <3>5. Live(page, c)
      BY <2>1, <3>2, <3>3, <3>4 DEF InTheWay, Orphan, Missing, Live, All
    <3>6. ~Live(page', c) /\ Live(page', b) /\ page'[b].parent = c
      BY <2>1, <2>2 DEF Live, Missing
    <3> QED
      BY <2>1, <3>5, <3>6 DEF TakesChildren
  <2>3. CASE /\ page'[b].alias # NoAlias /\ page'[c] # NoRow /\ page'[c].live
             /\ page'[c].alias = page'[b].alias
    <3>1. /\ c \in InTheWay(page', b, page'[b], {"alias"})
          /\ b \in InTheWay(page', c, page'[c], {"alias"})
      BY <2>1, <2>3 DEF InTheWay, Live, Missing
    <3>2. /\ page[b] # NoRow /\ page[b].live /\ page[b].alias = page'[b].alias
          /\ page[c] # NoRow /\ page[c].live /\ page[c].alias = page'[c].alias
      BY <1>6, <2>1, <2>3, <3>1
    <3>3. c \in InTheWay(page, b, page[b], All)
      BY <2>1, <2>3, <3>2 DEF InTheWay, Live, Missing, All
    <3> QED
      BY <3>3 DEF Tidy
  <2> QED
    BY <2>1, <2>2, <2>3
<1> QED
  BY <1>3, <1>5, <1>7 DEF Tidy

LEMMA FreshIsTidy ==
  ASSUME page \in [Page -> Rows], page' \in [Page -> Rows], Tidy(page), Tidy(page'),
         Grows(page, page'), NEW new, Fresh(new)
  PROVE  TidyEntry(page', new)
<1>1. new \in Entries /\ new.from = page /\ new.to = page'
  BY DEF Fresh
<1>2. ASSUME NEW b \in DOMAIN new.snaps
      PROVE  ~Orphan(page', new.snaps[b].before) /\ ~Orphan(page', new.snaps[b].after)
  <2>1. b \in Page /\ Writes(new, b)
    BY <1>1, EntryFields DEF Writes
  <2>2. new.snaps[b].before = page[b] /\ new.snaps[b].after = page'[b]
    BY <2>1 DEF Fresh
  <2>3. ~Orphan(page, page[b]) /\ ~Orphan(page', page'[b]) /\ page[b] \in Rows
    BY <2>1 DEF Tidy
  <2> QED
    BY <2>2, <2>3, StillParented
<1> QED
  BY <1>1, <1>2 DEF TidyEntry

LEMMA MergedIsTidy ==
  ASSUME NEW rows, NEW old, NEW new, NEW e,
         e.snaps = Merge(old.snaps, new.snaps), e.from = old.from, e.to = new.to,
         TidyEntry(rows, old), TidyEntry(rows, new)
  PROVE  TidyEntry(rows, e)
<1>1. DOMAIN e.snaps = DOMAIN old.snaps \cup DOMAIN new.snaps
  BY DEF Merge
<1>2. \A b \in DOMAIN e.snaps :
        /\ e.snaps[b].before = IF b \in DOMAIN old.snaps THEN old.snaps[b].before ELSE new.snaps[b].before
        /\ e.snaps[b].after = IF b \in DOMAIN new.snaps THEN new.snaps[b].after ELSE old.snaps[b].after
  BY <1>1 DEF Merge
<1> QED
  BY <1>1, <1>2 DEF TidyEntry
-----------------------------------------------------------------------------
(***************************************************************************)
(* Every step keeps that.                                                  *)
(***************************************************************************)
LEMMA CleanStarts ==
  ASSUME UndoInit, Tidy(Paper)
  PROVE  Clean
<1>1. undo = <<>> /\ redo = <<>> /\ waiting = <<>> /\ page = Paper
  BY DEF UndoInit
<1>2. Past = <<>> /\ Future = <<>>
  BY <1>1, ShapeStarts, Idle
<1>3. DOMAIN <<>> = {}
  OBVIOUS
<1> QED
  BY <1>1, <1>2, <1>3 DEF Clean, TidyAll

LEMMA CleanSame ==
  ASSUME Clean, page' = page, Past' = Past, Future' = Future
  PROVE  Clean'
BY DEF Clean

LEMMA CleanUntouched ==
  ASSUME Clean, UNCHANGED undoVars
  PROVE  Clean'
<1>1. page' = page /\ undo' = undo /\ redo' = redo /\ waiting' = waiting
  BY DEF undoVars
<1>2. Past' = Past /\ Future' = Future
  BY <1>1 DEF Past, Future, Backward
<1> QED
  BY <1>1, <1>2, CleanSame

LEMMA CleanDrift ==
  ASSUME Shape, Clean, NEW rows \in Drifts, Drift(rows), drifted' = {}
  PROVE  Clean'
<1>1. /\ page' = Over(rows, page) /\ undo' = undo /\ redo' = redo /\ waiting' = waiting
      /\ DOMAIN rows = {}
  BY DEF Drift
<1>2. page \in [Page -> Rows] /\ rows \in [DOMAIN rows -> Rows]
  BY UndoAssumption DEF Shape
<1>3. page' \in [Page -> Rows] /\ \A b \in Page : page'[b] = page[b]
  <2>1. DOMAIN rows \subseteq Page
    BY UndoAssumption
  <2>2. /\ Over(rows, page) \in [Page -> Rows]
        /\ \A b \in Page \ DOMAIN rows : Over(rows, page)[b] = page[b]
    BY <1>2, <2>1, OverIs
  <2> QED
    BY <1>1, <2>2
<1>4. page' = page
  BY <1>2, <1>3
<1>5. Past' = Past /\ Future' = Future
  BY <1>1 DEF Past, Future, Backward
<1> QED
  BY <1>4, <1>5, CleanSame

LEMMA FromKept ==
  ASSUME NEW s \in Seq(Entries), NEW s2 \in Seq(Entries), Kept(s, s2)
  PROVE  \A i \in DOMAIN s2 : \E j \in DOMAIN s : s2[i] = s[j]
<1>1. CASE s2 = s
  BY <1>1
<1>2. CASE Dropped(s, s2)
  <2>1. Len(s) \in Nat /\ Len(s2) = Len(s) - 1 /\ \A i \in 1 .. Len(s) - 1 : s2[i] = s[i + 1]
    BY <1>2 DEF Dropped
  <2>2. \A i \in DOMAIN s2 : i \in 1 .. Len(s) - 1 /\ i + 1 \in DOMAIN s
    BY <2>1
  <2> QED
    BY <2>1, <2>2
<1> QED
  BY <1>1, <1>2 DEF Kept

LEMMA TidyKept ==
  ASSUME NEW old, NEW new, Grows(old, new), NEW s \in Seq(Entries), TidyAll(old, s),
         NEW s2 \in Seq(Entries), Kept(s, s2)
  PROVE  TidyAll(new, s2)
BY FromKept, StillTidyAll

LEMMA SameGrows ==
  ASSUME NEW rows
  PROVE  Grows(rows, rows)
BY DEF Grows

LEMMA TidyAppended ==
  ASSUME NEW rows, NEW s \in Seq(Entries), TidyAll(rows, s), NEW e \in Entries, TidyEntry(rows, e)
  PROVE  Append(s, e) \in Seq(Entries) /\ TidyAll(rows, Append(s, e))
<1>1. Len(s) \in Nat /\ DOMAIN s = 1 .. Len(s) /\ DOMAIN Append(s, e) = 1 .. Len(s) + 1
  OBVIOUS
<1>2. ASSUME NEW i \in 1 .. Len(s) + 1 PROVE TidyEntry(rows, Append(s, e)[i])
  <2>1. CASE i = Len(s) + 1
    BY <2>1
  <2>2. CASE i # Len(s) + 1
    <3>1. i \in 1 .. Len(s) /\ Append(s, e)[i] = s[i]
      BY <1>1, <2>2
    <3> QED
      BY <1>1, <3>1 DEF TidyAll
  <2> QED
    BY <2>1, <2>2
<1> QED
  BY <1>1, <1>2 DEF TidyAll

LEMMA CleanThrows ==
  ASSUME Shape, Shape', OneWay, Clean, ReplayThrows, ~raced'
  PROVE  Clean'
<1>1. page' = page /\ Kept(Past, Past') /\ Kept(Future, Future')
  BY ThrowsIs
<1>2. /\ Past \in Seq(Entries) /\ Future \in Seq(Entries)
      /\ Past' \in Seq(Entries) /\ Future' \in Seq(Entries)
  BY PastTyped, PastTypedNext
<1>3. TidyAll(page, Past') /\ TidyAll(page, Future')
  BY <1>1, <1>2, TidyKept, SameGrows DEF Clean
<1> QED
  BY <1>1, <1>3 DEF Clean

LEMMA CleanBackfill ==
  ASSUME Shape, Clean, NEW rows \in Edits, Backfill(rows), TakesChildren, ~raced'
  PROVE  Clean'
<1>1. undo' = <<>> /\ redo' = <<>> /\ waiting' = <<>>
  BY BackfillIs DEF Shape
<1>2. <<>> \in Seq(Entries) /\ DOMAIN <<>> = {}
  OBVIOUS
<1>3. Past' = <<>> /\ Future' = <<>>
  BY <1>1, <1>2, IdleNext
<1>4. Tidy(page')
  BY AcceptedIsTidy DEF Backfill, Shape, Clean
<1> QED
  BY <1>2, <1>3, <1>4 DEF Clean, TidyAll

LEMMA CleanEdit ==
  ASSUME Shape, Shape', Clean, NEW rows \in Edits, NEW group \in Groups, Edit(rows, group),
         TakesChildren, ~raced'
  PROVE  Clean'
<1>1. PICK new : /\ Fresh(new) /\ ~raced /\ waiting = <<>> /\ drifted' = drifted
                 /\ Past = undo /\ Future = redo /\ Past' = undo' /\ Future' = <<>> /\ OneWay'
                 /\ undo' \in Seq(Entries) /\ undo \in Seq(Entries) /\ redo \in Seq(Entries)
                 /\ \/ Kept(Append(undo, new), undo')
                    \/ \E e : Joining(new, e)
  BY EditPast
<1>2. page \in [Page -> Rows] /\ page' \in [Page -> Rows] /\ Tidy(page) /\ TidyAll(page, undo)
  BY <1>1 DEF Shape, Clean
<1>3. Accepted(rows) /\ page' = Over(rows, page)
  BY DEF Edit
<1>4. Grows(page, page') /\ Tidy(page')
  BY <1>2, <1>3, AcceptedIsTidy
<1>5. new \in Entries /\ TidyEntry(page', new)
  BY <1>1, <1>2, <1>4, FreshIsTidy DEF Fresh
<1>6. TidyAll(page', undo)
  BY <1>1, <1>2, <1>4, TidyKept DEF Kept
<1>7. TidyAll(page', undo')
  <2>1. CASE Kept(Append(undo, new), undo')
    <3>1. Append(undo, new) \in Seq(Entries) /\ TidyAll(page', Append(undo, new))
      BY <1>1, <1>5, <1>6, TidyAppended
    <3> QED
      BY <1>1, <2>1, <3>1, TidyKept, SameGrows
  <2>2. CASE \E e : Joining(new, e)
    <3>1. PICK e : Joining(new, e)
      BY <2>2
    <3> DEFINE n == Len(undo)
    <3>2. n \in Nat \ {0} /\ DOMAIN undo = 1 .. n /\ DOMAIN undo' = 1 .. n
      BY <1>1, <3>1 DEF Joining
    <3>3. TidyEntry(page', e)
      <4>1. TidyEntry(page', undo[n])
        BY <1>6, <3>2 DEF TidyAll
      <4>2. e.snaps = Merge(undo[n].snaps, new.snaps) /\ e.from = undo[n].from /\ e.to = new.to
        BY <3>1 DEF Joining
      <4> QED
        BY <1>5, <4>1, <4>2, MergedIsTidy
    <3>4. ASSUME NEW i \in 1 .. n PROVE TidyEntry(page', undo'[i])
      <4>1. CASE i = n
        BY <3>1, <3>3, <4>1 DEF Joining
      <4>2. CASE i # n
        <5>1. i \in 1 .. n - 1
          <6> HIDE DEF n
          <6> QED
            BY <3>2, <4>2
        <5>2. undo'[i] = undo[i]
          BY <3>1, <5>1 DEF Joining
        <5> QED
          BY <1>6, <3>2, <5>2 DEF TidyAll
      <4> QED
        BY <4>1, <4>2
    <3> QED
      BY <3>2, <3>4 DEF TidyAll
  <2> QED
    BY <1>1, <2>1, <2>2
<1>8. DOMAIN <<>> = {}
  OBVIOUS
<1> QED
  BY <1>1, <1>4, <1>7, <1>8 DEF Clean, TidyAll

\* What the replay that is next means its blocks to be, and their rows.
LEMMA NextIsTidy ==
  ASSUME Shape, OneWay, Clean, waiting # <<>>
  PROVE  TidyEntry(page, waiting[1].entry)
<1>1. /\ waiting[1].back \in BOOLEAN /\ Past \in Seq(Entries) /\ Future \in Seq(Entries)
      /\ waiting[1].back => Len(Past) > 0 /\ Past[Len(Past)] = waiting[1].entry
      /\ ~waiting[1].back => Len(Future) > 0 /\ Future[Len(Future)] = waiting[1].entry
  BY NextIs
<1>2. CASE waiting[1].back
  <2>1. Len(Past) \in DOMAIN Past
    BY <1>1, <1>2
  <2> QED
    BY <1>1, <1>2, <2>1 DEF Clean, TidyAll
<1>3. CASE ~waiting[1].back
  <2>1. Len(Future) \in DOMAIN Future
    BY <1>1, <1>3
  <2> QED
    BY <1>1, <1>3, <2>1 DEF Clean, TidyAll
<1> QED
  BY <1>1, <1>2, <1>3

\* What each block becomes: no row of it is in another one's way.
Home == [b \in Page |-> Turned(waiting[1], page[b], b)]

LEMMA TurnedIs ==
  ASSUME NEW replay \in Line, NEW row, NEW b
  PROVE  Turned(replay, row, b) =
           IF b \in DOMAIN Target(replay) THEN Landing(row, Target(replay)[b]) ELSE row
BY TargetIs DEF Turned, Undone, Redone, Writes

LEMMA HomeIsClear ==
  ASSUME Shape, Meeting, Clean, drifted = {}, waiting # <<>>
  PROVE  /\ Home \in [Page -> Rows]
         /\ \A b \in Page : Home[b] = Turned(waiting[1], page[b], b)
         /\ \A b \in Page : InTheWay(Home, b, Home[b], All) = {}
<1> DEFINE replay == waiting[1]
           meant == Meant(replay)
<1>1. replay \in Line /\ replay.entry \in Entries /\ replay.back \in BOOLEAN
  BY NextIs DEF Meeting
<1>2. TidyEntry(page, replay.entry)
  BY NextIsTidy DEF Meeting
<1>3. IsTarget(Target(replay))
  <2> HIDE DEF replay
  <2> QED
    BY <1>1, TargetIs
<1>4. ASSUME NEW b \in Page PROVE Turned(replay, page[b], b) \in Rows
  <2>1. page[b] \in Rows
    BY DEF Shape
  <2>2. Turned(replay, page[b], b) =
          IF b \in DOMAIN Target(replay) THEN Landing(page[b], Target(replay)[b]) ELSE page[b]
    <3> HIDE DEF replay
    <3> QED
      BY <1>1, TurnedIs
  <2> QED
    BY <1>3, <2>1, <2>2, SettleIs DEF IsTarget
<1>5. Home \in [Page -> Rows] /\ \A b \in Page : Home[b] = Turned(replay, page[b], b)
  BY <1>4 DEF Home
<1>6. \A b \in Page : Fits(Home[b], meant[b])
  BY <1>5, HomeIs
<1>7. meant \in [Page -> Rows] /\ Tidy(meant)
  <2> HIDE DEF replay
  <2> QED
    BY <1>1, <1>2, EntryFields DEF Meant, TidyEntry
<1>8. \A b \in Page : InTheWay(Home, b, Home[b], All) = {}
  <2> HIDE DEF meant
  <2> QED
    BY <1>5, <1>6, <1>7, FittingIsClear
<1> QED
  BY <1>5, <1>8

LEMMA HomeIsTidy ==
  ASSUME Shape, Meeting, Clean, drifted = {}, waiting # <<>>
  PROVE  Grows(page, Home) /\ Tidy(Home)
<1> DEFINE replay == waiting[1]
           target == Target(replay)
<1>1. replay \in Line /\ replay.entry \in Entries /\ replay.back \in BOOLEAN
  BY NextIs DEF Meeting
<1>2. TidyEntry(page, replay.entry)
  BY NextIsTidy DEF Meeting
<1>3. /\ IsTarget(target) /\ DOMAIN target = DOMAIN replay.entry.snaps
      /\ \A b \in DOMAIN target : target[b] = IF replay.back THEN replay.entry.snaps[b].before
                                               ELSE replay.entry.snaps[b].after
  <2> HIDE DEF replay
  <2> QED
    BY <1>1, TargetIs
<1>4. /\ Home \in [Page -> Rows]
      /\ \A b \in Page : Home[b] = Turned(replay, page[b], b)
      /\ \A b \in Page : InTheWay(Home, b, Home[b], All) = {}
  BY HomeIsClear
<1>5. ASSUME NEW b \in Page
      PROVE  Home[b] = IF b \in DOMAIN target THEN Landing(page[b], target[b]) ELSE page[b]
  <2>1. Home[b] = Turned(replay, page[b], b)
    BY <1>4
  <2> HIDE DEF replay
  <2> QED
    BY <1>1, <2>1, TurnedIs
<1> HIDE DEF replay, target
<1>6. \A b \in Page : page[b] \in Rows /\ (b \in DOMAIN target => target[b] \in Rows)
  BY <1>3 DEF Shape, IsTarget
<1>7. Grows(page, Home)
  BY <1>5, <1>6, SettleIs DEF Grows
<1>8. ASSUME NEW b \in Page PROVE ~Orphan(Home, Home[b])
  <2>1. ~Orphan(page, page[b])
    BY DEF Clean, Tidy
  <2>2. b \in DOMAIN target => ~Orphan(page, target[b])
    BY <1>1, <1>2, <1>3 DEF TidyEntry
  <2>3. CASE b \notin DOMAIN target \/ (target[b] = NoRow /\ page[b] = NoRow)
    <3>1. Home[b] = page[b]
      BY <1>5, <2>3 DEF Landing
    <3> QED
      BY <1>6, <1>7, <2>1, <3>1, StillParented
  <2>4. CASE b \in DOMAIN target /\ target[b] # NoRow
    <3>1. Home[b] = target[b]
      BY <1>5, <2>4 DEF Landing
    <3> QED
      BY <1>6, <1>7, <2>2, <2>4, <3>1, StillParented
  <2>5. CASE b \in DOMAIN target /\ target[b] = NoRow /\ page[b] # NoRow
    <3>1. Home[b] # NoRow /\ Home[b].parent = page[b].parent
      BY <1>5, <1>6, <2>5, SettleIs
    <3>2. ~Orphan(Home, page[b])
      BY <1>6, <1>7, <2>1, StillParented
    <3> QED
      BY <2>5, <3>1, <3>2 DEF Orphan
  <2> QED
    BY <2>3, <2>4, <2>5
<1> QED
  BY <1>4, <1>7, <1>8 DEF Tidy

LEMMA CleanReplay ==
  ASSUME Shape, Shape', Meeting, Clean, drifted = {}, Replay, ~raced'
  PROVE  Clean'
<1>1. /\ waiting # <<>> /\ waiting' = Tail(waiting)
      /\ Done(waiting[1]) \/ GivenUp(waiting[1])
  <2>1. page \in [Page -> Rows] /\ waiting \in Seq(Line) /\ raced \in BOOLEAN
    BY DEF Shape, Line
  <2> QED
    BY <2>1, ReplayIs
<1>2. /\ Past \in Seq(Entries) /\ Future \in Seq(Entries)
      /\ Past' \in Seq(Entries) /\ Future' \in Seq(Entries)
  BY PastTyped, PastTypedNext
<1>3. OneWay /\ TidyAll(page, Past) /\ TidyAll(page, Future)
  BY DEF Meeting, Clean
<1>4. CASE GivenUp(waiting[1])
  <2>1. page' = page /\ Kept(Past, Past') /\ Kept(Future, Future')
    BY <1>1, <1>3, <1>4, GivenUpIs
  <2>2. TidyAll(page, Past') /\ TidyAll(page, Future')
    BY <1>2, <1>3, <2>1, TidyKept, SameGrows
  <2> QED
    BY <2>1, <2>2 DEF Clean
<1>5. CASE Done(waiting[1])
  <2> DEFINE e == waiting[1].entry
  <2>1. page' = Home
    <3>1. page' \in [Page -> Rows] /\ \A b \in Page : page'[b] = Turned(waiting[1], page[b], b)
      BY <1>5 DEF Done
    <3>2. Home \in [Page -> Rows] /\ \A b \in Page : Home[b] = Turned(waiting[1], page[b], b)
      BY <1>1, HomeIsClear
    <3> QED
      BY <3>1, <3>2
  <2>2. Grows(page, page') /\ Tidy(page')
    BY <1>1, <2>1, HomeIsTidy
  <2>3. e \in Entries /\ waiting[1].back \in BOOLEAN /\ TidyEntry(page', e)
    <3>1. TidyEntry(page, e) /\ e \in Entries /\ waiting[1].back \in BOOLEAN
      BY <1>1, <1>3, NextIs, NextIsTidy
    <3> HIDE DEF e
    <3> QED
      BY <2>2, <3>1, StillTidyEntry
  <2>4. /\ waiting[1].back =>
             /\ Len(Past') = Len(Past) - 1 /\ \A i \in 1 .. Len(Past) - 1 : Past'[i] = Past[i]
             /\ Kept(Append(Future, e), Future')
        /\ ~waiting[1].back =>
             /\ Len(Future') = Len(Future) - 1 /\ \A i \in 1 .. Len(Future) - 1 : Future'[i] = Future[i]
             /\ Kept(Append(Past, e), Past')
    BY <1>1, <1>3, <1>5, DoneIs
  <2>5. TidyAll(page', Past) /\ TidyAll(page', Future)
    BY <1>2, <1>3, <2>2, TidyKept DEF Kept
  <2>6. /\ Append(Past, e) \in Seq(Entries) /\ TidyAll(page', Append(Past, e))
        /\ Append(Future, e) \in Seq(Entries) /\ TidyAll(page', Append(Future, e))
    <3> HIDE DEF e
    <3> QED
      BY <1>2, <2>3, <2>5, TidyAppended
  <2> HIDE DEF e
  <2>7. ASSUME NEW s \in Seq(Entries), NEW s2 \in Seq(Entries), TidyAll(page', s),
               Len(s2) = Len(s) - 1, \A i \in 1 .. Len(s) - 1 : s2[i] = s[i]
        PROVE  TidyAll(page', s2)
    <3>1. \A i \in DOMAIN s2 : i \in 1 .. Len(s) - 1 /\ i \in DOMAIN s
      BY <2>7
    <3> QED
      BY <2>7, <3>1 DEF TidyAll
  <2>8. CASE waiting[1].back
    <3>1. TidyAll(page', Past')
      BY <1>2, <2>4, <2>5, <2>7, <2>8
    <3>2. TidyAll(page', Future')
      BY <1>2, <2>4, <2>6, <2>8, TidyKept, SameGrows
    <3> QED
      BY <2>2, <3>1, <3>2 DEF Clean
  <2>9. CASE ~waiting[1].back
    <3>1. TidyAll(page', Future')
      BY <1>2, <2>4, <2>5, <2>7, <2>9
    <3>2. TidyAll(page', Past')
      BY <1>2, <2>4, <2>6, <2>9, TidyKept, SameGrows
    <3> QED
      BY <2>2, <3>1, <3>2 DEF Clean
  <2> QED
    BY <2>3, <2>8, <2>9
<1> QED
  BY <1>1, <1>4, <1>5

LEMMA CleanKept ==
  ASSUME Shape, Meeting, drifted = {} => Clean, [UndoNext]_undoVars,
         [UserWrites => TakesChildren]_undoVars, ~raced', drifted' = {}
  PROVE  Clean'
<1>1. Shape'
  BY ShapeKept
<1>2. drifted = {}
  BY DEF UndoNext, undoVars, Edit, Drift, Backfill, PressUndo, PressRedo, Replay, ReplayThrows
<1>3. Clean
  BY <1>2
<1>4. CASE UNCHANGED undoVars
  BY <1>3, <1>4, CleanUntouched
<1>5. CASE UndoNext /\ (UserWrites => TakesChildren)
  <2>1. ASSUME NEW rows \in Edits, NEW group \in Groups, Edit(rows, group) PROVE Clean'
    BY <1>1, <1>3, <1>5, <2>1, CleanEdit DEF UserWrites
  <2>2. ASSUME NEW rows \in Edits, Backfill(rows) PROVE Clean'
    BY <1>3, <1>5, <2>2, CleanBackfill DEF UserWrites
  <2>3. ASSUME NEW rows \in Drifts, Drift(rows) PROVE Clean'
    BY <1>3, <2>3, CleanDrift
  <2>4. ASSUME PressUndo \/ PressRedo PROVE Clean'
    BY <1>3, <2>4, PressIs, CleanSame
  <2>5. ASSUME Replay PROVE Clean'
    BY <1>1, <1>2, <1>3, <2>5, CleanReplay
  <2>6. ASSUME ReplayThrows PROVE Clean'
    BY <1>1, <1>3, <2>6, CleanThrows DEF Meeting
  <2> QED
    BY <1>5, <2>1, <2>2, <2>3, <2>4, <2>5, <2>6 DEF UndoNext
<1> QED
  BY <1>4, <1>5
-----------------------------------------------------------------------------
(***************************************************************************)
(* Why a replay may fail.                                                  *)
(***************************************************************************)
\* What is left when nothing more gets done waits for each other: what has
\* been put is home, and nobody is in the way at home.
LEMMA JamIsCircle ==
  ASSUME Shape, Meeting, Clean, drifted = {}, waiting # <<>>, Jammed(Target(waiting[1]))
  PROVE  InCircle(Target(waiting[1]))
<1> DEFINE replay == waiting[1]
           target == Target(replay)
<1>1. replay \in Line
  BY NextIs DEF Meeting
<1>2. IsTarget(target)
  <2> HIDE DEF replay
  <2> QED
    BY <1>1, TargetIs
<1>3. PICK end \in States(target) :
        end.todo # <<>> /\ Midway(page, target, end, {}) /\ Stuck(target, end)
  BY DEF Jammed
<1>4. /\ Home \in [Page -> Rows]
      /\ \A b \in Page : Home[b] = Turned(replay, page[b], b)
      /\ \A b \in Page : InTheWay(Home, b, Home[b], All) = {}
  BY HomeIsClear
<1>5. ASSUME NEW b \in Page
      PROVE  Home[b] = IF b \in DOMAIN target THEN Landing(page[b], target[b]) ELSE page[b]
  <2>1. Home[b] = Turned(replay, page[b], b)
    BY <1>4
  <2> HIDE DEF replay
  <2> QED
    BY <1>1, <2>1, TurnedIs
<1> HIDE DEF target, replay
<1> DEFINE S == {b \in DOMAIN target : In(b, end.todo)}
<1>6. end.todo \in Seq(DOMAIN target) /\ DOMAIN target \subseteq Page
  BY <1>2, <1>3 DEF States, IsTarget
<1>7. S \in (SUBSET DOMAIN target) \ {{}}
  <2>1. 1 \in DOMAIN end.todo /\ end.todo[1] \in DOMAIN target
    BY <1>3, <1>6
  <2>2. end.todo[1] \in S
    BY <2>1 DEF In
  <2> QED
    BY <2>2
\* What is still to do is as it was, the rest is home.
<1>8. \A b \in Page : end.rows[b] = IF b \in S THEN page[b] ELSE Home[b]
  BY <1>3, <1>5 DEF Midway
<1>9. ASSUME NEW b \in S PROVE InTheWay(page, b, target[b], All) \cap S # {}
  <2>1. PICK i \in DOMAIN end.todo : end.todo[i] = b
    BY DEF In
  <2>2. b \in DOMAIN target /\ b \in Page
    BY <1>6
  <2>3. PICK c : c \in InTheWay(end.rows, b, target[b], All)
    BY <1>3, <2>1 DEF Stuck, Blocked
  <2>4. /\ target[b] # NoRow /\ target[b].live /\ c \in Page \ {b}
        /\ \/ c = target[b].parent /\ end.rows[c] # NoRow /\ ~end.rows[c].live
           \/ /\ target[b].alias # NoAlias /\ end.rows[c] # NoRow /\ end.rows[c].live
              /\ end.rows[c].alias = target[b].alias
    BY <2>3 DEF InTheWay, Missing, Live
  <2>5. Home[b] = target[b]
    BY <1>5, <2>2, <2>4 DEF Landing
  <2>6. CASE c \notin S
    <3>1. end.rows[c] = Home[c]
      BY <1>8, <2>4, <2>6
    <3>2. c \in InTheWay(Home, b, Home[b], All)
      BY <2>4, <2>5, <3>1 DEF InTheWay, Missing, Live, All
    <3> QED
      BY <1>4, <2>2, <3>2
  <2>7. CASE c \in S
    <3>1. end.rows[c] = page[c]
      BY <1>8, <2>4, <2>7
    <3>2. c \in InTheWay(page, b, target[b], All)
      BY <2>4, <3>1 DEF InTheWay, Missing, Live, All
    <3> QED
      BY <2>7, <3>2
  <2> QED
    BY <2>6, <2>7
<1>10. InCircle(target)
  <2> HIDE DEF S
  <2> QED
    BY <1>7, <1>9 DEF InCircle
<1> QED
  BY <1>10 DEF target, replay

LEMMA NoThrow ==
  ASSUME Shape, Meeting, Clean, waiting # <<>>
  PROVE  ~Throws(page, Target(waiting[1]))
<1> DEFINE replay == waiting[1]
<1>1. replay \in Line /\ replay.back \in BOOLEAN /\ TidyEntry(page, replay.entry)
  BY NextIs, NextIsTidy DEF Meeting
<1> HIDE DEF replay
<1>2. /\ DOMAIN Target(replay) = DOMAIN replay.entry.snaps
      /\ \A b \in DOMAIN Target(replay) :
           Target(replay)[b] = IF replay.back THEN replay.entry.snaps[b].before
                               ELSE replay.entry.snaps[b].after
  BY <1>1, TargetIs
<1>3. ~Throws(page, Target(replay))
  BY <1>1, <1>2 DEF Throws, TidyEntry
<1> QED
  BY <1>3 DEF replay

LEMMA UndoInvStarts ==
  ASSUME UndoInit, Tidy(Paper)
  PROVE  UndoInv
BY ShapeStarts, MeetingStarts, CleanStarts DEF UndoInv

LEMMA UndoInvKept ==
  ASSUME UndoInv, [UndoNext]_undoVars, [UserWrites => TakesChildren]_undoVars
  PROVE  UndoInv'
<1>1. Shape /\ Shape'
  BY ShapeKept DEF UndoInv
<1>2. SUFFICES ASSUME ~raced' PROVE Meeting' /\ (drifted' = {} => Clean')
  BY <1>1 DEF UndoInv
<1>3. Meeting /\ (drifted = {} => Clean)
  BY <1>2, RacedStays DEF UndoInv
<1>4. Meeting'
  BY <1>1, <1>2, <1>3, MeetingKept
<1>5. ASSUME drifted' = {} PROVE Clean'
  BY <1>1, <1>2, <1>3, <1>5, CleanKept
<1> QED
  BY <1>4, <1>5

\* For any blocks, edits, sync, groups and depth: where the page the tab opens
\* on has passed the triggers and deletes take what is under a block with it,
\* an undo with nothing in between takes every block that sync has left alone
\* to the row it had before the entry's transactions, a redo to the one after
\* them, and it fails only over a block sync has written, or over blocks of
\* its own that wait for each other (Repo._replay, UndoManager.record).
THEOREM ReplaysAreExact ==
  ASSUME Tidy(Paper)
  PROVE  UndoSpec /\ DeletesTakeChildren => UndoIsExact
<1>1. UndoInit => UndoInv
  BY UndoInvStarts
<1>2. UndoInv /\ [UndoNext]_undoVars /\ [UserWrites => TakesChildren]_undoVars => UndoInv'
  BY UndoInvKept
<1> DEFINE Exact == 
             Replay /\ ~raced =>
               LET replay == Head(waiting)
                   meant == IF replay.back THEN replay.entry.from ELSE replay.entry.to
               IN \/ \A b \in Page \ drifted : Alike(page'[b], meant[b])
                  \/ page' = page /\ (drifted # {} \/ InCircle(Target(replay)))
<1>3. UndoInv => Exact
  <2> SUFFICES ASSUME UndoInv, Replay, ~raced
               PROVE  \/ \A b \in Page \ drifted : Alike(page'[b], Meant(Head(waiting))[b])
                      \/ page' = page /\ (drifted # {} \/ InCircle(Target(Head(waiting))))
    BY DEF Meant
  <2>1. Shape /\ Meeting /\ (drifted = {} => Clean)
    BY DEF UndoInv
  <2>2. /\ waiting # <<>> /\ Head(waiting) = waiting[1]
        /\ \/ \A b \in Page \ drifted : Alike(page'[b], Meant(waiting[1])[b])
           \/ page' = page /\ (Throws(page, Target(waiting[1])) \/ Jammed(Target(waiting[1])))
    BY <2>1, ReplayEnds
  <2>3. drifted = {} /\ (Throws(page, Target(waiting[1])) \/ Jammed(Target(waiting[1])))
          => InCircle(Target(waiting[1]))
    BY <2>1, <2>2, NoThrow, JamIsCircle
  <2> QED
    BY <2>2, <2>3
<1>4. UndoInv => [Exact]_undoVars
  BY <1>3
<1>5. UndoIsExact <=> [][Exact]_undoVars
  BY DEF UndoIsExact
<1> QED
  <2> HIDE DEF Exact
  <2> QED
    BY <1>1, <1>2, <1>4, <1>5, PTL DEF UndoSpec, DeletesTakeChildren
=============================================================================
