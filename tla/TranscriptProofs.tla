-------------------------- MODULE TranscriptProofs --------------------------
(***************************************************************************)
(* Theorems about Transcript, for every bound on rows, bubbles, markers    *)
(* and submissions.  The order is: what the operators on sequences return, *)
(* how a step changes the rows, types and order, bubbles, pairs.           *)
(***************************************************************************)
EXTENDS Transcript, SequenceTheorems, WellFoundedInduction, TLAPS

-----------------------------------------------------------------------------
(***************************************************************************)
(* The operators on sequences.                                             *)
(***************************************************************************)

\* A set of natural numbers that is not empty has a least element.
LEMMA LeastOfNaturals ==
  ASSUME NEW T, T \subseteq Nat, T # {}
  PROVE  \E x \in T : \A y \in T : x <= y
<1> DEFINE Less == {ss \in Nat \X Nat : ss[1] < ss[2]}
<1>1. IsWellFoundedOn(Less, Nat)
  BY NatLessThanWellFounded DEF OpToRel
<1>2. PICK x \in T : \A y \in T : ~(<<y, x>> \in Less)
  <2> HIDE DEF Less
  <2> QED BY <1>1, WFMin
<1>3. ASSUME NEW y \in T PROVE x <= y
  <2>1. ~(<<y, x>> \in Less) /\ x \in Nat /\ y \in Nat
    BY <1>2
  <2>2. ~(y < x)
    BY <2>1
  <2> QED BY <2>1, <2>2
<1>4. QED BY <1>3

\* new is old without some of its elements: f says where each of new comes from.
Thins(old, new, f) ==
  /\ f \in [1 .. Len(new) -> 1 .. Len(old)]
  /\ \A k \in 1 .. Len(new) : new[k] = old[f[k]]
  /\ \A k, l \in 1 .. Len(new) : k < l => f[k] < f[l]

\* One element taken out.
LEMMA WithoutOne ==
  ASSUME NEW S, NEW s \in Seq(S), NEW p \in 1 .. Len(s)
  PROVE  LET t == SubSeq(s, 1, p - 1) \o SubSeq(s, p + 1, Len(s))
         IN  /\ t \in Seq(S) /\ Len(t) = Len(s) - 1
             /\ \A k \in 1 .. Len(t) : t[k] = IF k < p THEN s[k] ELSE s[k + 1]
<1>1. PICK a : a = SubSeq(s, 1, p - 1)
  OBVIOUS
<1>2. PICK b : b = SubSeq(s, p + 1, Len(s))
  OBVIOUS
<1>3. p - 1 \in Nat /\ p + 1 \in Nat /\ Len(s) \in Nat /\ \A k \in 1 .. Len(s) : s[k] \in S
  OBVIOUS
<1>4. a \in Seq(S) /\ Len(a) = p - 1 /\ \A k \in 1 .. p - 1 : a[k] = s[k]
  BY <1>1, <1>3
<1>5. b \in Seq(S) /\ Len(b) = Len(s) - p /\ \A k \in 1 .. Len(s) - p : b[k] = s[p + k]
  BY <1>2, <1>3
<1>6. PICK t : t = a \o b
  OBVIOUS
<1>7. /\ t \in Seq(S) /\ Len(t) = Len(a) + Len(b)
      /\ \A k \in 1 .. Len(a) + Len(b) : t[k] = IF k <= Len(a) THEN a[k] ELSE b[k - Len(a)]
  BY <1>4, <1>5, <1>6, ConcatProperties
<1>8. Len(t) = Len(s) - 1
  BY <1>3, <1>4, <1>5, <1>7
<1>9. ASSUME NEW k \in 1 .. Len(t) PROVE t[k] = IF k < p THEN s[k] ELSE s[k + 1]
  <2>1. CASE k < p
    <3>1. k \in 1 .. p - 1 /\ k <= Len(a) /\ k \in 1 .. Len(a) + Len(b)
      BY <2>1, <1>3, <1>4, <1>5, <1>7
    <3> QED BY <3>1, <2>1, <1>4, <1>7
  <2>2. CASE k >= p
    <3>1. k - Len(a) \in 1 .. Len(s) - p /\ ~(k <= Len(a)) /\ k \in 1 .. Len(a) + Len(b)
      BY <2>2, <1>3, <1>4, <1>5, <1>7
    <3>2. p + (k - Len(a)) = k + 1
      BY <1>3, <1>4
    <3>3. t[k] = b[k - Len(a)] /\ b[k - Len(a)] = s[p + (k - Len(a))]
      BY <3>1, <1>5, <1>7
    <3>4. ~(k < p)
      BY <2>2, <1>3
    <3> QED BY <3>2, <3>3, <3>4
  <2> QED BY <2>1, <2>2, <1>3
<1> QED BY <1>1, <1>2, <1>6, <1>7, <1>8, <1>9

\* A prefix.
LEMMA Prefix ==
  ASSUME NEW S, NEW s \in Seq(S), NEW n \in 0 .. Len(s)
  PROVE  /\ SubSeq(s, 1, n) \in Seq(S) /\ Len(SubSeq(s, 1, n)) = n
         /\ \A k \in 1 .. n : SubSeq(s, 1, n)[k] = s[k]
<1>1. n \in Nat /\ Len(s) \in Nat /\ \A k \in 1 .. Len(s) : s[k] \in S
  OBVIOUS
<1> QED BY <1>1

\* Where a cut starts: at p or before it, outside of every pair.
LEMMA BoundaryIsOutside ==
  ASSUME NEW p \in 1 .. Len(rows), rows \in Seq(Rows)
  PROVE  /\ Boundary(p) \in 1 .. p
         /\ Boundary(p) > 1 => /\ ~IsResult(rows[Boundary(p)])
                               /\ ~IsInvocation(rows[Boundary(p) - 1])
<1> DEFINE InPair(q) == q > 1 /\ (IsResult(rows[q]) \/ IsInvocation(rows[q - 1]))
           Back == {n \in 0 .. p - 1 : ~InPair(p - n)}
           Right(q) == ~InPair(q) /\ \A r \in q + 1 .. p : InPair(r)
<1>1. p \in Nat /\ p >= 1
  OBVIOUS
<1>2. p - 1 \in Back
  <2>1. p - (p - 1) = 1
    BY <1>1
  <2> QED BY <2>1, <1>1
<1>3. PICK n \in Back : \A l \in Back : n <= l
  <2>1. Back \subseteq 0 .. p - 1 /\ Back # {}
    BY <1>2
  <2>2. 0 .. p - 1 \subseteq Nat
    BY <1>1
  <2> HIDE DEF Back
  <2> QED BY <2>1, <2>2, LeastOfNaturals
<1>4. p - n \in 1 .. p /\ ~InPair(p - n)
  BY <1>1, <1>3
<1>5. ASSUME NEW r \in (p - n) + 1 .. p PROVE InPair(r)
  <2>1. p - r \in 0 .. p - 1 /\ p - r < n /\ p - (p - r) = r
    BY <1>1, <1>4
  <2>2. n \in Nat /\ ~(p - r \in Back)
    <3>1. n \in 0 .. p - 1
      BY <1>3
    <3>2. n \in Nat /\ p - r \in Nat /\ ~(n <= p - r)
      BY <3>1, <2>1, <1>1
    <3> HIDE DEF Back
    <3> QED BY <3>2, <1>3
  <2>3. p - r \in 0 .. p - 1 /\ InPair(p - (p - r)) = InPair(r)
    BY <2>1
  <2> HIDE DEF InPair
  <2> QED BY <2>2, <2>3
<1>6. p - n \in 1 .. p /\ Right(p - n)
  <2> HIDE DEF InPair
  <2> QED BY <1>4, <1>5
<1>7. Boundary(p) = CHOOSE q \in 1 .. p : Right(q)
  BY DEF Boundary
<1>8. Boundary(p) \in 1 .. p /\ Right(Boundary(p))
  <2> HIDE DEF Right
  <2> QED BY <1>6, <1>7
<1> QED BY <1>8

\* The events that stay when a cut starts at idx are a prefix, anchored before idx.
LEMMA EventsBeforeIsAPrefix ==
  ASSUME NEW idx \in Nat, events \in Seq(Events)
  PROVE  /\ EventsBefore(idx) \in Seq(Events)
         /\ \A k \in 1 .. Len(EventsBefore(idx)) :
              /\ k \in 1 .. Len(events) /\ EventsBefore(idx)[k] = events[k]
              /\ events[k].anchor < idx
<1> DEFINE Far == {i \in 1 .. Len(events) : events[i].anchor >= idx}
           Least(i) == i \in Far /\ \A j \in Far : i <= j
<1>1. Len(events) \in Nat
  OBVIOUS
<1>2. \A k \in 1 .. Len(events) : events[k] \in Events
  OBVIOUS
<1>3. \A k \in 1 .. Len(events) : events[k].anchor \in Int
  BY <1>2 DEF Events
<1>4. CASE Far = {}
  <2>1. EventsBefore(idx) = SubSeq(events, 1, Len(events))
    BY <1>4 DEF EventsBefore
  <2>2. EventsBefore(idx) = events
    BY <2>1, SubSeqFull
  <2>3. \A k \in 1 .. Len(events) : events[k].anchor < idx
    BY <1>3, <1>4
  <2> QED BY <2>2, <2>3
<1>5. CASE Far # {}
  <2>1. \E i \in Far : Least(i)
    <3>1. Far \subseteq Nat
      BY <1>1
    <3> HIDE DEF Far
    <3> QED BY <3>1, <1>5, LeastOfNaturals
  <2>2. PICK c : c = CHOOSE i \in Far : \A j \in Far : i <= j
    OBVIOUS
  <2>3. Least(c)
    <3> HIDE DEF Far
    <3> QED BY <2>1, <2>2
  <2>4. EventsBefore(idx) = SubSeq(events, 1, c - 1)
    BY <1>5, <2>2 DEF EventsBefore
  <2>5. c - 1 \in 0 .. Len(events) /\ c \in Nat
    BY <2>3, <1>1
  <2>6. ASSUME NEW k \in 1 .. c - 1
        PROVE  k \in 1 .. Len(events) /\ events[k].anchor < idx
    BY <2>3, <2>5, <1>1, <1>3
  <2> HIDE DEF Far
  <2> QED BY <2>4, <2>5, <2>6, Prefix
<1> QED BY <1>4, <1>5

\* What EventsWithout() has kept of the first k events, for every k up to n.
Keeping(idx, n, g) ==
  g = [k \in 0 .. n |->
         IF k = 0 THEN <<>>
         ELSE IF events[k].anchor = idx THEN g[k - 1] ELSE Append(g[k - 1], events[k])]

LEMMA KeepingEnds ==
  ASSUME NEW idx, NEW m \in Nat
  PROVE  \E g : Keeping(idx, m, g)
<1> DEFINE Stuck == {n \in Nat : ~\E g : Keeping(idx, n, g)}
<1>1. SUFFICES ASSUME Stuck # {} PROVE FALSE
  OBVIOUS
<1>2. PICK n \in Stuck : \A l \in Stuck : n <= l
  <2>1. Stuck \subseteq Nat
    OBVIOUS
  <2> HIDE DEF Stuck
  <2> QED BY <1>1, <2>1, LeastOfNaturals
<1>3. n \in Nat /\ ~\E g : Keeping(idx, n, g)
  BY <1>2
<1>4. CASE n = 0
  <2>1. Keeping(idx, 0, [k \in 0 .. 0 |-> <<>>])
    BY DEF Keeping
  <2> QED BY <2>1, <1>3, <1>4
<1>5. CASE n # 0
  <2>1. n - 1 \in Nat /\ ~(n <= n - 1)
    BY <1>3, <1>5
  <2>2. ~(n - 1 \in Stuck)
    <3> HIDE DEF Stuck
    <3> QED BY <2>1, <1>2
  <2>3. PICK g : Keeping(idx, n - 1, g)
    BY <2>1, <2>2
  <2> DEFINE Last == IF events[n].anchor = idx THEN g[n - 1] ELSE Append(g[n - 1], events[n])
             h == [k \in 0 .. n |-> IF k = n THEN Last ELSE g[k]]
  <2>4. \A k \in 0 .. n - 1 :
          g[k] = IF k = 0 THEN <<>>
                 ELSE IF events[k].anchor = idx THEN g[k - 1] ELSE Append(g[k - 1], events[k])
    BY <2>1, <2>3 DEF Keeping
  <2>5. ASSUME NEW k \in 0 .. n
        PROVE  h[k] = IF k = 0 THEN <<>>
                      ELSE IF events[k].anchor = idx THEN h[k - 1] ELSE Append(h[k - 1], events[k])
    <3>1. CASE k = n
      <4>1. k - 1 \in 0 .. n /\ k - 1 # n /\ k # 0
        BY <3>1, <1>5, <2>1
      <4>2. h[k] = Last /\ h[k - 1] = g[k - 1]
        BY <4>1, <3>1
      <4> QED BY <4>1, <4>2, <3>1
    <3>2. CASE k # n
      <4>1. k \in 0 .. n - 1
        BY <3>2, <1>3
      <4>2. h[k] = g[k]
        BY <3>2
      <4>3. k # 0 => h[k - 1] = g[k - 1]
        <5>1. k # 0 => k - 1 \in 0 .. n /\ k - 1 # n
          BY <4>1, <1>3
        <5> QED BY <5>1
      <4> HIDE DEF h
      <4> QED BY <2>4, <4>1, <4>2, <4>3
    <3> QED BY <3>1, <3>2
  <2>6. h = [k \in 0 .. n |-> h[k]]
    OBVIOUS
  <2>7. Keeping(idx, n, h)
    <3> HIDE DEF h
    <3> QED BY <2>5, <2>6 DEF Keeping
  <2> QED BY <2>7, <1>3
<1> QED BY <1>4, <1>5

\* The events that stay when one row goes are events, anchored elsewhere.
LEMMA EventsWithoutAreEvents ==
  ASSUME NEW idx, events \in Seq(Events)
  PROVE  /\ EventsWithout(idx) \in Seq(Events)
         /\ \A k \in 1 .. Len(EventsWithout(idx)) : \E i \in 1 .. Len(events) :
              EventsWithout(idx)[k] = events[i] /\ events[i].anchor # idx
<1> DEFINE Stays(e) == \E i \in 1 .. Len(events) : e = events[i] /\ events[i].anchor # idx
           Good(t) == t \in Seq(Events) /\ \A k \in 1 .. Len(t) : Stays(t[k])
<1>1. PICK n \in Nat : n = Len(events)
  OBVIOUS
<1>2. PICK g : g = CHOOSE f : Keeping(idx, n, f)
  OBVIOUS
<1>3. EventsWithout(idx) = g[n]
  BY <1>1, <1>2 DEF EventsWithout, Keeping
<1>4. Keeping(idx, n, g)
  BY <1>2, KeepingEnds
<1>5. \A k \in 0 .. n :
        g[k] = IF k = 0 THEN <<>>
               ELSE IF events[k].anchor = idx THEN g[k - 1] ELSE Append(g[k - 1], events[k])
  BY <1>4 DEF Keeping
<1>6. \A k \in 0 .. n : Good(g[k])
  <2> DEFINE Bad == {k \in 0 .. n : ~Good(g[k])}
  <2>1. SUFFICES ASSUME Bad # {} PROVE FALSE
    <3> HIDE DEF Good
    <3> QED OBVIOUS
  <2>2. PICK k \in Bad : \A l \in Bad : k <= l
    <3>1. Bad \subseteq Nat
      <4> HIDE DEF Good
      <4> QED OBVIOUS
    <3> HIDE DEF Bad
    <3> QED BY <2>1, <3>1, LeastOfNaturals
  <2>3. k \in 0 .. n /\ ~Good(g[k])
    <3> HIDE DEF Good
    <3> QED BY <2>2
  <2>4. k # 0
    <3>1. Good(<<>>)
      OBVIOUS
    <3>2. g[0] = <<>>
      BY <1>1, <1>5
    <3> HIDE DEF Good
    <3> QED BY <2>3, <3>1, <3>2
  <2>5. k - 1 \in 0 .. n /\ ~(k <= k - 1) /\ k \in 1 .. Len(events)
    BY <2>3, <2>4, <1>1
  <2>6. ~(k - 1 \in Bad)
    <3> HIDE DEF Bad
    <3> QED BY <2>2, <2>5
  <2>7. Good(g[k - 1])
    <3> HIDE DEF Good
    <3> QED BY <2>5, <2>6
  <2>8. CASE events[k].anchor = idx
    <3>1. g[k] = g[k - 1]
      BY <2>3, <2>4, <2>8, <1>5
    <3> HIDE DEF Good
    <3> QED BY <3>1, <2>3, <2>7
  <2>9. CASE events[k].anchor # idx
    <3>1. g[k] = Append(g[k - 1], events[k])
      BY <2>3, <2>4, <2>9, <1>5
    <3>2. PICK t : t = g[k - 1]
      OBVIOUS
    <3>3. Good(t) /\ Stays(events[k]) /\ events[k] \in Events
      <4>1. Good(t)
        <5> HIDE DEF Good
        <5> QED BY <2>7, <3>2
      <4> QED BY <4>1, <2>5, <2>9
    <3>4. PICK u : u = Append(t, events[k])
      OBVIOUS
    <3>5. /\ u \in Seq(Events) /\ Len(u) = Len(t) + 1 /\ u[Len(t) + 1] = events[k]
          /\ \A l \in 1 .. Len(t) : u[l] = t[l]
      BY <3>3, <3>4, AppendProperties
    <3>6. ASSUME NEW l \in 1 .. Len(u) PROVE Stays(u[l])
      <4>1. Len(t) \in Nat
        BY <3>3
      <4>2. l \in 1 .. Len(t) \/ l = Len(t) + 1
        BY <4>1, <3>5
      <4> HIDE DEF Stays
      <4> QED BY <4>2, <3>3, <3>5
    <3>7. Good(u)
      <4> HIDE DEF Stays
      <4> QED BY <3>5, <3>6
    <3> HIDE DEF Good
    <3> QED BY <3>1, <3>2, <3>4, <3>7, <2>3
  <2> QED BY <2>8, <2>9
<1>7. Good(g[n])
  <2> HIDE DEF Good
  <2> QED BY <1>1, <1>6
<1> QED BY <1>3, <1>7

-----------------------------------------------------------------------------
(***************************************************************************)
(* What a step does to the rows: nothing, append one, take some away, or   *)
(* renumber the first ones, with or without a note behind them.            *)
(***************************************************************************)

Ascending ==
  /\ rows \in Seq(Rows)
  /\ \A i, j \in 1 .. Len(rows) : i < j => rows[i].idx < rows[j].idx

\* No two rows have one identity.
Numbered ==
  /\ born \in Nat
  /\ \A i \in 1 .. Len(rows) : rows[i].id \in 1 .. born
  /\ \A i, j \in 1 .. Len(rows) : i < j => rows[i].id < rows[j].id

RowsStay == rows' = rows /\ born' = born
RowAppended(kind, of) == AppendRow(NewRow(kind, of))
RowsThinned == rows' \in Seq(Rows) /\ born' = born /\ \E f : Thins(rows, rows', f)

\* The first n rows are the rows they were, but for their numbers, flags and kind; a note
\* may be behind them.
Renumbers(n) ==
  /\ rows' \in Seq(Rows)
  /\ \A k \in 1 .. Len(rows') : rows'[k].idx = k - 1
  /\ \A k \in 1 .. n : /\ rows'[k].id = rows[k].id /\ rows'[k].of = rows[k].of
                       /\ \/ rows'[k].kind = rows[k].kind
                          \/ IsResult(rows[k]) /\ rows'[k].kind = "note"
  /\ \/ Len(rows') = n /\ born' = born
     \/ /\ Len(rows') = n + 1 /\ born' = born + 1
        /\ rows'[n + 1].id = born + 1 /\ rows'[n + 1].of = 0 /\ rows'[n + 1].kind = "note"

\* Deleting one row.
LEMMA DeleteOneThins ==
  ASSUME NEW p \in 1 .. Len(rows), rows \in Seq(Rows), DeleteOne(p)
  PROVE  /\ rows' \in Seq(Rows) /\ Len(rows') = Len(rows) - 1
         /\ \A k \in 1 .. Len(rows') : rows'[k] = IF k < p THEN rows[k] ELSE rows[k + 1]
         /\ Thins(rows, rows', [k \in 1 .. Len(rows') |-> IF k < p THEN k ELSE k + 1])
<1>1. /\ rows' \in Seq(Rows) /\ Len(rows') = Len(rows) - 1
      /\ \A k \in 1 .. Len(rows') : rows'[k] = IF k < p THEN rows[k] ELSE rows[k + 1]
  BY WithoutOne DEF DeleteOne
<1>2. Len(rows) \in Nat /\ Len(rows') \in Nat
  BY <1>1
<1> DEFINE f == [k \in 1 .. Len(rows') |-> IF k < p THEN k ELSE k + 1]
<1>3. \A k \in 1 .. Len(rows') : f[k] \in 1 .. Len(rows)
  BY <1>1, <1>2
<1>4. \A k, l \in 1 .. Len(rows') : k < l => f[k] < f[l]
  BY <1>1, <1>2
<1>5. \A k \in 1 .. Len(rows') : rows'[k] = rows[f[k]]
  BY <1>1
<1>6. f \in [1 .. Len(rows') -> 1 .. Len(rows)]
  BY <1>3
<1>7. Thins(rows, rows', f)
  <2> HIDE DEF f
  <2> QED BY <1>4, <1>5, <1>6 DEF Thins
<1> QED BY <1>1, <1>7

\* Deleting from a row on.
LEMMA TruncateThins ==
  ASSUME NEW p \in 1 .. Len(rows), rows \in Seq(Rows), TruncateFrom(p)
  PROVE  /\ rows' \in Seq(Rows) /\ Len(rows') = Boundary(p) - 1
         /\ Boundary(p) \in 1 .. Len(rows)
         /\ \A k \in 1 .. Len(rows') : rows'[k] = rows[k]
         /\ Thins(rows, rows', [k \in 1 .. Len(rows') |-> k])
<1>1. PICK b \in 1 .. p : b = Boundary(p)
  BY BoundaryIsOutside
<1>2. b - 1 \in 0 .. Len(rows) /\ b \in 1 .. Len(rows) /\ Len(rows) \in Nat
  OBVIOUS
<1>3. rows' = SubSeq(rows, 1, b - 1)
  BY <1>1 DEF TruncateFrom
<1>4. /\ rows' \in Seq(Rows) /\ Len(rows') = b - 1
      /\ \A k \in 1 .. b - 1 : rows'[k] = rows[k]
  BY <1>2, <1>3, Prefix
<1>5. Thins(rows, rows', [k \in 1 .. Len(rows') |-> k])
  BY <1>2, <1>4 DEF Thins
<1> QED BY <1>1, <1>2, <1>4, <1>5

LEMMA EditThins ==
  ASSUME rows \in Seq(Rows), Edit
  PROVE  RowsThinned
<1>1. PICK p \in 1 .. Len(rows) : DeleteOne(p) \/ TruncateFrom(p)
  BY DEF Edit
<1> QED BY <1>1, DeleteOneThins, TruncateThins DEF RowsThinned, Edit

\* Rewriting changes numbers and flags.
LEMMA RewrittenRows ==
  ASSUME NEW seq \in Seq(Rows)
  PROVE  /\ Rewritten(seq) \in Seq(Rows) /\ Len(Rewritten(seq)) = Len(seq)
         /\ \A k \in 1 .. Len(seq) :
              /\ Rewritten(seq)[k].idx = k - 1 /\ Rewritten(seq)[k].id = seq[k].id
              /\ Rewritten(seq)[k].of = seq[k].of /\ Rewritten(seq)[k].kind = seq[k].kind
<1>1. Len(seq) \in Nat /\ \A k \in 1 .. Len(seq) : seq[k] \in Rows
  OBVIOUS
<1>3. ASSUME NEW k \in 1 .. Len(seq)
      PROVE  /\ Rewritten(seq)[k] \in Rows
             /\ Rewritten(seq)[k].idx = k - 1 /\ Rewritten(seq)[k].id = seq[k].id
             /\ Rewritten(seq)[k].of = seq[k].of /\ Rewritten(seq)[k].kind = seq[k].kind
  <2>1. k - 1 \in Nat /\ seq[k] \in Rows
    BY <1>1
  <2>4. (seq[k].kind \in {"operator", "result", "warning", "note"}) \in BOOLEAN
    OBVIOUS
  <2>2. PICK input : /\ input \in BOOLEAN
                     /\ input = (seq[k].kind \in {"operator", "result", "warning", "note"})
    BY <2>4
  <2>3. Rewritten(seq)[k] = [seq[k] EXCEPT !.idx = k - 1, !.input = input]
    BY <2>2 DEF Rewritten
  <2>5. /\ Rewritten(seq)[k].idx = k - 1 /\ Rewritten(seq)[k].id = seq[k].id
        /\ Rewritten(seq)[k].of = seq[k].of /\ Rewritten(seq)[k].kind = seq[k].kind
        /\ Rewritten(seq)[k] \in Rows
    BY <2>1, <2>2, <2>3 DEF Rows
  <2> QED BY <2>5
<1>4. Rewritten(seq) \in [1 .. Len(seq) -> Rows] /\ DOMAIN Rewritten(seq) = 1 .. Len(seq)
  BY <1>3 DEF Rewritten
<1>5. Rewritten(seq) \in Seq(Rows)
  BY <1>1, <1>4
<1> QED BY <1>1, <1>3, <1>4, <1>5

\* compact() keeps what is before a boundary, or every row.
LEMMA CompactRenumbers ==
  ASSUME rows \in Seq(Rows), born \in Nat, Compact
  PROVE  \/ Renumbers(Len(rows)) /\ born' = born
         \/ \E p \in 1 .. Len(rows) :
              /\ Boundary(p) \in 1 .. Len(rows) /\ Renumbers(Boundary(p) - 1)
              /\ Len(rows') = Boundary(p)
<1>1. Len(rows) \in Nat /\ \A k \in 1 .. Len(rows) : rows[k] \in Rows
  OBVIOUS
<1>2. CASE CompactLast
  <2>1. PICK p \in 1 .. Len(rows) : /\ IsResult(rows[p])
                                   /\ rows' = Rewritten([rows EXCEPT ![p].kind = "note"])
    BY <1>2 DEF CompactLast
  <2>2. PICK short : short = [rows EXCEPT ![p].kind = "note"]
    OBVIOUS
  <2>3. [rows[p] EXCEPT !.kind = "note"] \in Rows
    BY <1>1 DEF Rows, Kinds
  <2>4. /\ short \in Seq(Rows) /\ Len(short) = Len(rows)
        /\ \A k \in 1 .. Len(rows) :
             short[k] = IF k = p THEN [rows[k] EXCEPT !.kind = "note"] ELSE rows[k]
    BY <2>2, <2>3, <1>1
  <2>5. \A k \in 1 .. Len(rows) :
          /\ short[k].id = rows[k].id /\ short[k].of = rows[k].of
          /\ short[k].kind = rows[k].kind \/ (IsResult(rows[k]) /\ short[k].kind = "note")
    BY <2>1, <2>4, <1>1 DEF Rows
  <2>6. rows' = Rewritten(short) /\ born' = born
    BY <2>1, <2>2, <1>2 DEF CompactLast
  <2>7. /\ rows' \in Seq(Rows) /\ Len(rows') = Len(rows)
        /\ \A k \in 1 .. Len(rows) :
             /\ rows'[k].idx = k - 1 /\ rows'[k].id = short[k].id
             /\ rows'[k].of = short[k].of /\ rows'[k].kind = short[k].kind
    BY <2>4, <2>6, RewrittenRows
  <2>8. Renumbers(Len(rows))
    BY <2>5, <2>6, <2>7 DEF Renumbers
  <2> QED BY <2>6, <2>8
<1>3. ASSUME NEW p \in 1 .. Len(rows), CompactFrom(p)
      PROVE  /\ Boundary(p) \in 1 .. Len(rows) /\ Renumbers(Boundary(p) - 1)
             /\ Len(rows') = Boundary(p)
  <2>1. PICK note : note = [NoRow EXCEPT !.id = born + 1]
    OBVIOUS
  <2>2. note \in Rows /\ note.id = born + 1 /\ note.of = 0 /\ note.kind = "note"
    <3>1. born + 1 \in Nat
      OBVIOUS
    <3>2. NoRow \in Rows /\ NoRow.of = 0 /\ NoRow.kind = "note"
      BY DEF NoRow, Rows, Kinds
    <3> QED BY <3>1, <3>2, <2>1 DEF Rows
  <2>3. PICK b \in 1 .. p : b = Boundary(p)
    BY BoundaryIsOutside
  <2>4. b \in 1 .. Len(rows) /\ b - 1 \in 0 .. Len(rows) /\ b \in Nat
    BY <1>1
  <2>5. PICK kept : kept = SubSeq(rows, 1, b - 1)
    OBVIOUS
  <2>6. kept \in Seq(Rows) /\ Len(kept) = b - 1 /\ \A k \in 1 .. b - 1 : kept[k] = rows[k]
    BY <2>4, <2>5, Prefix
  <2>7. PICK seq : seq = Append(kept, note)
    OBVIOUS
  <2>8. /\ seq \in Seq(Rows) /\ Len(seq) = b /\ seq[b] = note
        /\ \A k \in 1 .. b - 1 : seq[k] = rows[k]
    BY <2>2, <2>4, <2>6, <2>7
  <2>9. rows' = Rewritten(seq) /\ born' = born + 1
    BY <1>3, <2>1, <2>3, <2>5, <2>7 DEF CompactFrom
  <2>10. /\ rows' \in Seq(Rows) /\ Len(rows') = b
         /\ \A k \in 1 .. b : /\ rows'[k].idx = k - 1 /\ rows'[k].id = seq[k].id
                             /\ rows'[k].of = seq[k].of /\ rows'[k].kind = seq[k].kind
    BY <2>8, <2>9, RewrittenRows
  <2>11. Renumbers(b - 1)
    <3>1. (b - 1) + 1 = b /\ b \in 1 .. b /\ \A k \in 1 .. b - 1 : k \in 1 .. b
      BY <2>4
    <3> QED BY <3>1, <2>2, <2>8, <2>9, <2>10 DEF Renumbers
  <2> QED BY <2>3, <2>4, <2>10, <2>11
<1> QED BY <1>2, <1>3 DEF Compact, CompactLast

LEMMA RenumberedIsAscending ==
  ASSUME Ascending, Numbered, NEW n \in 0 .. Len(rows), Renumbers(n)
  PROVE  Ascending' /\ Numbered'
<1>1. Len(rows) \in Nat /\ n \in Nat /\ Len(rows') \in Nat /\ \A k \in 1 .. n : k \in 1 .. Len(rows)
  BY DEF Ascending, Renumbers
<1>2. Ascending'
  BY <1>1 DEF Ascending, Renumbers
<1>3. born' \in Nat /\ born <= born' /\ born \in Nat
  BY DEF Numbered, Renumbers
<1>4. ASSUME NEW i \in 1 .. Len(rows') PROVE rows'[i].id \in 1 .. born'
  <2>1. CASE i \in 1 .. n
    BY <2>1, <1>1, <1>3 DEF Numbered, Renumbers
  <2>2. CASE i \notin 1 .. n
    BY <2>2, <1>1, <1>3 DEF Renumbers
  <2> QED BY <2>1, <2>2
<1>5. ASSUME NEW i \in 1 .. Len(rows'), NEW j \in 1 .. Len(rows'), i < j
      PROVE  rows'[i].id < rows'[j].id
  <2>1. i \in 1 .. n /\ rows'[i].id = rows[i].id /\ rows[i].id <= born
    BY <1>1, <1>5 DEF Numbered, Renumbers
  <2>2. CASE j \in 1 .. n
    BY <2>1, <2>2, <1>1, <1>5 DEF Numbered, Renumbers
  <2>3. CASE j \notin 1 .. n
    <3>1. rows'[j].id = born + 1
      BY <2>3, <1>1 DEF Renumbers
    <3> QED BY <3>1, <2>1, <1>3, <1>1 DEF Numbered
  <2> QED BY <2>2, <2>3
<1> QED BY <1>2, <1>3, <1>4, <1>5 DEF Numbered

\* What is left of an ascending, numbered transcript is both.
LEMMA ThinnedIsAscending ==
  ASSUME Ascending, Numbered, RowsThinned
  PROVE  Ascending' /\ Numbered'
<1>1. PICK f : Thins(rows, rows', f)
  BY DEF RowsThinned
<1>2. \A k \in 1 .. Len(rows') : f[k] \in 1 .. Len(rows) /\ rows'[k] = rows[f[k]]
  BY <1>1 DEF Thins
<1>3. \A k, l \in 1 .. Len(rows') : k < l => f[k] < f[l]
  BY <1>1 DEF Thins
<1> QED BY <1>2, <1>3 DEF Ascending, Numbered, RowsThinned

\* The new row.
LEMMA NewRowTyped ==
  ASSUME Ascending, Numbered, NEW kind \in Kinds, NEW of \in Nat
  PROVE  /\ NewRow(kind, of) \in Rows
         /\ NewRow(kind, of).idx = NextIdx /\ NewRow(kind, of).id = born + 1
         /\ NewRow(kind, of).kind = kind /\ NewRow(kind, of).of = of
         /\ \A i \in 1 .. Len(rows) : rows[i].idx < NextIdx
<1>1. \A i \in 1 .. Len(rows) : rows[i] \in Rows /\ rows[i].idx \in Nat
  <2>1. \A i \in 1 .. Len(rows) : rows[i] \in Rows
    BY DEF Ascending
  <2> QED BY <2>1 DEF Rows
<1>2. Len(rows) \in Nat
  BY DEF Ascending
<1>3. NextIdx \in Nat /\ \A i \in 1 .. Len(rows) : rows[i].idx < NextIdx
  <2>1. CASE rows = <<>>
    BY <2>1 DEF NextIdx
  <2>2. CASE rows # <<>>
    <3>1. Len(rows) \in 1 .. Len(rows)
      BY <2>2, <1>2 DEF Ascending
    <3>2. NextIdx = rows[Len(rows)].idx + 1
      BY <2>2 DEF NextIdx
    <3>3. ASSUME NEW i \in 1 .. Len(rows) PROVE rows[i].idx < NextIdx
      <4>1. i < Len(rows) \/ i = Len(rows)
        BY <1>2
      <4>2. rows[i].idx < rows[Len(rows)].idx \/ i = Len(rows)
        BY <4>1, <3>1 DEF Ascending
      <4>3. rows[i].idx \in Nat /\ rows[Len(rows)].idx \in Nat
        BY <3>1, <1>1
      <4> QED BY <4>2, <4>3, <3>2
    <3> QED BY <3>1, <3>2, <3>3, <1>1
  <2> QED BY <2>1, <2>2
<1>4. born + 1 \in Nat
  BY DEF Numbered
<1> QED BY <1>3, <1>4 DEF NewRow, Rows

LEMMA Appended ==
  ASSUME Ascending, Numbered, NEW kind \in Kinds, NEW of \in Nat, RowAppended(kind, of)
  PROVE  /\ rows' \in Seq(Rows) /\ Len(rows') = Len(rows) + 1 /\ born' = born + 1
         /\ \A i \in 1 .. Len(rows) : rows'[i] = rows[i]
         /\ rows'[Len(rows')] = NewRow(kind, of)
         /\ \A i \in 1 .. Len(rows') : i \in 1 .. Len(rows) \/ i = Len(rows')
<1>1. rows' = Append(rows, NewRow(kind, of)) /\ born' = born + 1
  BY DEF RowAppended, AppendRow
<1>2. NewRow(kind, of) \in Rows
  BY NewRowTyped
<1>3. rows \in Seq(Rows) /\ Len(rows) \in Nat
  BY DEF Ascending
<1>4. /\ rows' \in Seq(Rows) /\ Len(rows') = Len(rows) + 1
      /\ \A i \in 1 .. Len(rows) : rows'[i] = rows[i]
      /\ rows'[Len(rows) + 1] = NewRow(kind, of)
  BY <1>1, <1>2, <1>3, AppendProperties
<1> QED BY <1>1, <1>3, <1>4

LEMMA AppendedIsAscending ==
  ASSUME Ascending, Numbered, NEW kind \in Kinds, NEW of \in Nat, RowAppended(kind, of)
  PROVE  Ascending' /\ Numbered'
<1>1. /\ rows' \in Seq(Rows) /\ Len(rows') = Len(rows) + 1 /\ born' = born + 1
      /\ \A i \in 1 .. Len(rows) : rows'[i] = rows[i]
      /\ rows'[Len(rows')] = NewRow(kind, of)
      /\ \A i \in 1 .. Len(rows') : i \in 1 .. Len(rows) \/ i = Len(rows')
  BY Appended
<1>2. /\ NewRow(kind, of).idx = NextIdx /\ NewRow(kind, of).id = born + 1
      /\ \A i \in 1 .. Len(rows) : rows[i].idx < NextIdx
  BY NewRowTyped
<1>3. Len(rows) \in Nat /\ born \in Nat
  BY DEF Ascending, Numbered
<1>4. Ascending'
  BY <1>1, <1>2, <1>3 DEF Ascending
<1>5. Numbered'
  BY <1>1, <1>2, <1>3 DEF Numbered
<1> QED BY <1>4, <1>5

-----------------------------------------------------------------------------
(***************************************************************************)
(* Types, and the order of the rows.                                       *)
(***************************************************************************)

Items == {"thought", "prose", "warning", "again"} \cup MarkerKinds

\* Whoever works on an item has not dropped it yet.
WithinPlan == at \in {"bubble", "action", "result", "warned"} => plan # <<>>

\* TypeOK but for the rows, and the invariant about rows.
Ranges ==
  /\ events \in Seq(Events)
  /\ patient \in BOOLEAN
  /\ Room(0)
  /\ at \in {"idle", "model", "plan", "bubble", "action", "result", "warned"}
  /\ plan \in Seq(Items)
  /\ current \in Rows /\ aborted \in BOOLEAN
  /\ posting \subseteq Rows
  /\ cutIn \in 0 .. Interjections
  /\ WithinPlan

RowInv == Ascending /\ Numbered /\ Ranges

LEMMA RowInvTypes == RowInv => TypeOK
  BY DEF RowInv, Ascending, Numbered, Ranges, TypeOK, Items

\* Whatever the model answers is a plan.
LEMMA AnswersAreItems == Answers \subseteq Seq(Items)
<1>1. ASSUME NEW item \in Items, NEW o \in Optional(item) PROVE o \in Seq(Items)
  <2>1. o = <<>> \/ o = <<item>>
    BY DEF Optional
  <2>2. <<>> \in Seq(Items) /\ <<item>> \in Seq(Items)
    OBVIOUS
  <2> QED BY <2>1, <2>2
<1>2. \A c \in Calls : c \in Seq(Items)
  BY DEF Calls, Items
<1>3. Actions \subseteq Seq(Items)
  <2>1. ASSUME NEW c \in Calls, NEW w \in Optional("warning") PROVE c \o w \in Seq(Items)
    <3>1. c \in Seq(Items) /\ w \in Seq(Items)
      BY <1>1, <1>2 DEF Items
    <3> QED BY <3>1
  <2>2. ASSUME NEW x \in Actions PROVE \E c \in Calls, w \in Optional("warning") : x = c \o w
    BY DEF Actions
  <2> QED BY <2>1, <2>2
<1>4. ASSUME NEW t \in Optional("thought"), NEW p \in Optional("prose")
      PROVE  t \in Seq(Items) /\ p \in Seq(Items) /\ t \o p \in Seq(Items)
  <2>1. t \in Seq(Items) /\ p \in Seq(Items)
    BY <1>1 DEF Items
  <2> QED BY <2>1
<1>5. ASSUME NEW t \in Optional("thought"), NEW p \in Optional("prose"), NEW a \in Actions
      PROVE  t \o p \o a \o <<"again">> \in Seq(Items)
  <2>1. PICK tp \in Seq(Items) : tp = t \o p
    BY <1>4
  <2>2. a \in Seq(Items) /\ <<"again">> \in Seq(Items)
    BY <1>3 DEF Items
  <2>3. tp \o a \in Seq(Items)
    BY <2>2
  <2>4. (tp \o a) \o <<"again">> \in Seq(Items)
    BY <2>2, <2>3, ConcatProperties
  <2> QED BY <2>1, <2>4
<1>6. ASSUME NEW x \in Answers
      PROVE  \/ \E t \in Optional("thought"), p \in Optional("prose") : x = t \o p
             \/ \E t \in Optional("thought"), p \in Optional("prose"), a \in Actions :
                  x = t \o p \o a \o <<"again">>
  BY DEF Answers
<1>7. ASSUME NEW x \in Answers PROVE x \in Seq(Items)
  <2>1. CASE \E t \in Optional("thought"), p \in Optional("prose") : x = t \o p
    BY <2>1, <1>4
  <2>2. CASE \E t \in Optional("thought"), p \in Optional("prose"), a \in Actions :
               x = t \o p \o a \o <<"again">>
    BY <2>2, <1>5
  <2> QED BY <2>1, <2>2, <1>6
<1> QED BY <1>7

LEMMA KindsOfItems == MarkerKinds \subseteq Kinds /\ NoRow \in Rows /\ Unanchored \in Events
  BY ConstantsAssumption DEF Kinds, NoRow, Rows, Unanchored, Events

\* A step of the turn, and what an operator does beside it, leaves the rows or appends one.
LEMMA ActingRows ==
  ASSUME RowInv, TurnStep \/ OperatorStep
  PROVE  RowsStay \/ \E kind \in Kinds, of \in Nat : RowAppended(kind, of)
<1> USE DEF RowsStay, RowAppended
<1>1. CASE TurnStep
  <2>1. ItemIs({"prose", "html"}) => Head(plan) \in Kinds
    BY DEF ItemIs, Kinds
  <2>2. ItemIs({"call", "plain"}) => Head(plan) \in Kinds
    BY DEF ItemIs, Kinds
  <2>3. ASSUME AppendShown PROVE RowAppended(Head(plan), 0) /\ Head(plan) \in Kinds
    BY <2>1, <2>3 DEF AppendShown, AppendRow
  <2>4. ASSUME AppendCall PROVE RowAppended(Head(plan), 0) /\ Head(plan) \in Kinds
    BY <2>2, <2>4 DEF AppendCall, AppendRow
  <2>5. ASSUME AppendResult PROVE RowAppended("result", current.id) /\ current.id \in Nat
    BY <2>5 DEF AppendResult, RowInv, Ranges, Rows
  <2>6. ASSUME WarnModel PROVE RowAppended("warning", 0)
    BY <2>6 DEF WarnModel
  <2>7. {"result", "warning"} \subseteq Kinds /\ 0 \in Nat
    BY DEF Kinds
  <2>8. ASSUME \/ TurnStarts \/ TurnThrows \/ PlanEnds
               \/ \E answer \in Answers : ModelAnswers(answer)
               \/ AppendThought \/ ActionEnds \/ BubbleEnds \/ WarnOperator
        PROVE  RowsStay
    BY <2>8 DEF TurnStarts, TurnThrows, PlanEnds, ModelAnswers, AppendThought, ActionEnds,
                BubbleEnds, WarnOperator
  <2> HIDE DEF RowAppended, RowsStay
  <2> QED BY <1>1, <2>3, <2>4, <2>5, <2>6, <2>7, <2>8 DEF TurnStep
<1>2. CASE OperatorStep
  <2>1. ASSUME Submit PROVE RowAppended("operator", 0)
    BY <2>1 DEF Submit
  <2>2. ASSUME BubblePosted \/ Abort PROVE RowsStay
    BY <2>2 DEF BubblePosted, Abort
  <2>3. "operator" \in Kinds /\ 0 \in Nat
    BY DEF Kinds
  <2> HIDE DEF RowAppended, RowsStay
  <2> QED BY <1>2, <2>1, <2>2, <2>3 DEF OperatorStep
<1> QED BY <1>1, <1>2

\* Every step but a compaction leaves the rows, appends one or takes some away.
LEMMA RowSteps ==
  ASSUME RowInv, [Next]_vars
  PROVE  \/ RowsStay
         \/ \E kind \in Kinds, of \in Nat : RowAppended(kind, of)
         \/ RowsThinned
         \/ Compact
<1>1. UNCHANGED vars \/ Crash => RowsStay
  BY DEF vars, Crash, RowsStay
<1>2. Edit => RowsThinned
  BY EditThins DEF RowInv, Ascending
<1> QED BY <1>1, <1>2, ActingRows DEF Next

LEMMA RowsKept ==
  ASSUME RowInv, [Next]_vars
  PROVE  Ascending' /\ Numbered'
<1>1. RowsStay => Ascending' /\ Numbered'
  BY DEF RowsStay, RowInv, Ascending, Numbered
<1>2. RowsThinned => Ascending' /\ Numbered'
  BY ThinnedIsAscending DEF RowInv
<1>3. ASSUME NEW kind \in Kinds, NEW of \in Nat, RowAppended(kind, of)
      PROVE  Ascending' /\ Numbered'
  BY <1>3, AppendedIsAscending DEF RowInv
<1>4. CASE Compact
  <2>1. rows \in Seq(Rows) /\ born \in Nat /\ Len(rows) \in Nat
    BY DEF RowInv, Ascending, Numbered
  <2>2. PICK n \in 0 .. Len(rows) : Renumbers(n)
    <3>1. \A p \in 1 .. Len(rows) :
            Boundary(p) \in 1 .. Len(rows) => Boundary(p) - 1 \in 0 .. Len(rows)
      BY <2>1
    <3>2. Len(rows) \in 0 .. Len(rows)
      BY <2>1
    <3> QED BY <3>1, <3>2, <2>1, <1>4, CompactRenumbers
  <2> QED BY <2>2, RenumberedIsAscending DEF RowInv
<1> QED BY <1>1, <1>2, <1>3, <1>4, RowSteps

\* The variables that are not about the rows.
RestOf == <<events, at, plan, current, aborted, posting, cutIn>>

LEMMA RoomKept ==
  ASSUME RowInv, [Next]_vars
  PROVE  Room(0)' /\ patient' = patient
<1>1. patient' = patient
  BY DEF Next, vars
<1>2. born \in Nat /\ Room(0)
  BY DEF RowInv, Numbered, Ranges
<1>3. CASE born' = born
  BY <1>1, <1>2, <1>3 DEF Room
<1>4. CASE Room(1) /\ born' = born + 1
  BY <1>1, <1>2, <1>4 DEF Room
<1>5. CASE Room(2) /\ born' = born + 1
  <2>1. PatientBorn \in Nat /\ MaxBorn \in Nat
    BY ConstantsAssumption
  <2> QED BY <2>1, <1>1, <1>2, <1>5 DEF Room
<1>6. \/ born' = born
      \/ Room(1) /\ born' = born + 1
      \/ Room(2) /\ born' = born + 1
  <2>1. UNCHANGED vars \/ Crash \/ Edit \/ BubblePosted \/ Abort => born' = born
    BY DEF vars, Crash, Edit, BubblePosted, Abort
  <2>2. \/ TurnStarts \/ TurnThrows \/ PlanEnds \/ AppendThought \/ ActionEnds \/ BubbleEnds
        \/ WarnOperator \/ \E answer \in Answers : ModelAnswers(answer)
        => born' = born
    BY DEF TurnStarts, TurnThrows, PlanEnds, ModelAnswers, AppendThought, ActionEnds,
           BubbleEnds, WarnOperator
  <2>3. AppendShown \/ AppendResult \/ WarnModel => Room(1) /\ born' = born + 1
    BY DEF AppendShown, AppendResult, WarnModel, AppendRow
  <2>4. AppendCall => Room(2) /\ born' = born + 1
    BY DEF AppendCall, AppendRow
  <2>5. Submit => born' = born + 1 /\ (Room(1) \/ Room(2))
    BY DEF Submit, AppendRow
  <2>6. Compact => born' = born \/ (Room(2) /\ born' = born + 1)
    BY DEF Compact, CompactLast, CompactFrom
  <2> QED BY <2>1, <2>2, <2>3, <2>4, <2>5, <2>6 DEF Next, TurnStep, OperatorStep
<1> QED BY <1>1, <1>3, <1>4, <1>5, <1>6

\* The ranges a step of the turn can disturb.
LEMMA TurnRanges ==
  ASSUME RowInv, TurnStep
  PROVE  /\ events' \in Seq(Events)
         /\ at' \in {"idle", "model", "plan", "bubble", "action", "result", "warned"}
         /\ plan' \in Seq(Items) /\ current' \in Rows /\ aborted' \in BOOLEAN
         /\ posting' = posting /\ cutIn' \in 0 .. Interjections
         /\ WithinPlan'
<1> DEFINE Kept == /\ events' \in Seq(Events)
                   /\ at' \in {"idle", "model", "plan", "bubble", "action", "result", "warned"}
                   /\ plan' \in Seq(Items) /\ current' \in Rows /\ aborted' \in BOOLEAN
                   /\ posting' = posting /\ cutIn' \in 0 .. Interjections
                   /\ WithinPlan'
<1> USE DEF WithinPlan
<1>1. /\ events \in Seq(Events) /\ plan \in Seq(Items) /\ current \in Rows
      /\ aborted \in BOOLEAN /\ cutIn \in 0 .. Interjections
      /\ at \in {"idle", "model", "plan", "bubble", "action", "result", "warned"} /\ WithinPlan
  BY DEF RowInv, Ranges
<1>2. plan # <<>> => Tail(plan) \in Seq(Items)
  BY <1>1
<1>3. NoRow \in Rows /\ Unanchored \in Events /\ <<>> \in Seq(Items)
  BY KindsOfItems
<1>4. BubbleOf(current) \in Events
  BY <1>1 DEF BubbleOf, Rows, Events
<1>5. ASSUME NEW e \in Events PROVE Append(events, e) \in Seq(Events)
  BY <1>1
<1>6. ASSUME NEW kind \in Kinds PROVE NewRow(kind, 0) \in Rows
  BY NewRowTyped DEF RowInv
<1>7. CASE TurnStarts
  BY <1>7, <1>1 DEF TurnStarts
<1>8. CASE \E answer \in Answers : ModelAnswers(answer)
  BY <1>8, <1>1, AnswersAreItems DEF ModelAnswers
<1>9. CASE TurnThrows
  BY <1>9, <1>1, <1>3 DEF TurnThrows
<1>10. CASE PlanEnds
  <2>1. (aborted /\ plan # <<>>) \in BOOLEAN
    OBVIOUS
  <2> QED BY <2>1, <1>10, <1>1, <1>3 DEF PlanEnds
<1>11. CASE AppendThought
  BY <1>11, <1>1, <1>2, <1>3, <1>5 DEF AppendThought, ItemIs
<1>12. CASE AppendShown
  <2>1. Head(plan) \in Kinds /\ plan # <<>>
    BY <1>12 DEF AppendShown, ItemIs, Kinds
  <2> QED BY <2>1, <1>12, <1>1, <1>6 DEF AppendShown
<1>13. CASE AppendCall
  <2>1. Head(plan) \in Kinds /\ plan # <<>>
    BY <1>13 DEF AppendCall, ItemIs, Kinds
  <2> QED BY <2>1, <1>13, <1>1, <1>6 DEF AppendCall
<1>14. CASE ActionEnds
  BY <1>14, <1>1 DEF ActionEnds
<1>15. CASE BubbleEnds
  <2>1. Tail(plan) \in Seq(Items)
    BY <1>15, <1>1, <1>2 DEF BubbleEnds
  <2> QED BY <2>1, <1>15, <1>1, <1>3, <1>4, <1>5 DEF BubbleEnds
<1>16. CASE AppendResult
  <2>1. Tail(plan) \in Seq(Items)
    BY <1>16, <1>1, <1>2 DEF AppendResult
  <2>2. 0 \in 0 .. Interjections
    BY ConstantsAssumption
  <2> QED BY <2>1, <2>2, <1>16, <1>1, <1>3 DEF AppendResult
<1>17. CASE WarnOperator
  BY <1>17, <1>1, <1>3, <1>5 DEF WarnOperator, ItemIs
<1>18. CASE WarnModel
  <2>1. Tail(plan) \in Seq(Items)
    BY <1>18, <1>1, <1>2 DEF WarnModel
  <2> QED BY <2>1, <1>18, <1>1 DEF WarnModel
<1> HIDE DEF Kept, WithinPlan
<1> QED BY <1>7, <1>8, <1>9, <1>10, <1>11, <1>12, <1>13, <1>14, <1>15, <1>16, <1>17, <1>18
        DEF TurnStep

LEMMA RangesKept ==
  ASSUME RowInv, [Next]_vars
  PROVE  Ranges'
<1>1. Room(0)' /\ patient' \in BOOLEAN
  BY RoomKept DEF RowInv, Ranges
<1>2. /\ events \in Seq(Events) /\ plan \in Seq(Items) /\ current \in Rows /\ posting \subseteq Rows
      /\ aborted \in BOOLEAN /\ cutIn \in 0 .. Interjections /\ WithinPlan
      /\ at \in {"idle", "model", "plan", "bubble", "action", "result", "warned"}
  BY DEF RowInv, Ranges
<1>3. CASE UNCHANGED vars
  BY <1>1, <1>2, <1>3 DEF vars, Ranges, WithinPlan
<1>4. CASE TurnStep
  BY <1>1, <1>2, <1>4, TurnRanges DEF Ranges
<1>5. CASE Submit
  <2>1. NewRow("operator", 0) \in Rows
    BY NewRowTyped DEF RowInv, Kinds
  <2>2. cutIn' \in 0 .. Interjections
    BY <1>2, <1>5, ConstantsAssumption DEF Submit
  <2>3. posting' \subseteq Rows
    BY <2>1, <1>5 DEF Submit
  <2> QED BY <2>2, <2>3, <1>1, <1>2, <1>5 DEF Submit, Ranges, WithinPlan
<1>6. CASE BubblePosted
  <2>1. PICK row \in posting : posting' = posting \ {row} /\ events' = Append(events, BubbleOf(row))
    BY <1>6 DEF BubblePosted
  <2>2. BubbleOf(row) \in Events
    BY <1>2 DEF BubbleOf, Rows, Events
  <2>3. events' \in Seq(Events)
    BY <2>1, <2>2, <1>2
  <2> QED BY <2>1, <2>3, <1>1, <1>2, <1>6 DEF BubblePosted, Ranges, WithinPlan
<1>7. CASE Abort
  BY <1>1, <1>2, <1>7 DEF Abort, Ranges, WithinPlan
<1>8. CASE Edit
  <2>1. PICK p \in 1 .. Len(rows) : DeleteOne(p) \/ TruncateFrom(p)
    BY <1>8 DEF Edit
  <2>2. rows \in Seq(Rows)
    BY DEF RowInv, Ascending
  <2>3. ASSUME DeleteOne(p) PROVE events' \in Seq(Events)
    BY <2>3, <1>2, EventsWithoutAreEvents DEF DeleteOne
  <2>4. ASSUME TruncateFrom(p) PROVE events' \in Seq(Events)
    <3>1. PICK idx : idx = rows[Boundary(p)].idx
      OBVIOUS
    <3>2. idx \in Nat
      <4>1. Boundary(p) \in 1 .. Len(rows)
        BY <2>2, <2>4, TruncateThins
      <4>2. rows[Boundary(p)] \in Rows
        BY <2>2, <4>1
      <4> QED BY <4>2, <3>1 DEF Rows
    <3> QED BY <3>1, <3>2, <2>4, <1>2, EventsBeforeIsAPrefix DEF TruncateFrom
  <2> QED BY <2>1, <2>3, <2>4, <1>1, <1>2, <1>8 DEF Edit, Ranges, WithinPlan
<1>9. CASE Crash
  <2>1. <<>> \in Seq(Items) /\ 0 \in 0 .. Interjections /\ NoRow \in Rows
    BY ConstantsAssumption, KindsOfItems
  <2> QED BY <2>1, <1>1, <1>2, <1>9 DEF Crash, Ranges, WithinPlan
<1>10. CASE Compact
  BY <1>1, <1>2, <1>10 DEF Compact, Ranges, WithinPlan
<1> QED BY <1>3, <1>4, <1>5, <1>6, <1>7, <1>8, <1>9, <1>10 DEF Next, OperatorStep

LEMMA RowInvInit == Init => RowInv
<1>1. ASSUME Init PROVE Ascending /\ Numbered
  BY <1>1 DEF Init, Ascending, Numbered
<1>2. ASSUME Init PROVE Ranges
  <2>1. Room(0)
    BY <1>2, ConstantsAssumption DEF Init, Room
  <2>2. <<>> \in Seq(Events) /\ <<>> \in Seq(Items) /\ 0 \in 0 .. Interjections /\ NoRow \in Rows
    BY KindsOfItems, ConstantsAssumption
  <2> QED BY <2>1, <2>2, <1>2 DEF Init, Ranges, WithinPlan
<1> QED BY <1>1, <1>2 DEF RowInv

LEMMA RowInvKept == RowInv /\ [Next]_vars => RowInv'
  BY RowsKept, RangesKept DEF RowInv

LEMMA RowInvHolds == Spec => []RowInv
  BY RowInvInit, RowInvKept, PTL DEF Spec

\* Every variable stays in its range and the rows stay ordered by idx, whatever operators
\* edit, the agent compacts and whenever the process dies.
THEOREM TypeCorrect == Spec => []TypeOK
  BY RowInvHolds, RowInvTypes, PTL

\* A row that a step leaves in the transcript is the same row: deleting and truncating
\* renumber nothing and change no flag, and only a compaction does.
THEOREM SurvivorsKeepTheirRows == Spec => SurvivorsUnchanged
<1> DEFINE Same == \A i \in 1 .. Len(rows) : \A j \in 1 .. Len(rows') :
                     rows[i].id = rows'[j].id => rows[i] = rows'[j]
<1>1. ASSUME RowInv, [Next]_vars, ~Compact PROVE Same
  <2>1. /\ Len(rows) \in Nat /\ born \in Nat
        /\ \A i \in 1 .. Len(rows) : rows[i].id \in 1 .. born
        /\ \A i, j \in 1 .. Len(rows) : i < j => rows[i].id < rows[j].id
    BY <1>1 DEF RowInv, Ascending, Numbered
  <2>2. ASSUME NEW i \in 1 .. Len(rows), NEW j \in 1 .. Len(rows), rows[i].id = rows[j].id
        PROVE  i = j
    BY <2>1, <2>2
  <2>3. CASE RowsStay
    BY <2>2, <2>3 DEF RowsStay
  <2>4. CASE RowsThinned
    <3>1. PICK f : Thins(rows, rows', f)
      BY <2>4 DEF RowsThinned
    <3>2. \A j \in 1 .. Len(rows') : f[j] \in 1 .. Len(rows) /\ rows'[j] = rows[f[j]]
      BY <3>1 DEF Thins
    <3> QED BY <3>2, <2>2
  <2>5. ASSUME NEW kind \in Kinds, NEW of \in Nat, RowAppended(kind, of) PROVE Same
    <3>1. Ascending /\ Numbered
      BY <1>1 DEF RowInv
    <3>2. /\ \A i \in 1 .. Len(rows) : rows'[i] = rows[i]
          /\ rows'[Len(rows')] = NewRow(kind, of)
          /\ \A i \in 1 .. Len(rows') : i \in 1 .. Len(rows) \/ i = Len(rows')
      BY <2>5, <3>1, Appended
    <3>3. NewRow(kind, of).id = born + 1
      BY <2>5, <3>1, NewRowTyped
    <3>4. ASSUME NEW i \in 1 .. Len(rows), NEW j \in 1 .. Len(rows'), rows[i].id = rows'[j].id
          PROVE  rows[i] = rows'[j]
      <4>1. CASE j \in 1 .. Len(rows)
        BY <4>1, <3>2, <3>4, <2>2
      <4>2. CASE j = Len(rows')
        BY <4>2, <3>2, <3>3, <3>4, <2>1
      <4> QED BY <4>1, <4>2, <3>2
    <3> QED BY <3>4
  <2> HIDE DEF Same
  <2> QED BY <1>1, <2>3, <2>4, <2>5, RowSteps
<1>2. ASSUME RowInv, [Next]_vars PROVE [~Compact => Same]_vars
  BY <1>1, <1>2
<1> QED BY <1>2, RowInvHolds, PTL DEF Spec, SurvivorsUnchanged

-----------------------------------------------------------------------------
(***************************************************************************)
(* Bubbles.  A bubble is appended some awaits after its row, so what makes *)
(* it true is that its row is still there: patient operators edit nothing  *)
(* while a bubble is rendered.                                             *)
(***************************************************************************)

IsRow(row) == \E i \in 1 .. Len(rows) : rows[i] = row
Shown(e) == \E i \in 1 .. Len(rows) : rows[i].idx = e.anchor /\ rows[i].id = e.shows

BubbleInv ==
  /\ at \in {"bubble", "action", "result"} => IsRow(current)
  /\ \A row \in posting : IsRow(row)
  /\ \A e \in 1 .. Len(events) : events[e].anchor # -1 => Shown(events[e])

\* Rows that stay are rows, and show what they showed.
LEMMA StillRows ==
  ASSUME RowInv, RowsStay \/ \E kind \in Kinds, of \in Nat : RowAppended(kind, of)
  PROVE  /\ \A row : IsRow(row) => IsRow(row)'
         /\ \A e : Shown(e) => Shown(e)'
<1>1. /\ \A i \in 1 .. Len(rows) : i \in 1 .. Len(rows') /\ rows'[i] = rows[i]
  <2>1. CASE RowsStay
    BY <2>1 DEF RowsStay
  <2>2. CASE \E kind \in Kinds, of \in Nat : RowAppended(kind, of)
    <3>1. PICK kind \in Kinds, of \in Nat : RowAppended(kind, of)
      BY <2>2
    <3>2. Len(rows') = Len(rows) + 1 /\ \A i \in 1 .. Len(rows) : rows'[i] = rows[i]
      BY <3>1, Appended DEF RowInv
    <3>3. Len(rows) \in Nat
      BY DEF RowInv, Ascending
    <3> QED BY <3>2, <3>3
  <2> QED BY <2>1, <2>2
<1> QED BY <1>1 DEF IsRow, Shown

\* The row just appended is a row.
LEMMA NewIsRow ==
  ASSUME RowInv, NEW kind \in Kinds, NEW of \in Nat, RowAppended(kind, of)
  PROVE  \A row : row = NewRow(kind, of) => IsRow(row)'
<1>1. Len(rows') = Len(rows) + 1 /\ rows'[Len(rows')] = NewRow(kind, of)
  BY Appended DEF RowInv
<1>2. Len(rows') \in 1 .. Len(rows')
  BY <1>1 DEF RowInv, Ascending
<1> QED BY <1>1, <1>2 DEF IsRow

LEMMA RowShowsItself == \A row : IsRow(row) => Shown(BubbleOf(row))
  BY DEF IsRow, Shown, BubbleOf

\* One bubble more.
LEMMA BubbleAppended ==
  ASSUME RowInv, BubbleInv, NEW e \in Events, events' = Append(events, e),
         e.anchor # -1 => Shown(e)', \A x : Shown(x) => Shown(x)'
  PROVE  \A i \in 1 .. Len(events') : events'[i].anchor # -1 => Shown(events[i])'
<1>1. events \in Seq(Events) /\ Len(events) \in Nat
  BY DEF RowInv, Ranges
<1>2. /\ Len(events') = Len(events) + 1 /\ events'[Len(events) + 1] = e
      /\ \A i \in 1 .. Len(events) : events'[i] = events[i]
  BY <1>1, AppendProperties
<1>3. ASSUME NEW i \in 1 .. Len(events'), events'[i].anchor # -1 PROVE Shown(events[i])'
  <2>1. CASE i \in 1 .. Len(events)
    <3>1. PICK x : x = events[i]
      OBVIOUS
    <3>2. Shown(x)
      BY <3>1, <2>1, <1>2, <1>3 DEF BubbleInv
    <3>3. events'[i] = x
      BY <3>1, <2>1, <1>2
    <3> QED BY <3>2, <3>3 DEF Shown
  <2>2. CASE i = Len(events) + 1
    <3>1. events'[i] = e
      BY <2>2, <1>2
    <3> QED BY <3>1, <1>3 DEF Shown
  <2> QED BY <2>1, <2>2, <1>1, <1>2
<1> QED BY <1>3

\* Steps that take rows away happen at rest, and take the bubbles of those rows along.
LEMMA EditKeepsBubbles ==
  ASSUME RowInv, BubbleInv, patient, Edit
  PROVE  BubbleInv'
<1>1. at' = "idle" /\ posting' = {}
  BY DEF Edit, AtRest
<1>2. PICK p \in 1 .. Len(rows) : DeleteOne(p) \/ TruncateFrom(p)
  BY DEF Edit
<1>3. rows \in Seq(Rows) /\ events \in Seq(Events) /\ Len(rows) \in Nat
  BY DEF RowInv, Ascending, Ranges
<1>4. CASE DeleteOne(p)
  <2>1. PICK idx : idx = rows[p].idx
    OBVIOUS
  <2>2. events' = EventsWithout(idx)
    BY <2>1, <1>4 DEF DeleteOne
  <2>3. /\ Len(rows') = Len(rows) - 1
        /\ \A k \in 1 .. Len(rows') : rows'[k] = IF k < p THEN rows[k] ELSE rows[k + 1]
    BY <1>3, <1>4, DeleteOneThins
  <2>4. ASSUME NEW x, Shown(x), x.anchor # idx PROVE Shown(x)'
    <3>1. PICK i \in 1 .. Len(rows) : rows[i].idx = x.anchor /\ rows[i].id = x.shows
      BY <2>4 DEF Shown
    <3>2. i # p
      BY <3>1, <2>1, <2>4
    <3>3. CASE i < p
      <4>1. i \in 1 .. Len(rows') /\ rows'[i] = rows[i]
        BY <3>3, <2>3, <1>3
      <4> QED BY <4>1, <3>1 DEF Shown
    <3>4. CASE i > p
      <4>1. i - 1 \in 1 .. Len(rows') /\ ~(i - 1 < p) /\ (i - 1) + 1 = i
        BY <3>4, <2>3, <1>3
      <4>2. rows'[i - 1] = rows[i]
        BY <4>1, <2>3
      <4> QED BY <4>1, <4>2, <3>1 DEF Shown
    <3> QED BY <3>2, <3>3, <3>4, <1>3
  <2>5. ASSUME NEW e \in 1 .. Len(events'), events'[e].anchor # -1 PROVE Shown(events[e])'
    <3>1. PICK i \in 1 .. Len(events) : events'[e] = events[i] /\ events[i].anchor # idx
      BY <2>2, <1>3, EventsWithoutAreEvents
    <3>2. PICK x : x = events[i]
      OBVIOUS
    <3>3. Shown(x) /\ x.anchor # idx
      BY <3>1, <3>2, <2>5 DEF BubbleInv
    <3>4. Shown(x)' /\ events'[e] = x
      BY <3>1, <3>2, <3>3, <2>4
    <3> QED BY <3>4 DEF Shown
  <2> QED BY <2>5, <1>1 DEF BubbleInv
<1>5. CASE TruncateFrom(p)
  <2>1. PICK b \in 1 .. Len(rows) : b = Boundary(p)
    BY <1>3, <1>5, TruncateThins
  <2>2. PICK idx : idx = rows[b].idx
    OBVIOUS
  <2>3. events' = EventsBefore(idx)
    BY <2>1, <2>2, <1>5 DEF TruncateFrom
  <2>4. Len(rows') = b - 1 /\ \A k \in 1 .. Len(rows') : rows'[k] = rows[k]
    BY <2>1, <1>3, <1>5, TruncateThins
  <2>5. \A i \in 1 .. Len(rows) : rows[i].idx \in Nat
    <3>1. \A i \in 1 .. Len(rows) : rows[i] \in Rows
      BY <1>3
    <3> QED BY <3>1 DEF Rows
  <2>6. ASSUME NEW x, Shown(x), x.anchor < idx PROVE Shown(x)'
    <3>1. PICK i \in 1 .. Len(rows) : rows[i].idx = x.anchor /\ rows[i].id = x.shows
      BY <2>6 DEF Shown
    <3>2. i < b
      <4>1. SUFFICES ASSUME ~(i < b) PROVE FALSE
        OBVIOUS
      <4>2. i = b \/ b < i
        BY <4>1
      <4>3. rows[b].idx = rows[i].idx \/ rows[b].idx < rows[i].idx
        BY <4>2 DEF RowInv, Ascending
      <4> QED BY <4>3, <3>1, <2>2, <2>5, <2>6
    <3>3. i \in 1 .. Len(rows') /\ rows'[i] = rows[i]
      BY <3>2, <2>4, <1>3
    <3> QED BY <3>1, <3>3 DEF Shown
  <2>7. ASSUME NEW e \in 1 .. Len(events'), events'[e].anchor # -1 PROVE Shown(events[e])'
    <3>1. e \in 1 .. Len(events) /\ events'[e] = events[e] /\ events[e].anchor < idx
      BY <2>2, <2>3, <2>5, <1>3, EventsBeforeIsAPrefix
    <3>2. PICK x : x = events[e]
      OBVIOUS
    <3>3. Shown(x) /\ x.anchor < idx
      BY <3>1, <3>2, <2>7 DEF BubbleInv
    <3>4. Shown(x)' /\ events'[e] = x
      BY <3>1, <3>2, <3>3, <2>6
    <3> QED BY <3>4 DEF Shown
  <2> QED BY <2>7, <1>1 DEF BubbleInv
<1> QED BY <1>2, <1>4, <1>5

\* The steps of a turn, and what an operator does beside it, only add.
LEMMA TurnKeepsBubbles ==
  ASSUME RowInv, BubbleInv, TurnStep \/ OperatorStep
  PROVE  BubbleInv'
<1>1. /\ Unanchored \in Events /\ Unanchored.anchor = -1 /\ NoRow \in Rows
      /\ current \in Rows /\ posting \subseteq Rows
  BY KindsOfItems DEF RowInv, Ranges, Unanchored
<1>2. \A row \in Rows : BubbleOf(row) \in Events
  BY DEF BubbleOf, Rows, Events
<1>3. RowsStay \/ \E kind \in Kinds, of \in Nat : RowAppended(kind, of)
  BY ActingRows
<1>4. /\ \A row : IsRow(row) => IsRow(row)'
      /\ \A e : Shown(e) => Shown(e)'
  BY <1>3, StillRows
<1> DEFINE Busy == {"bubble", "action", "result"}
           EventsShown == \A e \in 1 .. Len(events) : events[e].anchor # -1 => Shown(events[e])
           PostingAreRows == \A row \in posting : IsRow(row)
           CurrentIsRow == at \in Busy => IsRow(current)
<1>5. ASSUME events' = events PROVE EventsShown'
  <2>1. ASSUME NEW e \in 1 .. Len(events'), events'[e].anchor # -1 PROVE Shown(events[e])'
    <3>1. PICK x : x = events[e]
      OBVIOUS
    <3>2. Shown(x)
      BY <3>1, <2>1, <1>5 DEF BubbleInv
    <3>3. Shown(x)' /\ events'[e] = x
      BY <3>1, <3>2, <1>4, <1>5
    <3> QED BY <3>3 DEF Shown
  <2> QED BY <2>1
<1>6. ASSUME NEW e \in Events, events' = Append(events, e), e.anchor # -1 => Shown(e)'
      PROVE  EventsShown'
  BY <1>4, <1>6, BubbleAppended
<1>7. ASSUME posting' \subseteq posting PROVE PostingAreRows'
  BY <1>4, <1>7 DEF BubbleInv
<1>8. ASSUME current' = current, at' \in Busy => at \in Busy PROVE CurrentIsRow'
  <2>1. ASSUME at' \in Busy PROVE IsRow(current)'
    <3>1. PICK x : x = current
      OBVIOUS
    <3>2. IsRow(x)
      BY <3>1, <2>1, <1>8 DEF BubbleInv
    <3>3. IsRow(x)' /\ current' = x
      BY <3>1, <3>2, <1>4, <1>8
    <3> QED BY <3>3 DEF IsRow
  <2> QED BY <2>1
<1>9. ASSUME EventsShown', PostingAreRows', CurrentIsRow' PROVE BubbleInv'
  BY <1>9 DEF BubbleInv
<1>10. CASE \/ TurnStarts \/ TurnThrows \/ PlanEnds \/ \E answer \in Answers : ModelAnswers(answer)
            \/ ActionEnds \/ WarnModel \/ Abort
  <2>1. /\ events' = events /\ posting' = posting /\ current' = current
        /\ at' \in Busy => at \in Busy
    BY <1>10 DEF TurnStarts, TurnThrows, PlanEnds, ModelAnswers, ActionEnds, WarnModel, Abort
  <2> HIDE DEF EventsShown, PostingAreRows, CurrentIsRow
  <2> QED BY <2>1, <1>5, <1>7, <1>8, <1>9
<1>11. CASE AppendThought \/ WarnOperator
  <2>1. /\ events' = Append(events, Unanchored) /\ posting' = posting /\ current' = current
        /\ at' \notin Busy
    BY <1>11 DEF AppendThought, WarnOperator, ItemIs
  <2> HIDE DEF EventsShown, PostingAreRows, CurrentIsRow
  <2> QED BY <2>1, <1>1, <1>6, <1>7, <1>8, <1>9
<1>12. CASE AppendShown \/ AppendCall
  <2>1. /\ events' = events /\ posting' = posting
        /\ current' = NewRow(Head(plan), 0) /\ RowAppended(Head(plan), 0)
    BY <1>12 DEF AppendShown, AppendCall, AppendRow, RowAppended
  <2>2. Head(plan) \in Kinds /\ 0 \in Nat
    BY <1>12 DEF AppendShown, AppendCall, ItemIs, Kinds
  <2>3. PICK row : row = current'
    OBVIOUS
  <2>4. IsRow(row)'
    BY <2>1, <2>2, <2>3, NewIsRow
  <2>5. CurrentIsRow'
    BY <2>3, <2>4 DEF IsRow
  <2> HIDE DEF EventsShown, PostingAreRows, CurrentIsRow
  <2> QED BY <2>1, <2>5, <1>5, <1>7, <1>9
<1>13. CASE BubbleEnds
  <2>1. /\ events' = Append(events, BubbleOf(current)) /\ posting' = posting
        /\ IsRow(current)
        /\ current' = current \/ at' \notin Busy
    BY <1>13 DEF BubbleEnds, BubbleInv
  <2>2. PICK e \in Events : e = BubbleOf(current)
    BY <1>1, <1>2
  <2>3. Shown(e)'
    BY <2>1, <2>2, <1>4, RowShowsItself
  <2>4. CurrentIsRow'
    <3>1. CASE at' \notin Busy
      BY <3>1
    <3>2. CASE current' = current
      BY <3>2, <1>8, <1>13 DEF BubbleEnds
    <3> QED BY <3>1, <3>2, <2>1
  <2> HIDE DEF EventsShown, PostingAreRows, CurrentIsRow
  <2> QED BY <2>1, <2>2, <2>3, <2>4, <1>6, <1>7, <1>9
<1>14. CASE AppendResult
  <2>1. events' = events /\ posting' = posting /\ at' \notin Busy
    BY <1>14 DEF AppendResult
  <2>2. CurrentIsRow'
    BY <2>1
  <2> HIDE DEF EventsShown, PostingAreRows, CurrentIsRow
  <2> QED BY <2>1, <2>2, <1>5, <1>7, <1>9
<1>15. CASE Submit
  <2>1. /\ events' = events /\ posting' = {NewRow("operator", 0)} /\ current' = current
        /\ at' = at /\ RowAppended("operator", 0)
    BY <1>15 DEF Submit, RowAppended
  <2>2. "operator" \in Kinds /\ 0 \in Nat
    BY DEF Kinds
  <2>3. \A row \in posting' : IsRow(row)'
    BY <2>1, <2>2, NewIsRow
  <2>4. PostingAreRows'
    BY <2>3
  <2> HIDE DEF EventsShown, PostingAreRows, CurrentIsRow
  <2> QED BY <2>1, <2>4, <1>5, <1>8, <1>9
<1>16. CASE BubblePosted
  <2>1. PICK row \in posting : posting' = posting \ {row} /\ events' = Append(events, BubbleOf(row))
    BY <1>16 DEF BubblePosted
  <2>2. current' = current /\ at' = at
    BY <1>16 DEF BubblePosted
  <2>3. PICK e \in Events : e = BubbleOf(row)
    BY <1>1, <1>2
  <2>4. Shown(e)
    BY <2>3, RowShowsItself DEF BubbleInv
  <2>5. Shown(e)' /\ posting' \subseteq posting
    BY <2>1, <2>4, <1>4
  <2> HIDE DEF EventsShown, PostingAreRows, CurrentIsRow
  <2> QED BY <2>1, <2>2, <2>3, <2>5, <1>6, <1>7, <1>8, <1>9
<1> QED BY <1>10, <1>11, <1>12, <1>13, <1>14, <1>15, <1>16 DEF TurnStep, OperatorStep

LEMMA BubblesKept == RowInv /\ (patient => BubbleInv) /\ [Next]_vars => (patient => BubbleInv)'
<1> SUFFICES ASSUME RowInv, BubbleInv, patient, [Next]_vars PROVE BubbleInv'
  BY RoomKept
<1>1. CASE UNCHANGED vars
  BY <1>1 DEF vars, BubbleInv, IsRow, Shown
<1>2. ~Crash /\ ~Compact
  BY DEF Crash, Compact
<1> QED BY <1>1, <1>2, TurnKeepsBubbles, EditKeepsBubbles DEF Next

LEMMA BubblesHold == Spec => [](patient => BubbleInv)
<1>1. Init => BubbleInv
  BY DEF Init, BubbleInv
<1> QED BY <1>1, BubblesKept, RowInvHolds, PTL DEF Spec

\* With operators that edit only what is at rest, a bubble names the row it shows, so that
\* the button on it deletes what the operator reads.
THEOREM BubblesAreAnchored == Spec => []BubblesMatchRows
<1>1. (patient => BubbleInv) => BubblesMatchRows
  BY DEF BubbleInv, Shown, BubblesMatchRows
<1> QED BY <1>1, BubblesHold, PTL

-----------------------------------------------------------------------------
(***************************************************************************)
(* Markers and results.  A step leaves the rows, or appends a row outside  *)
(* of a marker, the marker itself, a submission during it, or its result;  *)
(* an edit takes rows away.                                                *)
(***************************************************************************)

\* A marker whose action runs, or that waits for its return, is one.
ItemInv == at \in {"action", "result"} => NeedsResult(current)

Quiet ==
  /\ RowsStay
  /\ InMarker' = InMarker /\ (InMarker => current' = current)
  /\ cutIn' = cutIn
Outside(kind) ==
  /\ kind \in {"operator", "prose", "html", "warning"} /\ RowAppended(kind, 0)
  /\ ~InMarker /\ ~InMarker' /\ cutIn' = cutIn
Opens(kind) ==
  /\ kind \in MarkerKinds \cap {"call", "plain"} /\ RowAppended(kind, 0)
  /\ current' = NewRow(kind, 0)
  /\ ~InMarker /\ InMarker' /\ cutIn' = cutIn
CutsIn ==
  /\ RowAppended("operator", 0)
  /\ InMarker /\ InMarker' /\ current' = current
  /\ cutIn < Interjections /\ cutIn' = cutIn + 1
Closes ==
  /\ RowAppended("result", current.id)
  /\ InMarker /\ ~InMarker' /\ cutIn' = 0

LEMMA NewKind == \A kind, of : NewRow(kind, of).kind = kind /\ NewRow(kind, of).of = of
  BY DEF NewRow

LEMMA MarkerSteps ==
  ASSUME RowInv, ItemInv, TurnStep \/ OperatorStep
  PROVE  /\ \/ Quiet
            \/ \E kind \in Kinds : Outside(kind) \/ Opens(kind)
            \/ CutsIn
            \/ Closes
         /\ ItemInv'
<1> USE DEF InMarker, ItemInv
<1>1. CASE \/ TurnStarts \/ TurnThrows \/ PlanEnds \/ \E answer \in Answers : ModelAnswers(answer)
           \/ AppendThought \/ WarnOperator
  <2>1. /\ at \notin {"bubble", "action", "result"} /\ at' \notin {"bubble", "action", "result"}
        /\ RowsStay /\ cutIn' = cutIn
    BY <1>1 DEF TurnStarts, TurnThrows, PlanEnds, ModelAnswers, AppendThought, WarnOperator,
                ItemIs, RowsStay
  <2> QED BY <2>1 DEF Quiet
<1>2. CASE BubblePosted \/ Abort
  <2>1. at' = at /\ current' = current /\ RowsStay /\ cutIn' = cutIn
    BY <1>2 DEF BubblePosted, Abort, RowsStay
  <2> QED BY <2>1 DEF Quiet, NeedsResult
<1>3. CASE ActionEnds
  <2>1. at = "action" /\ at' = "bubble" /\ current' = current /\ RowsStay /\ cutIn' = cutIn
    BY <1>3 DEF ActionEnds, RowsStay
  <2> QED BY <2>1 DEF Quiet, NeedsResult
<1>4. CASE BubbleEnds
  <2>1. at = "bubble" /\ RowsStay /\ cutIn' = cutIn
    BY <1>4 DEF BubbleEnds, RowsStay
  <2>2. CASE NeedsResult(current)
    <3>1. at' = "result" /\ current' = current
      BY <1>4, <2>2 DEF BubbleEnds
    <3> QED BY <2>1, <2>2, <3>1 DEF Quiet, NeedsResult
  <2>3. CASE ~NeedsResult(current)
    <3>1. at' = "plan"
      BY <1>4, <2>3 DEF BubbleEnds
    <3> QED BY <2>1, <2>3, <3>1 DEF Quiet, NeedsResult
  <2> QED BY <2>2, <2>3
<1>5. CASE AppendShown
  <2>1. PICK kind : kind = Head(plan)
    OBVIOUS
  <2>2. /\ kind \in {"prose", "html"} /\ RowAppended(kind, 0) /\ current' = NewRow(kind, 0)
        /\ at = "plan" /\ at' = "bubble" /\ cutIn' = cutIn
    BY <2>1, <1>5 DEF AppendShown, ItemIs, RowAppended, AppendRow
  <2>3. ~NeedsResult(current)'
    BY <2>2, NewKind DEF NeedsResult
  <2>4. Outside(kind) /\ kind \in Kinds
    BY <2>2, <2>3 DEF Outside, Kinds
  <2> QED BY <2>2, <2>4
<1>6. CASE AppendCall
  <2>1. PICK kind : kind = Head(plan)
    OBVIOUS
  <2>2. /\ kind \in {"call", "plain"} /\ RowAppended(kind, 0) /\ current' = NewRow(kind, 0)
        /\ at = "plan" /\ at' = "action" /\ cutIn' = cutIn
    BY <2>1, <1>6 DEF AppendCall, ItemIs, RowAppended, AppendRow
  <2>3. NeedsResult(current)'
    BY <2>2, NewKind DEF NeedsResult
  <2>4. kind \in MarkerKinds
    <3>1. plan \in Seq(Items) /\ plan # <<>>
      BY <1>6 DEF RowInv, Ranges, AppendCall, ItemIs
    <3>2. kind \in Items
      BY <3>1, <2>1
    <3> QED BY <3>2, <2>2 DEF Items
  <2>5. Opens(kind) /\ kind \in Kinds
    BY <2>2, <2>3, <2>4 DEF Opens, Kinds
  <2> QED BY <2>3, <2>5
<1>7. CASE AppendResult
  BY <1>7 DEF AppendResult, Closes, RowAppended
<1>8. CASE WarnModel
  <2>1. Outside("warning") /\ "warning" \in Kinds /\ at' = "plan"
    BY <1>8 DEF WarnModel, Outside, RowAppended, Kinds
  <2> QED BY <2>1
<1>9. CASE Submit
  <2>1. /\ RowAppended("operator", 0) /\ current' = current /\ at' = at
        /\ InMarker => cutIn < Interjections
        /\ cutIn' = IF InMarker THEN cutIn + 1 ELSE cutIn
    BY <1>9 DEF Submit, RowAppended
  <2>2. "operator" \in Kinds /\ (InMarker' <=> InMarker) /\ ItemInv'
    BY <2>1 DEF Kinds, NeedsResult
  <2>3. CASE InMarker
    BY <2>1, <2>2, <2>3 DEF CutsIn
  <2>4. CASE ~InMarker
    <3>1. Outside("operator")
      <4> HIDE DEF InMarker
      <4> QED BY <2>1, <2>2, <2>4 DEF Outside
    <3> QED BY <3>1, <2>2
  <2> HIDE DEF InMarker
  <2> QED BY <2>3, <2>4
<1> QED BY <1>1, <1>2, <1>3, <1>4, <1>5, <1>6, <1>7, <1>8, <1>9 DEF TurnStep, OperatorStep

LEMMA ItemKept == RowInv /\ ItemInv /\ [Next]_vars => ItemInv'
<1> SUFFICES ASSUME RowInv, ItemInv, [Next]_vars PROVE ItemInv'
  OBVIOUS
<1>1. UNCHANGED vars \/ Edit \/ Compact => ItemInv'
  BY DEF vars, Edit, Compact, ItemInv, NeedsResult
<1>2. Crash => ItemInv'
  BY DEF Crash, ItemInv
<1> QED BY <1>1, <1>2, MarkerSteps DEF Next

LEMMA ItemHolds == Spec => []ItemInv
<1>1. Init => ItemInv
  BY DEF Init, ItemInv
<1> QED BY <1>1, ItemKept, RowInvHolds, PTL DEF Spec

\* From the i-th row to the j-th there is nothing but what operators submitted and
\* the note of a compaction.
Aside == {"operator", "note"}
OnlyOperators(i, j) == \A k \in i + 1 .. j - 1 : rows[k].kind \in Aside

\* Behind the marker that is being answered too.
BetweenInv ==
  /\ InMarker => \A i \in 1 .. Len(rows) :
                   rows[i].id = current.id => OnlyOperators(i, Len(rows) + 1)
  /\ \A i, j \in 1 .. Len(rows) :
       i < j /\ rows[j].of = rows[i].id => OnlyOperators(i, j)

\* Taking rows away brings none between two others.
LEMMA ThinnedBetween ==
  ASSUME RowInv, BetweenInv, RowsThinned, InMarker' = InMarker, current' = current
  PROVE  BetweenInv'
<1>1. PICK f : Thins(rows, rows', f)
  BY DEF RowsThinned
<1>2. \A k \in 1 .. Len(rows') : f[k] \in 1 .. Len(rows) /\ rows'[k] = rows[f[k]]
  BY <1>1 DEF Thins
<1>3. \A k, l \in 1 .. Len(rows') : k < l => f[k] < f[l]
  BY <1>1 DEF Thins
<1>4. Len(rows) \in Nat /\ Len(rows') \in Nat
  BY DEF RowInv, Ascending, RowsThinned
<1>5. ASSUME InMarker', NEW i \in 1 .. Len(rows'), rows'[i].id = current'.id,
             NEW k \in i + 1 .. Len(rows')
      PROVE  rows'[k].kind \in Aside
  <2>1. i \in 1 .. Len(rows') /\ k \in 1 .. Len(rows') /\ i < k
    BY <1>4
  <2>2. f[i] \in 1 .. Len(rows) /\ f[k] \in f[i] + 1 .. Len(rows)
    BY <2>1, <1>2, <1>3, <1>4
  <2>3. rows[f[i]].id = current.id
    BY <1>2, <1>5
  <2>4. OnlyOperators(f[i], Len(rows) + 1)
    BY <2>2, <2>3, <1>5 DEF BetweenInv
  <2>5. f[k] \in f[i] + 1 .. (Len(rows) + 1) - 1
    BY <2>2, <1>4
  <2> QED BY <2>1, <2>4, <2>5, <1>2 DEF OnlyOperators
<1>6. ASSUME NEW i \in 1 .. Len(rows'), NEW j \in 1 .. Len(rows'), i < j,
             rows'[j].of = rows'[i].id, NEW k \in i + 1 .. j - 1
      PROVE  rows'[k].kind \in Aside
  <2>1. k \in 1 .. Len(rows') /\ i < k /\ k < j
    BY <1>4
  <2>2. /\ f[i] \in 1 .. Len(rows) /\ f[j] \in 1 .. Len(rows) /\ f[i] < f[j]
        /\ f[k] \in f[i] + 1 .. f[j] - 1
    BY <2>1, <1>2, <1>3, <1>4
  <2>3. rows[f[j]].of = rows[f[i]].id
    BY <1>2, <1>6
  <2>4. OnlyOperators(f[i], f[j])
    BY <2>2, <2>3 DEF BetweenInv
  <2> QED BY <2>1, <2>2, <2>4, <1>2 DEF OnlyOperators
<1>7. (Len(rows') + 1) - 1 = Len(rows')
  BY <1>4
<1> QED BY <1>5, <1>6, <1>7 DEF BetweenInv, OnlyOperators

\* An appended row answers the marker in progress or none.
LEMMA AppendedBetween ==
  ASSUME RowInv, BetweenInv, NEW kind \in Kinds, NEW of \in Nat, RowAppended(kind, of),
         of = 0 \/ (InMarker /\ of = current.id)
  PROVE  \A i, j \in 1 .. Len(rows') :
           i < j /\ rows'[j].of = rows'[i].id => OnlyOperators(i, j)'
<1>1. /\ Len(rows') = Len(rows) + 1 /\ Len(rows) \in Nat
      /\ \A i \in 1 .. Len(rows) : rows'[i] = rows[i]
      /\ rows'[Len(rows')] = NewRow(kind, of)
      /\ \A i \in 1 .. Len(rows') : i \in 1 .. Len(rows) \/ i = Len(rows')
  BY Appended DEF RowInv, Ascending
<1>2. \A i \in 1 .. Len(rows) : rows[i].id >= 1
  BY DEF RowInv, Numbered
<1>3. ASSUME NEW i \in 1 .. Len(rows'), NEW j \in 1 .. Len(rows'), i < j,
             rows'[j].of = rows'[i].id, NEW k \in i + 1 .. j - 1
      PROVE  rows'[k].kind \in Aside
  <2>1. i \in 1 .. Len(rows) /\ k \in 1 .. Len(rows)
    BY <1>1, <1>3
  <2>2. rows'[i] = rows[i] /\ rows'[k] = rows[k]
    BY <2>1, <1>1
  <2>3. CASE j \in 1 .. Len(rows)
    <3>1. rows[j].of = rows[i].id
      BY <2>2, <2>3, <1>1, <1>3
    <3>2. OnlyOperators(i, j)
      BY <3>1, <2>1, <2>3, <1>3 DEF BetweenInv
    <3> QED BY <3>2, <2>2, <1>3 DEF OnlyOperators
  <2>4. CASE j = Len(rows')
    <3>1. rows'[j].of = of
      BY <2>4, <1>1, NewKind
    <3>2. of # 0
      BY <3>1, <2>1, <2>2, <1>2, <1>3
    <3>3. OnlyOperators(i, Len(rows) + 1)
      BY <3>1, <3>2, <2>1, <2>2, <1>3 DEF BetweenInv
    <3>4. k \in i + 1 .. (Len(rows) + 1) - 1
      BY <2>4, <1>1
    <3> QED BY <3>3, <3>4, <2>2 DEF OnlyOperators
  <2> QED BY <2>3, <2>4, <1>1
<1> QED BY <1>3 DEF OnlyOperators

\* A compaction runs in a marker.  Its note is behind every row there is.
LEMMA CompactBetween ==
  ASSUME RowInv, BetweenInv, Compact
  PROVE  BetweenInv'
<1>1. rows \in Seq(Rows) /\ born \in Nat /\ Len(rows) \in Nat
      /\ \A i \in 1 .. Len(rows) : rows[i].id \in 1 .. born
  BY DEF RowInv, Ascending, Numbered
<1>2. PICK n \in 0 .. Len(rows) : Renumbers(n)
  <2>1. \A p \in 1 .. Len(rows) :
          Boundary(p) \in 1 .. Len(rows) => Boundary(p) - 1 \in 0 .. Len(rows)
    BY <1>1
  <2>2. Len(rows) \in 0 .. Len(rows)
    BY <1>1
  <2> QED BY <2>1, <2>2, <1>1, CompactRenumbers
<1>3. /\ n \in Nat /\ n <= Len(rows) /\ Len(rows') \in {n, n + 1}
      /\ \A k \in 1 .. n : k \in 1 .. Len(rows)
  BY <1>1, <1>2 DEF Renumbers
<1>4. InMarker /\ current' = current /\ at' = at
  BY DEF Compact, InMarker
<1>5. \A k \in 1 .. Len(rows') : k \in 1 .. n \/ (k = n + 1 /\ rows'[k].kind = "note"
                                                 /\ rows'[k].of = 0 /\ rows'[k].id = born + 1)
  <2>1. CASE Len(rows') = n
    BY <2>1, <1>3
  <2>2. CASE Len(rows') = n + 1
    <3>1. n # n + 1
      BY <1>3
    <3>2. rows'[n + 1].id = born + 1 /\ rows'[n + 1].of = 0 /\ rows'[n + 1].kind = "note"
      BY <3>1, <2>2, <1>2 DEF Renumbers
    <3> QED BY <3>2, <2>2, <1>3
  <2> QED BY <2>1, <2>2, <1>3
<1>6. \A k \in 1 .. n : /\ rows'[k].id = rows[k].id /\ rows'[k].of = rows[k].of
                        /\ rows[k].kind \in Aside => rows'[k].kind \in Aside
  BY <1>2 DEF Renumbers, Aside
<1>7. ASSUME NEW k \in 1 .. Len(rows') PROVE rows'[k].id >= 1
  <2>1. CASE k \in 1 .. n
    <3>1. rows[k].id \in 1 .. born /\ rows'[k].id = rows[k].id
      BY <2>1, <1>1, <1>3, <1>6
    <3> QED BY <3>1
  <2>2. CASE rows'[k].id = born + 1
    BY <2>2, <1>1
  <2> QED BY <2>1, <2>2, <1>5
<1>8. ASSUME NEW i \in 1 .. Len(rows'), rows'[i].id = current'.id,
             NEW k \in i + 1 .. (Len(rows') + 1) - 1
      PROVE  rows'[k].kind \in Aside
  <2>1. k \in 1 .. Len(rows') /\ i < k
    BY <1>3
  <2>2. CASE k = n + 1
    BY <2>1, <2>2, <1>3, <1>5 DEF Aside
  <2>3. CASE k \in 1 .. n
    <3>1. i \in 1 .. n /\ rows[i].id = current.id
      BY <2>1, <2>3, <1>3, <1>4, <1>6, <1>8
    <3>2. OnlyOperators(i, Len(rows) + 1) /\ k \in i + 1 .. (Len(rows) + 1) - 1
      BY <3>1, <2>1, <2>3, <1>3, <1>4 DEF BetweenInv
    <3> QED BY <3>2, <2>3, <1>6 DEF OnlyOperators
  <2> QED BY <2>1, <2>2, <2>3, <1>5
<1>9. ASSUME NEW i \in 1 .. Len(rows'), NEW j \in 1 .. Len(rows'), i < j,
             rows'[j].of = rows'[i].id, NEW k \in i + 1 .. j - 1
      PROVE  rows'[k].kind \in Aside
  <2>1. j \in 1 .. n
    BY <1>5, <1>7, <1>9
  <2>2. i \in 1 .. n /\ k \in 1 .. n
    BY <2>1, <1>3, <1>9
  <2>3. OnlyOperators(i, j)
    BY <2>1, <2>2, <1>3, <1>6, <1>9 DEF BetweenInv
  <2> QED BY <2>2, <2>3, <1>6, <1>9 DEF OnlyOperators
<1> QED BY <1>8, <1>9 DEF BetweenInv, OnlyOperators

LEMMA BetweenKept == RowInv /\ ItemInv /\ BetweenInv /\ [Next]_vars => BetweenInv'
<1> SUFFICES ASSUME RowInv, ItemInv, BetweenInv, [Next]_vars PROVE BetweenInv'
  OBVIOUS
<1>1. CASE UNCHANGED vars
  BY <1>1 DEF vars, BetweenInv, OnlyOperators, InMarker, NeedsResult
<1>2. CASE Crash
  <2>1. ~InMarker' /\ rows' = rows
    BY <1>2 DEF Crash, InMarker
  <2> QED BY <2>1 DEF BetweenInv, OnlyOperators
<1>3. CASE Edit
  <2>1. RowsThinned /\ current' = current /\ at' = at
    BY <1>3, EditThins DEF RowInv, Ascending, Edit
  <2>2. InMarker' = InMarker
    BY <2>1 DEF InMarker, NeedsResult
  <2> QED BY <2>1, <2>2, ThinnedBetween
<1>4. CASE Quiet
  <2>1. rows' = rows /\ InMarker' = InMarker /\ (InMarker => current' = current)
    BY <1>4 DEF Quiet, RowsStay
  <2> QED BY <2>1 DEF BetweenInv, OnlyOperators
<1>5. ASSUME NEW kind \in Kinds, Outside(kind) PROVE BetweenInv'
  <2>1. RowAppended(kind, 0) /\ ~InMarker'
    BY <1>5 DEF Outside
  <2> QED BY <2>1, AppendedBetween DEF BetweenInv
<1>6. ASSUME NEW kind \in Kinds, Opens(kind) PROVE BetweenInv'
  <2>1. RowAppended(kind, 0) /\ current' = NewRow(kind, 0)
    BY <1>6 DEF Opens
  <2>2. /\ Len(rows') = Len(rows) + 1 /\ Len(rows) \in Nat
        /\ \A i \in 1 .. Len(rows) : rows'[i] = rows[i]
        /\ \A i \in 1 .. Len(rows') : i \in 1 .. Len(rows) \/ i = Len(rows')
    BY <2>1, Appended DEF RowInv, Ascending
  <2>3. current'.id = born + 1 /\ born \in Nat /\ \A i \in 1 .. Len(rows) : rows[i].id <= born
    BY <2>1, NewRowTyped DEF RowInv, Numbered
  <2>4. ASSUME NEW i \in 1 .. Len(rows'), rows'[i].id = current'.id
        PROVE  OnlyOperators(i, Len(rows) + 1)'
    <3>1. i = Len(rows')
      BY <2>2, <2>3, <2>4
    <3> QED BY <3>1, <2>2 DEF OnlyOperators
  <2> QED BY <2>1, <2>4, AppendedBetween DEF BetweenInv
<1>7. CASE CutsIn
  <2>1. RowAppended("operator", 0) /\ InMarker /\ current' = current /\ "operator" \in Kinds
    BY <1>7 DEF CutsIn, Kinds
  <2>2. /\ Len(rows') = Len(rows) + 1 /\ Len(rows) \in Nat
        /\ \A i \in 1 .. Len(rows) : rows'[i] = rows[i]
        /\ rows'[Len(rows')] = NewRow("operator", 0)
        /\ \A i \in 1 .. Len(rows') : i \in 1 .. Len(rows) \/ i = Len(rows')
    BY <2>1, Appended DEF RowInv, Ascending
  <2>3. ASSUME NEW i \in 1 .. Len(rows'), rows'[i].id = current'.id,
               NEW k \in i + 1 .. (Len(rows') + 1) - 1
        PROVE  rows'[k].kind \in Aside
    <3>1. i \in 1 .. Len(rows) /\ (k \in i + 1 .. (Len(rows) + 1) - 1 \/ k = Len(rows'))
      BY <2>2, <2>3
    <3>2. CASE k = Len(rows')
      BY <3>2, <2>2, NewKind DEF Aside
    <3>3. CASE k \in i + 1 .. (Len(rows) + 1) - 1
      <4>1. rows[i].id = current.id
        BY <3>1, <2>1, <2>2, <2>3
      <4>2. OnlyOperators(i, Len(rows) + 1)
        BY <4>1, <3>1, <2>1 DEF BetweenInv
      <4>3. rows[k].kind \in Aside /\ k \in 1 .. Len(rows)
        BY <4>2, <3>3, <2>2 DEF OnlyOperators
      <4> QED BY <4>3, <2>2
    <3> QED BY <3>1, <3>2, <3>3
  <2>4. \A i \in 1 .. Len(rows') : rows'[i].id = current'.id => OnlyOperators(i, Len(rows) + 1)'
    BY <2>3 DEF OnlyOperators
  <2> QED BY <2>1, <2>4, AppendedBetween DEF BetweenInv
<1>8. CASE Closes
  <2>1. RowAppended("result", current.id) /\ InMarker /\ ~InMarker'
    BY <1>8 DEF Closes
  <2>2. "result" \in Kinds /\ current.id \in Nat
    BY DEF RowInv, Ranges, Rows, Kinds
  <2> QED BY <2>1, <2>2, AppendedBetween DEF BetweenInv
<1>9. CASE Compact
  BY <1>9, CompactBetween
<1> QED BY <1>1, <1>2, <1>3, <1>4, <1>5, <1>6, <1>7, <1>8, <1>9, MarkerSteps DEF Next

LEMMA BetweenHolds == Spec => []BetweenInv
<1>1. Init => BetweenInv
  BY DEF Init, BetweenInv, InMarker
<1> QED BY <1>1, BetweenKept, RowInvHolds, ItemHolds, PTL DEF Spec

\* Between a marker and its result stands nothing but what operators submitted and the note
\* of a compaction, whatever operators delete meanwhile and whenever the process dies.
THEOREM ExchangeIsUnbroken == Spec => []OnlyOperatorsBetween
<1>1. BetweenInv => OnlyOperatorsBetween
  BY DEF BetweenInv, OnlyOperators, OnlyOperatorsBetween, Aside
<1> QED BY <1>1, BetweenHolds, PTL

-----------------------------------------------------------------------------
(***************************************************************************)
(* Pairs.  Who has lost the other half had it: results are those of        *)
(* markers, the current one has none, and a row stays what it was.  A cut  *)
(* walks back from a result, or from the row behind an invocation, and     *)
(* that is as far as it looks: what is Joined survives it whole.           *)
(***************************************************************************)

\* A result answers a row before it that is a marker, if that row is still there; the row
\* the turn is about has no result yet.
OwnInv ==
  /\ \A i, j \in 1 .. Len(rows) :
       rows[j].of = rows[i].id => i < j /\ NeedsResult(rows[i])
  /\ \A j \in 1 .. Len(rows) : rows[j].of \in 0 .. born
  /\ current.id \in 0 .. born
  /\ current.id # 0 => \A j \in 1 .. Len(rows) : rows[j].of # current.id
  /\ \A i \in 1 .. Len(rows) : rows[i].id = current.id => rows[i].kind = current.kind
  /\ at \in {"idle", "model", "plan", "warned"} => current = NoRow
  /\ at = "result" => NeedsResult(current)
  /\ ~IsResult(current)

Halves == \A x \in 1 .. born :
            Halved(x)' /\ ~Halved(x) =>
              \/ DeletesPlainCall(x) \/ CutsLoosePair(x) \/ AnswersNoCall(x) \/ DiesInMarker(x)

\* The rows, as the lemmas below use them.
LEMMA RowFacts ==
  ASSUME RowInv
  PROVE  /\ rows \in Seq(Rows) /\ Len(rows) \in Nat /\ born \in Nat
         /\ \A i \in 1 .. Len(rows) : rows[i].id \in 1 .. born
         /\ \A i, j \in 1 .. Len(rows) : rows[i].id = rows[j].id => i = j
<1>1. rows \in Seq(Rows) /\ Len(rows) \in Nat /\ born \in Nat
  BY DEF RowInv, Ascending, Numbered
<1>2. \A i \in 1 .. Len(rows) : rows[i].id \in 1 .. born
  BY DEF RowInv, Numbered
<1>3. ASSUME NEW i \in 1 .. Len(rows), NEW j \in 1 .. Len(rows), rows[i].id = rows[j].id
      PROVE  i = j
  <2>1. ~(i < j) /\ ~(j < i)
    BY <1>1, <1>2, <1>3 DEF RowInv, Numbered
  <2> QED BY <2>1, <1>1
<1> QED BY <1>1, <1>2, <1>3

LEMMA OwnAppended ==
  ASSUME RowInv, OwnInv, NEW kind \in Kinds, NEW of \in Nat, RowAppended(kind, of),
         of = 0 \/ (of = current.id /\ NeedsResult(current) /\ current' = NoRow),
         current' \in {current, NoRow, NewRow(kind, of)},
         at' \in {"idle", "model", "plan", "warned"} => current' = NoRow,
         at' = "result" => NeedsResult(current'), ~IsResult(current')
  PROVE  OwnInv'
<1>1. /\ Len(rows') = Len(rows) + 1 /\ Len(rows) \in Nat
      /\ \A i \in 1 .. Len(rows) : rows'[i] = rows[i]
      /\ rows'[Len(rows')] = NewRow(kind, of)
      /\ \A i \in 1 .. Len(rows') : i \in 1 .. Len(rows) \/ i = Len(rows')
  BY Appended DEF RowInv, Ascending
<1>2. /\ NewRow(kind, of).id = born + 1 /\ NewRow(kind, of).of = of
      /\ NewRow(kind, of).kind = kind /\ NoRow.id = 0
  BY DEF NewRow, NoRow
<1>3. born' = born + 1 /\ born \in Nat
  BY RowFacts DEF RowAppended, AppendRow
<1>4. /\ \A i \in 1 .. Len(rows) : rows[i].id \in 1 .. born /\ rows[i].of \in 0 .. born
      /\ current.id \in 0 .. born /\ of \in 0 .. born
  BY RowFacts, <1>3 DEF OwnInv
<1>5. ASSUME NEW i \in 1 .. Len(rows'), NEW j \in 1 .. Len(rows'), rows'[j].of = rows'[i].id
      PROVE  i < j /\ NeedsResult(rows'[i])
  <2>1. rows'[j].of \in 0 .. born
    BY <1>1, <1>2, <1>4
  <2>2. i \in 1 .. Len(rows) /\ rows'[i] = rows[i]
    BY <2>1, <1>1, <1>2, <1>3, <1>5
  <2>3. CASE j \in 1 .. Len(rows)
    BY <2>2, <2>3, <1>1, <1>5 DEF OwnInv
  <2>4. CASE j = Len(rows')
    <3>1. of = rows[i].id /\ of # 0
      BY <2>2, <2>4, <1>1, <1>2, <1>4, <1>5
    <3>2. rows[i].kind = current.kind /\ NeedsResult(current)
      BY <3>1, <2>2 DEF OwnInv
    <3> QED BY <3>2, <2>2, <2>4, <1>1 DEF NeedsResult
  <2> QED BY <2>3, <2>4, <1>1
<1>6. ASSUME NEW j \in 1 .. Len(rows') PROVE rows'[j].of \in 0 .. born'
  BY <1>1, <1>2, <1>3, <1>4
<1>7. current'.id \in 0 .. born'
  BY <1>2, <1>3, <1>4
<1>8. ASSUME current'.id # 0, NEW j \in 1 .. Len(rows') PROVE rows'[j].of # current'.id
  <2>1. current' # NoRow /\ of = 0
    BY <1>2, <1>8
  <2>2. CASE current' = current
    BY <2>1, <2>2, <1>1, <1>2, <1>8 DEF OwnInv
  <2>3. CASE current' = NewRow(kind, of)
    BY <2>1, <2>3, <1>1, <1>2, <1>3, <1>4
  <2> QED BY <2>1, <2>2, <2>3
<1>9. ASSUME NEW i \in 1 .. Len(rows'), rows'[i].id = current'.id
      PROVE  rows'[i].kind = current'.kind
  <2>1. CASE i \in 1 .. Len(rows)
    <3>1. current' = current
      BY <2>1, <1>1, <1>2, <1>3, <1>4, <1>9
    <3> QED BY <3>1, <2>1, <1>1, <1>9 DEF OwnInv
  <2>2. CASE i = Len(rows')
    <3>1. current'.id = born + 1
      BY <2>2, <1>1, <1>2, <1>9
    <3>2. current' = NewRow(kind, of)
      BY <3>1, <1>2, <1>3, <1>4
    <3> QED BY <3>2, <2>2, <1>1
  <2> QED BY <2>1, <2>2, <1>1
<1> QED BY <1>5, <1>6, <1>7, <1>8, <1>9 DEF OwnInv, NeedsResult, IsResult

\* Rows that stay, up to number and flags, of a turn that goes on with the row it is about.
LEMMA OwnKeptBy ==
  ASSUME RowInv, OwnInv, born' \in Nat, born <= born', current' = current,
         at' = at, rows' \in Seq(Rows),
         NEW f, \A k \in 1 .. Len(rows') :
           \/ /\ f[k] \in 1 .. Len(rows)
              /\ rows'[k].id = rows[f[k]].id /\ rows'[k].of = rows[f[k]].of
              /\ \/ rows'[k].kind = rows[f[k]].kind
                 \/ rows[f[k]].kind \in {"result", "warning"}
           \/ rows'[k].id = born + 1 /\ rows'[k].of = 0 /\ k = Len(rows'),
         \A k, l \in 1 .. Len(rows') : f[k] < f[l] /\ f[l] \in 1 .. Len(rows)
                                       /\ f[k] \in 1 .. Len(rows) => k < l
  PROVE  OwnInv'
<1>1. /\ born \in Nat /\ \A i \in 1 .. Len(rows) : rows[i].id \in 1 .. born
  BY RowFacts
<1>2. /\ \A j \in 1 .. Len(rows) : rows[j].of \in 0 .. born
      /\ current.id \in 0 .. born
  BY DEF OwnInv
<1>3. ASSUME NEW j \in 1 .. Len(rows') PROVE rows'[j].of \in 0 .. born
  BY <1>1, <1>2
<1>4. ASSUME NEW i \in 1 .. Len(rows'), NEW j \in 1 .. Len(rows'), rows'[j].of = rows'[i].id
      PROVE  i < j /\ NeedsResult(rows'[i])
  <2>1. rows'[i].id # born + 1
    BY <1>1, <1>3, <1>4
  <2>2. /\ f[i] \in 1 .. Len(rows) /\ rows'[i].id = rows[f[i]].id
        /\ rows'[i].kind = rows[f[i]].kind \/ rows[f[i]].kind \in {"result", "warning"}
    BY <2>1
  <2>3. rows'[j].of # 0
    BY <2>2, <1>1, <1>4
  <2>4. f[j] \in 1 .. Len(rows) /\ rows'[j].of = rows[f[j]].of
    BY <2>3
  <2>5. f[i] < f[j] /\ NeedsResult(rows[f[i]])
    BY <2>2, <2>4, <1>4 DEF OwnInv
  <2> QED BY <2>2, <2>4, <2>5 DEF NeedsResult
<1>5. ASSUME NEW i \in 1 .. Len(rows'), rows'[i].id = current.id
      PROVE  rows'[i].kind = current.kind
  <2>1. rows'[i].id # born + 1
    BY <1>1, <1>2, <1>5
  <2>2. /\ f[i] \in 1 .. Len(rows) /\ rows'[i].id = rows[f[i]].id
        /\ rows'[i].kind = rows[f[i]].kind \/ rows[f[i]].kind \in {"result", "warning"}
    BY <2>1
  <2>3. rows[f[i]].kind = current.kind
    BY <2>2, <1>5 DEF OwnInv
  <2> QED BY <2>2, <2>3 DEF OwnInv, IsResult
<1>6. ASSUME current.id # 0, NEW j \in 1 .. Len(rows') PROVE rows'[j].of # current.id
  BY <1>6 DEF OwnInv
<1>7. \A j \in 1 .. Len(rows') : rows'[j].of \in 0 .. born'
  BY <1>1, <1>3
<1>8. current'.id \in 0 .. born'
  BY <1>1, <1>2
<1>9. /\ at' \in {"idle", "model", "plan", "warned"} => current' = NoRow
      /\ at' = "result" => NeedsResult(current')
      /\ ~IsResult(current')
  BY DEF OwnInv
<1>10. /\ \A i, j \in 1 .. Len(rows') :
             rows'[j].of = rows'[i].id => i < j /\ NeedsResult(rows'[i])
       /\ \A i \in 1 .. Len(rows') : rows'[i].id = current'.id => rows'[i].kind = current'.kind
       /\ current'.id # 0 => \A j \in 1 .. Len(rows') : rows'[j].of # current'.id
  BY <1>4, <1>5, <1>6
<1> QED BY <1>7, <1>8, <1>9, <1>10 DEF OwnInv, NeedsResult, IsResult

\* Rows that stay, of a turn that goes on with the row it is about or is done with it.
LEMMA OwnStays ==
  ASSUME OwnInv, RowInv, RowsStay, current' \in {current, NoRow},
         at' \in {"idle", "model", "plan", "warned"} => current' = NoRow,
         at' = "result" => NeedsResult(current')
  PROVE  OwnInv'
<1>1. rows' = rows /\ born' = born /\ NoRow.id = 0 /\ ~IsResult(NoRow)
  BY DEF RowsStay, NoRow, IsResult
<1>2. /\ 0 \in 0 .. born
      /\ \A i \in 1 .. Len(rows) : rows[i].id # 0
  BY RowFacts
<1>3. ~IsResult(current') /\ current'.id \in 0 .. born'
  BY <1>1, <1>2 DEF OwnInv
<1>4. CASE current' = current
  BY <1>1, <1>3, <1>4 DEF OwnInv, NeedsResult, IsResult
<1>5. CASE current' = NoRow
  BY <1>1, <1>2, <1>3, <1>5 DEF OwnInv, NeedsResult, IsResult
<1> QED BY <1>4, <1>5

LEMMA OwnKept == RowInv /\ OwnInv /\ [Next]_vars => OwnInv'
<1> SUFFICES ASSUME RowInv, OwnInv, [Next]_vars PROVE OwnInv'
  OBVIOUS
<1>1. CASE UNCHANGED vars
  BY <1>1 DEF vars, OwnInv, NeedsResult, IsResult
<1>2. CASE \/ TurnStarts \/ TurnThrows \/ PlanEnds \/ \E answer \in Answers : ModelAnswers(answer)
           \/ AppendThought \/ ActionEnds \/ BubbleEnds \/ WarnOperator \/ BubblePosted \/ Abort
           \/ Crash
  <2>1. RowsStay /\ current' \in {current, NoRow}
    BY <1>2 DEF TurnStarts, TurnThrows, PlanEnds, ModelAnswers, AppendThought, ActionEnds,
                BubbleEnds, WarnOperator, BubblePosted, Abort, Crash, RowsStay
  <2>2. CASE \/ TurnStarts \/ TurnThrows \/ PlanEnds \/ \E answer \in Answers : ModelAnswers(answer)
             \/ AppendThought \/ WarnOperator
    <3>1. at \in {"idle", "model", "plan", "warned"} /\ current' = current /\ at' # "result"
      BY <2>2 DEF TurnStarts, TurnThrows, PlanEnds, ModelAnswers, AppendThought, WarnOperator,
                  ItemIs
    <3>2. current' = NoRow
      BY <3>1 DEF OwnInv
    <3> QED BY <3>1, <3>2, <2>1, OwnStays
  <2>3. CASE ActionEnds \/ Crash
    <3>1. at' = "bubble" \/ (at' = "idle" /\ current' = NoRow)
      BY <2>3 DEF ActionEnds, Crash
    <3> QED BY <3>1, <2>1, OwnStays
  <2>4. CASE BubbleEnds
    <3>1. (at' = "result" /\ NeedsResult(current')) \/ (at' = "plan" /\ current' = NoRow)
      BY <2>4 DEF BubbleEnds, NeedsResult
    <3> QED BY <3>1, <2>1, OwnStays
  <2>5. CASE BubblePosted \/ Abort
    <3>1. at' = at /\ current' = current
      BY <2>5 DEF BubblePosted, Abort
    <3>2. /\ at' \in {"idle", "model", "plan", "warned"} => current' = NoRow
          /\ at' = "result" => NeedsResult(current')
      BY <3>1 DEF OwnInv
    <3> QED BY <3>2, <2>1, OwnStays
  <2> QED BY <1>2, <2>2, <2>3, <2>4, <2>5
<1>3. CASE AppendShown \/ AppendCall
  <2>1. PICK kind : kind = Head(plan)
    OBVIOUS
  <2>2. /\ kind \in {"prose", "html", "call", "plain"} /\ RowAppended(kind, 0)
        /\ current' = NewRow(kind, 0) /\ at' \in {"bubble", "action"}
    BY <1>3, <2>1 DEF AppendShown, AppendCall, ItemIs, RowAppended, AppendRow
  <2>3. kind \in Kinds /\ 0 \in Nat /\ ~IsResult(current')
    BY <2>2, NewKind DEF Kinds, IsResult
  <2> QED BY <2>2, <2>3, OwnAppended
<1>4. CASE AppendResult
  <2>1. /\ RowAppended("result", current.id) /\ current' = NoRow /\ at' = "plan"
        /\ NeedsResult(current)
    BY <1>4 DEF AppendResult, RowAppended, AppendRow, OwnInv
  <2>2. "result" \in Kinds /\ current.id \in Nat /\ ~IsResult(current')
    BY <2>1 DEF RowInv, Ranges, Rows, Kinds, IsResult, NoRow
  <2> QED BY <2>1, <2>2, OwnAppended
<1>5. CASE WarnModel \/ Submit
  <2>1. PICK kind \in {"warning", "operator"} : RowAppended(kind, 0)
    BY <1>5 DEF WarnModel, Submit, RowAppended, AppendRow
  <2>2. current' = current /\ (at' = at \/ (at = "warned" /\ at' = "plan"))
    BY <1>5 DEF WarnModel, Submit
  <2>3. /\ at' \in {"idle", "model", "plan", "warned"} => current' = NoRow
        /\ at' = "result" => NeedsResult(current')
        /\ ~IsResult(current')
    BY <2>2 DEF OwnInv
  <2>4. kind \in Kinds /\ 0 \in Nat
    BY DEF Kinds
  <2> QED BY <2>1, <2>2, <2>3, <2>4, OwnAppended
<1>6. CASE Edit
  <2>1. /\ rows' \in Seq(Rows) /\ born' = born /\ current' = current /\ at' = at
        /\ \E f : Thins(rows, rows', f)
    BY <1>6, EditThins DEF RowInv, Ascending, RowsThinned, Edit
  <2>2. PICK f : Thins(rows, rows', f)
    BY <2>1
  <2>3. /\ \A k \in 1 .. Len(rows') : f[k] \in 1 .. Len(rows) /\ rows'[k] = rows[f[k]]
        /\ \A k, l \in 1 .. Len(rows') : k < l => f[k] < f[l]
    BY <2>2 DEF Thins
  <2>4. ASSUME NEW k \in 1 .. Len(rows'), NEW l \in 1 .. Len(rows'), f[k] < f[l] PROVE k < l
    <3>1. f[k] \in Nat /\ f[l] \in Nat /\ k \in Nat /\ l \in Nat
      BY <2>3
    <3>2. ~(f[l] < f[k]) /\ f[k] # f[l]
      BY <3>1, <2>4
    <3> QED BY <3>1, <3>2, <2>3
  <2>5. born \in Nat /\ born' \in Nat /\ born <= born'
    BY <2>1, RowFacts
  <2> QED BY <2>1, <2>3, <2>4, <2>5, OwnKeptBy
<1>7. CASE Compact
  <2>1. /\ rows \in Seq(Rows) /\ born \in Nat /\ Len(rows) \in Nat
        /\ current' = current /\ at' = at
    BY <1>7, RowFacts DEF Compact
  <2>2. PICK n \in 0 .. Len(rows) : Renumbers(n)
    <3>1. \A p \in 1 .. Len(rows) :
            Boundary(p) \in 1 .. Len(rows) => Boundary(p) - 1 \in 0 .. Len(rows)
      BY <2>1
    <3>2. Len(rows) \in 0 .. Len(rows)
      BY <2>1
    <3> QED BY <3>1, <3>2, <2>1, <1>7, CompactRenumbers
  <2>3. PICK f : f = [k \in Nat |-> k]
    OBVIOUS
  <2>4. rows' \in Seq(Rows) /\ Len(rows') \in {n, n + 1} /\ n \in Nat /\ n <= Len(rows)
    BY <2>1, <2>2 DEF Renumbers
  <2>5. ASSUME NEW k \in 1 .. Len(rows')
        PROVE  \/ /\ f[k] \in 1 .. Len(rows)
                  /\ rows'[k].id = rows[f[k]].id /\ rows'[k].of = rows[f[k]].of
                  /\ \/ rows'[k].kind = rows[f[k]].kind
                     \/ rows[f[k]].kind \in {"result", "warning"}
               \/ rows'[k].id = born + 1 /\ rows'[k].of = 0 /\ k = Len(rows')
    <3>1. k \in Nat /\ f[k] = k
      BY <2>3, <2>4
    <3>2. CASE k \in 1 .. n
      BY <3>1, <3>2, <2>1, <2>2, <2>4 DEF Renumbers, IsResult
    <3>3. CASE k \notin 1 .. n
      BY <3>1, <3>3, <2>2, <2>4 DEF Renumbers
    <3> QED BY <3>2, <3>3
  <2>6. \A k, l \in 1 .. Len(rows') : f[k] < f[l] /\ f[l] \in 1 .. Len(rows)
                                       /\ f[k] \in 1 .. Len(rows) => k < l
    BY <2>3, <2>4
  <2>7. born' \in Nat /\ born <= born'
    BY <2>1, <2>2 DEF Renumbers
  <2> QED BY <2>1, <2>4, <2>5, <2>6, <2>7, OwnKeptBy
<1> QED BY <1>1, <1>2, <1>3, <1>4, <1>5, <1>6, <1>7 DEF Next, TurnStep, OperatorStep

LEMMA OwnHolds == Spec => []OwnInv
<1>1. Init => OwnInv
  BY DEF Init, OwnInv, NoRow, IsResult
<1> QED BY <1>1, OwnKept, RowInvHolds, PTL DEF Spec

\* A row more adds a result, or nothing, to the halves of a pair.
LEMMA HalvesAppended ==
  ASSUME RowInv, NEW kind \in Kinds, NEW of \in Nat, RowAppended(kind, of), NEW x \in 1 .. born
  PROVE  /\ HasCall(x)' <=> HasCall(x)
         /\ HasResult(x)' <=> HasResult(x) \/ of = x
<1>1. /\ Len(rows') = Len(rows) + 1 /\ Len(rows) \in Nat /\ born \in Nat
      /\ \A i \in 1 .. Len(rows) : rows'[i] = rows[i] /\ i \in 1 .. Len(rows')
      /\ rows'[Len(rows')] = NewRow(kind, of) /\ Len(rows') \in 1 .. Len(rows')
      /\ \A i \in 1 .. Len(rows') : i \in 1 .. Len(rows) \/ i = Len(rows')
  <2>1. /\ Len(rows') = Len(rows) + 1 /\ Len(rows) \in Nat /\ born \in Nat
        /\ \A i \in 1 .. Len(rows) : rows'[i] = rows[i]
        /\ rows'[Len(rows')] = NewRow(kind, of)
        /\ \A i \in 1 .. Len(rows') : i \in 1 .. Len(rows) \/ i = Len(rows')
    BY Appended, RowFacts DEF RowInv
  <2> QED BY <2>1
<1>2. NewRow(kind, of).id = born + 1 /\ NewRow(kind, of).of = of /\ x # born + 1
  BY <1>1 DEF NewRow
<1>3. HasCall(x)' <=> HasCall(x)
  BY <1>1, <1>2 DEF HasCall, NeedsResult
<1>4. HasResult(x)' <=> HasResult(x) \/ of = x
  BY <1>1, <1>2 DEF HasResult
<1> QED BY <1>3, <1>4

\* What is gone behind a boundary took no half of what is Joined, nor left one.
LEMMA CutParts ==
  ASSUME RowInv, OwnInv, NEW p \in 1 .. Len(rows), Edit \/ Compact,
         NEW x \in 1 .. born, Halved(x)', ~Halved(x), current' = current,
         \A k \in 1 .. Boundary(p) - 1 :
           /\ k \in 1 .. Len(rows') /\ rows'[k].id = rows[k].id /\ rows'[k].of = rows[k].of
           /\ NeedsResult(rows'[k]) <=> NeedsResult(rows[k]),
         \A k \in 1 .. Len(rows') :
           k \in 1 .. Boundary(p) - 1 \/ (rows'[k].id = born + 1 /\ rows'[k].of = 0)
  PROVE  CutsLoosePair(x)
<1>1. PICK b : b = Boundary(p)
  OBVIOUS
<1>2. /\ b \in 1 .. p
      /\ b > 1 => ~IsResult(rows[b]) /\ ~IsInvocation(rows[b - 1])
      /\ p \in Nat /\ Len(rows) \in Nat /\ born \in Nat
  BY <1>1, BoundaryIsOutside, RowFacts
<1>3. x # born + 1 /\ x # 0 /\ x # current.id
  BY <1>2 DEF Halved
<1>4. (HasCall(x) <=> HasResult(x)) /\ ~(HasCall(x)' <=> HasResult(x)')
  <2>1. HasCall(x) \in BOOLEAN /\ HasResult(x) \in BOOLEAN
    BY DEF HasCall, HasResult
  <2>2. HasCall(x)' \in BOOLEAN /\ HasResult(x)' \in BOOLEAN
    BY DEF HasCall, HasResult
  <2> QED BY <2>1, <2>2, <1>3 DEF Halved
<1>5. \A k \in 1 .. b - 1 : k \in 1 .. Len(rows)
  BY <1>2
<1>6. HasCall(x)' <=> \E k \in 1 .. b - 1 : NeedsResult(rows[k]) /\ rows[k].id = x
  BY <1>1, <1>3 DEF HasCall, NeedsResult
<1>7. HasResult(x)' <=> \E k \in 1 .. b - 1 : rows[k].of = x
  BY <1>1, <1>3 DEF HasResult
<1>8. HasCall(x) /\ HasResult(x)
  BY <1>4, <1>5, <1>6, <1>7 DEF HasCall, HasResult
<1>9. PICK i \in 1 .. Len(rows) : NeedsResult(rows[i]) /\ rows[i].id = x
  BY <1>8 DEF HasCall
<1>10. PICK j \in 1 .. Len(rows) : rows[j].of = x
  BY <1>8 DEF HasResult
<1>11. \A k \in 1 .. Len(rows) : rows[k].of = x => i < k
  BY <1>9 DEF OwnInv
<1>12. i \in 1 .. b - 1 /\ j \notin 1 .. b - 1
  <2>1. CASE i \notin 1 .. b - 1
    <3>1. ~HasCall(x)'
      BY <2>1, <1>5, <1>6, <1>9, RowFacts
    <3>2. ASSUME NEW k \in 1 .. b - 1, rows[k].of = x PROVE FALSE
      <4>1. i < k
        BY <3>2, <1>5, <1>11
      <4> QED BY <4>1, <2>1, <1>2
    <3> QED BY <3>1, <3>2, <1>4, <1>7
  <2>2. CASE i \in 1 .. b - 1
    BY <2>2, <1>4, <1>6, <1>7, <1>9, <1>10
  <2> QED BY <2>1, <2>2
<1>13. i < b /\ b <= j /\ b > 1
  BY <1>2, <1>12
<1>14. ~Joined(i, j)
  <2> SUFFICES ASSUME Joined(i, j) PROVE FALSE
    OBVIOUS
  <2>1. IsResult(rows[j]) /\ ~IsResult(rows[b]) /\ ~IsInvocation(rows[b - 1])
    BY <1>2, <1>13 DEF Joined
  <2>2. b # j
    BY <2>1
  <2>3. j - i > 1
    BY <2>2, <1>2, <1>13
  <2>4. j - i <= 2 /\ IsInvocation(rows[i])
    BY <2>3 DEF Joined
  <2>5. i = b - 1
    BY <2>2, <2>4, <1>2, <1>13
  <2> QED BY <2>1, <2>4, <2>5
<1> QED BY <1>9, <1>10, <1>14 DEF CutsLoosePair

LEMMA HalvesKept ==
  ASSUME RowInv, OwnInv, [Next]_vars, NEW x \in 1 .. born, Halved(x)', ~Halved(x)
  PROVE  DeletesPlainCall(x) \/ CutsLoosePair(x) \/ AnswersNoCall(x) \/ DiesInMarker(x)
<1>1. born \in Nat /\ Len(rows) \in Nat /\ x # 0 /\ x # current'.id
  BY RowFacts DEF Halved
<1>2. ASSUME rows' = rows, x # current.id PROVE FALSE
  BY <1>1, <1>2 DEF Halved, HasCall, HasResult, NeedsResult
<1>3. ASSUME rows' = rows, current' = current PROVE FALSE
  BY <1>1, <1>2, <1>3
<1>4. UNCHANGED vars => FALSE
  BY <1>3 DEF vars
<1>5. CASE Crash
  <2>1. rows' = rows
    BY <1>5 DEF Crash
  <2> QED BY <2>1, <1>2, <1>5 DEF DiesInMarker
<1>6. CASE \/ TurnStarts \/ TurnThrows \/ PlanEnds \/ \E answer \in Answers : ModelAnswers(answer)
           \/ AppendThought \/ ActionEnds \/ WarnOperator \/ BubblePosted \/ Abort
  <2>1. rows' = rows /\ current' = current
    BY <1>6 DEF TurnStarts, TurnThrows, PlanEnds, ModelAnswers, AppendThought, ActionEnds,
                WarnOperator, BubblePosted, Abort
  <2> QED BY <2>1, <1>3
<1>7. CASE BubbleEnds
  <2>1. rows' = rows /\ (current' = current \/ ~NeedsResult(current))
    BY <1>7 DEF BubbleEnds
  <2>2. x = current.id /\ ~NeedsResult(current)
    BY <2>1, <1>2, <1>3
  <2>3. ~HasCall(x) /\ ~HasResult(x)
    BY <2>2, <1>1 DEF OwnInv, HasCall, HasResult, NeedsResult
  <2>4. ~HasCall(x)' /\ ~HasResult(x)'
    BY <2>1, <2>3 DEF HasCall, HasResult, NeedsResult
  <2>5. HasCall(x)' \in BOOLEAN /\ HasResult(x)' \in BOOLEAN
    BY DEF HasCall, HasResult
  <2> QED BY <2>4, <2>5 DEF Halved
<1>8. ASSUME NEW kind \in Kinds, RowAppended(kind, 0), current.id \in {0, current'.id} PROVE FALSE
  <2>1. x # current.id
    BY <1>1, <1>8
  <2>2. (HasCall(x)' <=> HasCall(x)) /\ (HasResult(x)' <=> HasResult(x))
    BY <1>1, <1>8, HalvesAppended
  <2>3. HasCall(x) \in BOOLEAN /\ HasResult(x) \in BOOLEAN
    BY DEF HasCall, HasResult
  <2>4. HasCall(x)' \in BOOLEAN /\ HasResult(x)' \in BOOLEAN
    BY DEF HasCall, HasResult
  <2> QED BY <2>1, <2>2, <2>3, <2>4 DEF Halved
<1>9. CASE AppendShown \/ AppendCall
  <2>1. Head(plan) \in Kinds /\ RowAppended(Head(plan), 0) /\ at = "plan"
    BY <1>9 DEF AppendShown, AppendCall, ItemIs, RowAppended, AppendRow, Kinds
  <2>2. current.id = 0
    BY <2>1 DEF OwnInv, NoRow
  <2> QED BY <2>1, <2>2, <1>8
<1>10. CASE WarnModel \/ Submit
  <2>1. current' = current /\ (RowAppended("warning", 0) \/ RowAppended("operator", 0))
    BY <1>10 DEF WarnModel, Submit, RowAppended, AppendRow
  <2> QED BY <2>1, <1>8 DEF Kinds
<1>11. CASE AppendResult
  <2>1. RowAppended("result", current.id) /\ current.id \in Nat /\ "result" \in Kinds
    BY <1>11 DEF AppendResult, RowAppended, RowInv, Ranges, Rows, Kinds
  <2>2. (HasCall(x)' <=> HasCall(x)) /\ (HasResult(x)' <=> HasResult(x) \/ current.id = x)
    BY <2>1, HalvesAppended
  <2>3. HasCall(x) \in BOOLEAN /\ HasResult(x) \in BOOLEAN
    BY DEF HasCall, HasResult
  <2>4. HasCall(x)' \in BOOLEAN /\ HasResult(x)' \in BOOLEAN
    BY DEF HasCall, HasResult
  <2>5. x = current.id
    BY <2>2, <2>3, <2>4 DEF Halved
  <2>6. ~HasCall(x)
    BY <2>2, <2>3, <2>4, <2>5 DEF Halved
  <2> QED BY <2>5, <2>6, <1>11 DEF AnswersNoCall
<1>12. ASSUME NEW p \in 1 .. Len(rows), TruncateFrom(p), Edit PROVE CutsLoosePair(x)
  <2>1. /\ rows' \in Seq(Rows) /\ Len(rows') = Boundary(p) - 1
        /\ \A k \in 1 .. Len(rows') : rows'[k] = rows[k]
    BY <1>12, TruncateThins, RowFacts
  <2>2. current' = current
    BY <1>12 DEF Edit
  <2>3. /\ \A k \in 1 .. Boundary(p) - 1 :
             /\ k \in 1 .. Len(rows') /\ rows'[k].id = rows[k].id /\ rows'[k].of = rows[k].of
             /\ NeedsResult(rows'[k]) <=> NeedsResult(rows[k])
        /\ \A k \in 1 .. Len(rows') :
             k \in 1 .. Boundary(p) - 1 \/ (rows'[k].id = born + 1 /\ rows'[k].of = 0)
    BY <2>1
  <2> QED BY <2>2, <2>3, <1>12, CutParts
<1>13. ASSUME NEW p \in 1 .. Len(rows), DeleteOne(p), Edit
       PROVE  DeletesPlainCall(x) \/ CutsLoosePair(x)
  <2>1. /\ Len(rows') = Len(rows) - 1
        /\ \A k \in 1 .. Len(rows') : rows'[k] = IF k < p THEN rows[k] ELSE rows[k + 1]
    BY <1>13, DeleteOneThins, RowFacts
  <2>2. \A k \in 1 .. Len(rows') : \E l \in 1 .. Len(rows) : rows'[k] = rows[l]
    BY <2>1, <1>1
  <2>3. \A l \in 1 .. Len(rows) : l = p \/ \E k \in 1 .. Len(rows') : rows'[k] = rows[l]
    <3>1. ASSUME NEW l \in 1 .. Len(rows), l < p
          PROVE  l \in 1 .. Len(rows') /\ rows'[l] = rows[l]
      BY <3>1, <2>1, <1>1
    <3>2. ASSUME NEW l \in 1 .. Len(rows), p < l
          PROVE  l - 1 \in 1 .. Len(rows') /\ rows'[l - 1] = rows[l]
      <4>1. l - 1 \in 1 .. Len(rows') /\ ~(l - 1 < p) /\ (l - 1) + 1 = l
        BY <3>2, <2>1, <1>1
      <4> QED BY <4>1, <2>1
    <3>3. \A l \in 1 .. Len(rows) : l < p \/ l = p \/ p < l
      BY <1>1
    <3> QED BY <3>1, <3>2, <3>3
  <2>4. (HasCall(x)' => HasCall(x)) /\ (HasResult(x)' => HasResult(x))
    BY <2>2 DEF HasCall, HasResult, NeedsResult
  <2>5. x # current.id
    BY <1>1, <1>13 DEF Edit
  <2>6. HasCall(x) /\ HasResult(x) /\ (~HasCall(x)' \/ ~HasResult(x)')
    <3>1. HasCall(x) \in BOOLEAN /\ HasResult(x) \in BOOLEAN
      BY DEF HasCall, HasResult
    <3>2. HasCall(x)' \in BOOLEAN /\ HasResult(x)' \in BOOLEAN
      BY DEF HasCall, HasResult
    <3> QED BY <3>1, <3>2, <2>4, <2>5 DEF Halved
  <2>7. ~IsInvocation(rows[p]) /\ ~IsResult(rows[p])
    BY <1>13 DEF DeleteOne
  <2>8. CASE ~HasCall(x)'
    <3>1. PICK i \in 1 .. Len(rows) : NeedsResult(rows[i]) /\ rows[i].id = x
      BY <2>6 DEF HasCall
    <3>2. i = p
      BY <3>1, <2>3, <2>8 DEF HasCall, NeedsResult
    <3>3. rows[p].kind = "plain"
      BY <3>1, <3>2, <2>7 DEF NeedsResult, IsInvocation
    <3> QED BY <3>1, <3>2, <3>3, <1>13 DEF DeletesPlainCall
  <2>9. CASE ~HasResult(x)'
    <3>1. PICK j \in 1 .. Len(rows) : rows[j].of = x
      BY <2>6 DEF HasResult
    <3>2. j = p
      BY <3>1, <2>3, <2>9 DEF HasResult
    <3>3. PICK i \in 1 .. Len(rows) : rows[i].id = x
      BY <2>6 DEF HasCall
    <3>4. ~Joined(i, j)
      BY <3>2, <2>7 DEF Joined
    <3> QED BY <3>1, <3>3, <3>4, <1>13 DEF CutsLoosePair
  <2> QED BY <2>6, <2>8, <2>9
<1>14. CASE Edit
  <2>1. PICK p \in 1 .. Len(rows) : DeleteOne(p) \/ TruncateFrom(p)
    BY <1>14 DEF Edit
  <2> QED BY <2>1, <1>12, <1>13, <1>14
<1>15. CASE Compact
  <2>1. rows \in Seq(Rows) /\ current' = current /\ x # current.id
    BY <1>1, <1>15, RowFacts DEF Compact
  <2>2. ASSUME NEW n \in 0 .. Len(rows), Renumbers(n)
        PROVE  /\ \A k \in 1 .. n :
                    /\ k \in 1 .. Len(rows') /\ rows'[k].id = rows[k].id /\ rows'[k].of = rows[k].of
                    /\ NeedsResult(rows'[k]) <=> NeedsResult(rows[k])
               /\ \A k \in 1 .. Len(rows') :
                    k \in 1 .. n \/ (rows'[k].id = born + 1 /\ rows'[k].of = 0)
    <3>1. n \in Nat /\ Len(rows') \in {n, n + 1}
      BY <2>2, <1>1 DEF Renumbers
    <3>2. ASSUME NEW k \in 1 .. n
          PROVE  /\ k \in 1 .. Len(rows') /\ rows'[k].id = rows[k].id /\ rows'[k].of = rows[k].of
                 /\ NeedsResult(rows'[k]) <=> NeedsResult(rows[k])
      <4>1. k \in 1 .. Len(rows')
        BY <3>1
      <4>2. /\ rows'[k].id = rows[k].id /\ rows'[k].of = rows[k].of
            /\ \/ rows'[k].kind = rows[k].kind
               \/ rows[k].kind \in {"result", "warning"} /\ rows'[k].kind = "note"
        BY <2>2, <3>2 DEF Renumbers, IsResult
      <4>3. NeedsResult(rows'[k]) <=> NeedsResult(rows[k])
        BY <4>2 DEF NeedsResult
      <4> QED BY <4>1, <4>2, <4>3
    <3>3. ASSUME NEW k \in 1 .. Len(rows'), k \notin 1 .. n
          PROVE  rows'[k].id = born + 1 /\ rows'[k].of = 0
      <4>1. k = n + 1 /\ Len(rows') = n + 1 /\ Len(rows') # n
        BY <3>1, <3>3
      <4> QED BY <4>1, <2>2 DEF Renumbers
    <3> QED BY <3>2, <3>3
  <2>3. CASE Renumbers(Len(rows)) /\ born' = born
    <3>1. /\ \A k \in 1 .. Len(rows) :
               /\ k \in 1 .. Len(rows') /\ rows'[k].id = rows[k].id /\ rows'[k].of = rows[k].of
               /\ NeedsResult(rows'[k]) <=> NeedsResult(rows[k])
          /\ \A k \in 1 .. Len(rows') :
               k \in 1 .. Len(rows) \/ (rows'[k].id = born + 1 /\ rows'[k].of = 0)
      BY <2>2, <2>3, <1>1
    <3>2. x # born + 1
      BY <1>1
    <3>3. (HasCall(x)' <=> HasCall(x)) /\ (HasResult(x)' <=> HasResult(x))
      BY <3>1, <3>2, <1>1 DEF HasCall, HasResult, NeedsResult
    <3>4. HasCall(x) \in BOOLEAN /\ HasResult(x) \in BOOLEAN
      BY DEF HasCall, HasResult
    <3>5. HasCall(x)' \in BOOLEAN /\ HasResult(x)' \in BOOLEAN
      BY DEF HasCall, HasResult
    <3> QED BY <3>3, <3>4, <3>5, <2>1 DEF Halved
  <2>4. ASSUME NEW p \in 1 .. Len(rows), Boundary(p) \in 1 .. Len(rows),
               Renumbers(Boundary(p) - 1)
        PROVE  CutsLoosePair(x)
    <3>1. Boundary(p) - 1 \in 0 .. Len(rows)
      BY <2>4, <1>1
    <3> QED BY <3>1, <2>1, <2>2, <2>4, <1>15, CutParts
  <2> QED BY <2>1, <2>3, <2>4, <1>1, <1>15, CompactRenumbers
<1> QED BY <1>4, <1>5, <1>6, <1>7, <1>9, <1>10, <1>11, <1>14, <1>15
        DEF Next, TurnStep, OperatorStep

\* A call and its result come apart only by the deletion of a §read, §grep or §edit row,
\* by a cut or a deletion where submissions or a compaction stand between the two, because
\* the call was gone before the result came, or because the process died in the marker.
THEOREM PairsStayWhole == Spec => NothingElseParts
<1>1. RowInv /\ OwnInv /\ [Next]_vars => [Halves]_vars
  BY HalvesKept DEF Halves
<1> QED BY <1>1, RowInvHolds, OwnHolds, PTL DEF Spec, NothingElseParts, Halves

=============================================================================
