----------------------------- MODULE ForksProofs -----------------------------
(***************************************************************************)
(* Theorems about Forks, for every bound on agents and rows.  The order    *)
(* is: slices, the equations that getFullMessages() solves and why they    *)
(* have one solution, what each kind of step does to that solution, the    *)
(* inductive invariant, and the refinement.                                *)
(***************************************************************************)
EXTENDS Forks, SequenceTheorems, WellFoundedInduction, TLAPS

-----------------------------------------------------------------------------
(***************************************************************************)
(* Slices.                                                                 *)
(***************************************************************************)

\* slice(0, n) is the prefix of length n, or all of a shorter sequence.
LEMMA SliceProperties ==
  ASSUME NEW S, NEW s \in Seq(S), NEW n \in Nat
  PROVE  /\ Slice(s, n) \in Seq(S)
         /\ Len(Slice(s, n)) = IF n < Len(s) THEN n ELSE Len(s)
         /\ \A i \in 1 .. Len(Slice(s, n)) : Slice(s, n)[i] = s[i]
<1> DEFINE m == IF n < Len(s) THEN n ELSE Len(s)
<1>1. m \in 0 .. Len(s) /\ Len(s) \in Nat
  OBVIOUS
<1>2. \A i \in 1 .. m : s[i] \in S
  BY <1>1
<1>3. Slice(s, n) = SubSeq(s, 1, m)
  BY DEF Slice
<1> HIDE DEF m
<1>4. /\ SubSeq(s, 1, m) \in Seq(S)
      /\ Len(SubSeq(s, 1, m)) = IF 1 <= m THEN m - 1 + 1 ELSE 0
      /\ \A i \in 1 .. m - 1 + 1 : SubSeq(s, 1, m)[i] = s[1 + i - 1]
  BY <1>1, <1>2, SubSeqProperties
<1>5. Len(SubSeq(s, 1, m)) = m
  BY <1>1, <1>4
<1> QED BY <1>1, <1>3, <1>4, <1>5 DEF m

\* Two sequences that agree on the first n elements have the same slice.
LEMMA SliceOfSamePrefix ==
  ASSUME NEW S, NEW s \in Seq(S), NEW t \in Seq(S), NEW n \in Nat,
         n <= Len(s), n <= Len(t), \A i \in 1 .. n : s[i] = t[i]
  PROVE  Slice(s, n) = Slice(t, n)
<1>1. /\ Slice(s, n) \in Seq(S) /\ Len(Slice(s, n)) = n
      /\ \A i \in 1 .. n : Slice(s, n)[i] = s[i]
  BY SliceProperties
<1>2. /\ Slice(t, n) \in Seq(S) /\ Len(Slice(t, n)) = n
      /\ \A i \in 1 .. n : Slice(t, n)[i] = t[i]
  BY SliceProperties
<1> QED BY <1>1, <1>2, SeqEqual

\* What remains of a sequence cut before its i-th element, with something put behind.
LEMMA Cut ==
  ASSUME NEW S, NEW s \in Seq(S), NEW i \in 1 .. Len(s), NEW t \in Seq(S)
  PROVE  /\ SubSeq(s, 1, i - 1) \o t \in Seq(S)
         /\ Len(SubSeq(s, 1, i - 1) \o t) >= i - 1
         /\ \A j \in 1 .. i - 1 : (SubSeq(s, 1, i - 1) \o t)[j] = s[j]
<1>1. i - 1 \in Nat /\ i - 1 <= Len(s) /\ Len(s) \in Nat
  OBVIOUS
<1>2. PICK u : u = SubSeq(s, 1, i - 1)
  OBVIOUS
<1>3. u \in Seq(S) /\ Len(u) = i - 1 /\ \A j \in 1 .. i - 1 : u[j] = s[j]
  <2>1. \A j \in 1 .. i - 1 : s[j] \in S
    BY <1>1
  <2>2. /\ SubSeq(s, 1, i - 1) \in Seq(S)
        /\ Len(SubSeq(s, 1, i - 1)) = IF 1 <= i - 1 THEN i - 1 - 1 + 1 ELSE 0
        /\ \A j \in 1 .. i - 1 - 1 + 1 : SubSeq(s, 1, i - 1)[j] = s[1 + j - 1]
    BY <1>1, <2>1, SubSeqProperties
  <2> QED BY <1>1, <1>2, <2>2
<1>4. /\ u \o t \in Seq(S) /\ Len(u \o t) = Len(u) + Len(t) /\ Len(t) \in Nat
      /\ \A j \in 1 .. Len(u) : (u \o t)[j] = u[j]
  BY <1>3
<1> QED BY <1>1, <1>2, <1>3, <1>4

\* The elements behind the i-th one.
LEMMA Rest ==
  ASSUME NEW S, NEW s \in Seq(S), NEW i \in 1 .. Len(s)
  PROVE  SubSeq(s, i + 1, Len(s)) \in Seq(S)
<1>1. i + 1 \in Int /\ Len(s) \in Int /\ \A j \in i + 1 .. Len(s) : s[j] \in S
  OBVIOUS
<1> QED BY <1>1, SubSeqProperties

\* Two sequences of messages, one behind the other.
LEMMA Joined ==
  ASSUME NEW s \in Seq(Messages), NEW t \in Seq(Messages)
  PROVE  /\ s \o t \in Seq(Messages)
         /\ Len(s) \in Nat /\ Len(t) \in Nat
         /\ Len(s \o t) = Len(s) + Len(t)
         /\ \A i \in 1 .. Len(s) : (s \o t)[i] = s[i]
         /\ \A i \in 1 .. Len(t) : (s \o t)[Len(s) + i] = t[i]
  OBVIOUS

-----------------------------------------------------------------------------
(***************************************************************************)
(* The equations of getFullMessages().                                     *)
(***************************************************************************)
Piece(par, off, own, f, a) ==
  IF par[a] = NoParent THEN own[a] ELSE Slice(f[par[a]], off[a]) \o own[a]

Solves(par, off, own, f) == f = [a \in Ids |-> Piece(par, off, own, f, a)]

\* Parents are made before their children: no chain of parents is a cycle.
Older(par) == \A a \in Ids : par[a] # NoParent => par[a] \in Ids /\ par[a] < a

\* A nonempty set of naturals has a least element.
LEMMA LeastOfNaturals ==
  ASSUME NEW T, T \subseteq Nat, T # {}
  PROVE  \E x \in T : \A y \in T : x <= y
<1> DEFINE Less == {ss \in Nat \X Nat : ss[1] < ss[2]}
<1>1. IsWellFoundedOn(Less, Nat)
  BY NatLessThanWellFounded DEF OpToRel
<1>2. PICK x \in T : \A y \in T : ~(<<y, x>> \in Less)
  <2> HIDE DEF Less
  <2> QED BY <1>1, WFMin
<1>3. ASSUME NEW y \in T PROVE x <= y
  <2>1. ~(<<y, x>> \in Less) /\ x \in Nat /\ y \in Nat
    BY <1>2
  <2>2. ~(y < x)
    BY <2>1
  <2> QED BY <2>1, <2>2
<1> QED BY <1>3

\* Whoever reads along older parents reads one thing: look at the first agent on which
\* two readings differ.
LEMMA OneReading ==
  ASSUME NEW par, NEW off, NEW own, NEW f, NEW g,
         Older(par), Solves(par, off, own, f), Solves(par, off, own, g)
  PROVE  f = g
<1> DEFINE Differ == {a \in Ids : f[a] # g[a]}
<1>1. SUFFICES ASSUME Differ # {} PROVE FALSE
  <2>1. /\ f = [a \in Ids |-> Piece(par, off, own, f, a)]
        /\ g = [a \in Ids |-> Piece(par, off, own, g, a)]
    BY DEF Solves
  <2>2. CASE Differ = {}
    <3>1. \A a \in Ids : f[a] = g[a]
      BY <2>2
    <3>2. f = [a \in Ids |-> f[a]] /\ g = [a \in Ids |-> g[a]]
      BY <2>1, Zenon
    <3> QED BY <3>1, <3>2
  <2> QED BY <2>2, <1>1
<1>2. Differ \subseteq Nat
  BY DEF Ids
<1>3. PICK a \in Differ : \A b \in Differ : a <= b
  <2> HIDE DEF Differ
  <2> QED BY <1>1, <1>2, LeastOfNaturals
<1>4. par[a] # NoParent => f[par[a]] = g[par[a]]
  BY <1>3 DEF Older, Ids
<1>5. Piece(par, off, own, f, a) = Piece(par, off, own, g, a)
  BY <1>4 DEF Piece
<1>6. a \in Ids /\ f[a] # g[a]
  OBVIOUS
<1>7. f[a] = Piece(par, off, own, f, a) /\ g[a] = Piece(par, off, own, g, a)
  BY <1>6 DEF Solves
<1> QED BY <1>5, <1>6, <1>7

\* A solution of the equations is what getFullMessages() computes.
LEMMA Reading ==
  ASSUME NEW par, NEW off, NEW own, NEW f, Older(par), Solves(par, off, own, f)
  PROVE  Assembled(par, off, own) = f
<1> DEFINE P(g) == g = [a \in Ids |-> IF par[a] = NoParent THEN own[a]
                                      ELSE Slice(g[par[a]], off[a]) \o own[a]]
<1>1. Assembled(par, off, own) = CHOOSE g : P(g)
  BY DEF Assembled
<1>2. P(f)
  BY DEF Solves, Piece
<1>3. P(CHOOSE g : P(g))
  BY <1>2
<1>4. Solves(par, off, own, Assembled(par, off, own))
  BY <1>1, <1>3 DEF Solves, Piece
<1> QED BY <1>4, OneReading

\* When the tables change for agent a alone, and nobody sees its own slice of a's
\* transcript change, the reading changes for a alone.
LEMMA OneChanges ==
  ASSUME NEW par, NEW off, NEW own, NEW f, Solves(par, off, own, f),
         NEW par2, NEW off2, NEW own2, Older(par2), NEW a \in Ids, NEW h,
         \A x \in Ids \ {a} : par2[x] = par[x] /\ off2[x] = off[x] /\ own2[x] = own[x],
         h = Piece(par2, off2, own2, f, a),
         \A x \in Ids \ {a} : par[x] = a => Slice(h, off[x]) = Slice(f[a], off[x])
  PROVE  /\ Assembled(par2, off2, own2) = [f EXCEPT ![a] = h]
         /\ Solves(par2, off2, own2, [f EXCEPT ![a] = h])
<1> DEFINE g == [f EXCEPT ![a] = h]
<1>1. f = [x \in Ids |-> Piece(par, off, own, f, x)]
  BY DEF Solves
<1>2. DOMAIN f = Ids
  BY <1>1
<1>3. g = [x \in Ids |-> g[x]] /\ g[a] = h /\ \A x \in Ids \ {a} : g[x] = f[x]
  BY <1>2
<1> HIDE DEF g
<1>4. g[a] = Piece(par2, off2, own2, g, a)
  <2>1. par2[a] # NoParent => g[par2[a]] = f[par2[a]]
    BY <1>3 DEF Older, Ids
  <2> QED BY <2>1, <1>3 DEF Piece
<1>5. ASSUME NEW x \in Ids \ {a} PROVE g[x] = Piece(par2, off2, own2, g, x)
  <2>1. f[x] = Piece(par, off, own, f, x)
    BY <1>1
  <2>2. par2[x] = par[x] /\ off2[x] = off[x] /\ own2[x] = own[x]
    OBVIOUS
  <2>3. par[x] # NoParent => Slice(g[par[x]], off[x]) = Slice(f[par[x]], off[x])
    <3>1. par[x] # NoParent => par[x] \in Ids
      BY <2>2 DEF Older
    <3>2. CASE par[x] = a
      BY <3>2, <1>3
    <3>3. CASE par[x] # a
      BY <3>3, <3>1, <1>3
    <3> QED BY <3>2, <3>3
  <2> QED BY <1>3, <2>1, <2>2, <2>3 DEF Piece
<1>6. g = [x \in Ids |-> Piece(par2, off2, own2, g, x)]
  <2>1. \A x \in Ids : g[x] = Piece(par2, off2, own2, g, x)
    BY <1>4, <1>5
  <2> QED BY <2>1, <1>3
<1>7. Solves(par2, off2, own2, g)
  BY <1>6 DEF Solves
<1> QED BY <1>7, Reading DEF g

-----------------------------------------------------------------------------
(***************************************************************************)
(* The inductive invariant.                                                *)
(***************************************************************************)

\* A link to a parent joins two rows, the parent's the older one.
Linked ==
  \A a \in Ids : parent[a] # NoParent => Exists(a) /\ Exists(parent[a]) /\ parent[a] < a

\* Nothing has an id the counter has not reached.
Fresh == \A a \in Ids : status[a] # "unborn" => a <= idCounter

\* The equations have a solution, of sequences of messages, and every boundary lies
\* within what the parent reads.
Reads ==
  /\ Full \in [Ids -> Seq(Messages)]
  /\ Solves(parent, offset, Readable, Full)
  /\ \A c \in Ids : IF parent[c] = NoParent THEN offset[c] = 0
                                              ELSE offset[c] <= Len(Full[parent[c]])

CachedAreActive == \A a \in cached : status[a] = "active"

\* OwnContinuation, as a type.
OwnMessages(a) == {m \in Messages : m.by = a}
OwnRows == \A a \in Ids : rows[a] \in Seq(OwnMessages(a))

Inv == TypeOK /\ Linked /\ Fresh /\ Reads /\ CachedAreActive /\ OwnRows

\* What an agent reads: as much of its parent as its boundary says, then its own rows.
LEMMA Shape ==
  ASSUME Inv, NEW a \in Ids
  PROVE  /\ Full[a] = Inherited(parent[a], offset[a]) \o Readable[a]
         /\ Inherited(parent[a], offset[a]) \in Seq(Messages)
         /\ Len(Inherited(parent[a], offset[a])) = offset[a]
         /\ Readable[a] \in Seq(Messages)
         /\ Len(Full[a]) = offset[a] + Len(Readable[a])
         /\ \A i \in 1 .. offset[a] : Full[a][i] = Inherited(parent[a], offset[a])[i]
<1>1. /\ Full \in [Ids -> Seq(Messages)] /\ offset[a] \in Nat
      /\ parent[a] \in Ids \cup {NoParent} /\ rows[a] \in Seq(Messages)
  BY DEF Inv, Reads, TypeOK
<1>2. Readable[a] \in Seq(Messages)
  BY <1>1 DEF Readable
<1>3. Full[a] = Piece(parent, offset, Readable, Full, a)
  BY DEF Inv, Reads, Solves
<1>4. /\ Inherited(parent[a], offset[a]) \in Seq(Messages)
      /\ Len(Inherited(parent[a], offset[a])) = offset[a]
      /\ Full[a] = Inherited(parent[a], offset[a]) \o Readable[a]
  <2>1. CASE parent[a] = NoParent
    <3>1. Inherited(parent[a], offset[a]) = <<>> /\ offset[a] = 0 /\ Full[a] = Readable[a]
      BY <2>1, <1>3 DEF Inherited, Piece, Inv, Reads
    <3> QED BY <3>1, <1>2, ConcatEmptySeq
  <2>2. CASE parent[a] # NoParent
    <3>1. /\ Inherited(parent[a], offset[a]) = Slice(Full[parent[a]], offset[a])
          /\ Full[a] = Inherited(parent[a], offset[a]) \o Readable[a]
      BY <2>2, <1>3 DEF Inherited, Piece
    <3>2. Full[parent[a]] \in Seq(Messages) /\ offset[a] <= Len(Full[parent[a]])
      BY <2>2, <1>1 DEF Inv, Reads
    <3> QED BY <3>1, <3>2, <1>1, SliceProperties
  <2> QED BY <2>1, <2>2
<1>5. PICK s, t : s = Inherited(parent[a], offset[a]) /\ t = Readable[a]
  OBVIOUS
<1>6. s \in Seq(Messages) /\ t \in Seq(Messages)
  BY <1>2, <1>4, <1>5
<1>7. Len(s \o t) = Len(s) + Len(t) /\ \A i \in 1 .. Len(s) : (s \o t)[i] = s[i]
  BY <1>6
<1>8. Full[a] = s \o t /\ Len(s) = offset[a]
  BY <1>4, <1>5
<1> QED BY <1>2, <1>4, <1>5, <1>7, <1>8

\* Steps that leave agents, links and readable rows alone leave every reading alone.
LEMMA NothingRewritten ==
  ASSUME Inv, Readable' = Readable, UNCHANGED <<parent, offset>>
  PROVE  Full' = Full /\ Reads'
<1>1. Full' = Full
  BY DEF Full
<1> QED BY <1>1 DEF Inv, Reads

\* A change of the tables for agent a alone, with OneChanges applied to the variables.
LEMMA OneReads ==
  ASSUME Inv, NEW a \in Ids, Older(parent'), NEW h,
         \A x \in Ids \ {a} :
           parent'[x] = parent[x] /\ offset'[x] = offset[x] /\ Readable'[x] = Readable[x],
         h = Piece(parent', offset', Readable', Full, a),
         \A x \in Ids \ {a} : parent[x] = a => Slice(h, offset[x]) = Slice(Full[a], offset[x])
  PROVE  /\ Full' = [Full EXCEPT ![a] = h]
         /\ Solves(parent', offset', Readable', Full')
<1>1. PICK par2, off2, own2, f :
        par2 = parent' /\ off2 = offset' /\ own2 = Readable' /\ f = Full
  OBVIOUS
<1>2. PICK par, off, own : par = parent /\ off = offset /\ own = Readable
  OBVIOUS
<1>3. Solves(par, off, own, f)
  BY <1>1, <1>2 DEF Inv, Reads
<1>4. /\ Older(par2) /\ h = Piece(par2, off2, own2, f, a)
      /\ \A x \in Ids \ {a} : par2[x] = par[x] /\ off2[x] = off[x] /\ own2[x] = own[x]
      /\ \A x \in Ids \ {a} : par[x] = a => Slice(h, off[x]) = Slice(f[a], off[x])
  BY <1>1, <1>2
<1>5. /\ Assembled(par2, off2, own2) = [f EXCEPT ![a] = h]
      /\ Solves(par2, off2, own2, [f EXCEPT ![a] = h])
  BY <1>3, <1>4, OneChanges
<1> QED BY <1>1, <1>5 DEF Full

\* A new agent has an id nothing has, reads what it inherited, and is seen by nobody.
LEMMA NewAgentReads ==
  ASSUME Inv, NEW p, NEW off, NEW synced, NewAgent(p, off, synced),
         \/ p = NoParent /\ off = 0
         \/ p \in Ids /\ Exists(p) /\ off = Len(Full[p])
  PROVE  /\ NextId \in Ids /\ status[NextId] = "unborn"
         /\ Inherited(p, off) \in Seq(Messages) /\ Len(Inherited(p, off)) = off
         /\ p # NoParent => Inherited(p, off) = Full[p]
         /\ Full' = [Full EXCEPT ![NextId] = Inherited(p, off)]
         /\ Reads' /\ Linked' /\ Fresh'
<1> DEFINE c == NextId
<1>1. /\ Full \in [Ids -> Seq(Messages)] /\ offset \in [Ids -> Nat]
      /\ parent \in [Ids -> Ids \cup {NoParent}] /\ rows \in [Ids -> Seq(Messages)]
      /\ status \in [Ids -> {"unborn", "active", "archived", "deleted"}]
      /\ idCounter \in 0 .. MaxAgents
  BY DEF Inv, Reads, TypeOK
<1>2. c \in Ids /\ c = idCounter + 1
  BY <1>1, BoundsAssumption DEF NewAgent, NextId, Ids
<1>3. status[c] = "unborn"
  BY <1>1, <1>2 DEF Inv, Fresh, Ids
<1>4. /\ parent' = [parent EXCEPT ![c] = p] /\ offset' = [offset EXCEPT ![c] = off]
      /\ status' = [status EXCEPT ![c] = "active"] /\ rows' = [rows EXCEPT ![c] = <<>>]
      /\ idCounter' = c
  BY DEF NewAgent, FirstMessages
<1> HIDE DEF c
<1>5. p \in Ids => p < c /\ p # c
  BY <1>1, <1>2 DEF Inv, Fresh, Exists, Ids, NoParent
<1>6. \A x \in Ids : parent[x] # c
  BY <1>2, <1>3 DEF Inv, Linked, Exists, Ids, NoParent
<1>7. /\ Inherited(p, off) \in Seq(Messages) /\ Len(Inherited(p, off)) = off
      /\ p # NoParent => Inherited(p, off) = Full[p]
  <2>1. CASE p = NoParent /\ off = 0
    BY <2>1 DEF Inherited
  <2>2. CASE p \in Ids /\ off = Len(Full[p])
    <3>1. PICK s : s = Full[p] /\ s \in Seq(Messages)
      BY <1>1, <2>2
    <3>2. Inherited(p, off) = SubSeq(s, 1, Len(s))
      BY <2>2, <3>1 DEF Inherited, Slice, Ids, NoParent
    <3>3. SubSeq(s, 1, Len(s)) = s
      BY <3>1, SubSeqFull
    <3> QED BY <2>2, <3>1, <3>2, <3>3
  <2> QED BY <2>1, <2>2
<1>8. Older(parent')
  BY <1>1, <1>4, <1>5 DEF Older, Inv, Linked
<1>9. Readable'[c] = <<>> /\ \A x \in Ids \ {c} : Readable'[x] = Readable[x]
  <2>1. Readable' = [x \in Ids |-> IF Exists(x)' THEN rows'[x] ELSE <<>>]
    BY DEF Readable
  <2> QED BY <1>1, <1>2, <1>4, <2>1 DEF Readable, Exists
<1>10. Inherited(p, off) = Piece(parent', offset', Readable', Full, c)
  <2>1. parent'[c] = p /\ offset'[c] = off
    BY <1>1, <1>2, <1>4
  <2>2. CASE p = NoParent
    BY <2>1, <2>2, <1>9 DEF Piece, Inherited
  <2>3. CASE p # NoParent
    <3>1. Piece(parent', offset', Readable', Full, c) = Inherited(p, off) \o <<>>
      BY <2>1, <2>3, <1>9 DEF Piece, Inherited
    <3> QED BY <3>1, <1>7, ConcatEmptySeq
  <2> QED BY <2>2, <2>3
<1>11. \A x \in Ids \ {c} :
         parent'[x] = parent[x] /\ offset'[x] = offset[x] /\ Readable'[x] = Readable[x]
  BY <1>1, <1>4, <1>9
<1>12. /\ Full' = [Full EXCEPT ![c] = Inherited(p, off)]
       /\ Solves(parent', offset', Readable', Full')
  BY <1>2, <1>6, <1>8, <1>10, <1>11, OneReads
<1>13. Reads'
  <2>1. Full' \in [Ids -> Seq(Messages)]
    BY <1>1, <1>7, <1>12
  <2>2. ASSUME NEW x \in Ids
        PROVE  IF parent'[x] = NoParent THEN offset'[x] = 0
                                        ELSE offset'[x] <= Len(Full'[parent'[x]])
    <3>1. CASE x = c
      <4>1. parent'[x] = p /\ offset'[x] = off
        BY <3>1, <1>1, <1>4
      <4>2. CASE p = NoParent
        BY <4>1, <4>2 DEF Ids, NoParent
      <4>3. CASE p # NoParent
        <5>1. p \in Ids /\ Full'[p] = Full[p] /\ off = Len(Full[p])
          BY <4>3, <1>1, <1>5, <1>12
        <5> QED BY <4>1, <4>3, <5>1, <1>1
      <4> QED BY <4>2, <4>3
    <3>2. CASE x # c
      <4>1. parent'[x] = parent[x] /\ offset'[x] = offset[x] /\ parent[x] # c
        BY <3>2, <1>6, <1>11
      <4>2. parent[x] # NoParent => Full'[parent[x]] = Full[parent[x]]
        BY <4>1, <1>1, <1>12
      <4> QED BY <4>1, <4>2 DEF Inv, Reads
    <3> QED BY <3>1, <3>2
  <2> QED BY <1>12, <2>1, <2>2 DEF Reads
<1>14. Linked'
  <2>1. ASSUME NEW x \in Ids, parent'[x] # NoParent
        PROVE  (Exists(x) /\ Exists(parent[x]) /\ parent[x] < x)'
    <3>1. CASE x = c
      <4>1. parent'[x] = p /\ p \in Ids /\ Exists(p)
        BY <3>1, <2>1, <1>1, <1>4
      <4>2. status'[p] = status[p] /\ status'[x] = "active" /\ p < x
        BY <3>1, <4>1, <1>1, <1>4, <1>5
      <4> QED BY <4>1, <4>2 DEF Exists
    <3>2. CASE x # c
      <4>1. parent'[x] = parent[x] /\ parent[x] \in Ids
        BY <3>2, <2>1, <1>1, <1>11
      <4>2. Exists(x) /\ Exists(parent[x]) /\ parent[x] < x
        BY <4>1, <2>1 DEF Inv, Linked
      <4>3. status'[x] = status[x] /\ status'[parent[x]] = status[parent[x]]
        BY <3>2, <4>1, <1>1, <1>4, <1>6
      <4> QED BY <4>1, <4>2, <4>3 DEF Exists
    <3> QED BY <3>1, <3>2
  <2> QED BY <2>1 DEF Linked
<1>15. Fresh'
  BY <1>1, <1>2, <1>4 DEF Inv, Fresh, Ids
<1> QED BY <1>2, <1>3, <1>7, <1>12, <1>13, <1>14, <1>15 DEF c

\* An agent keeps its first k rows, and its forks inherited none of the others: its own
\* reading changes behind those rows, and no other reading does.
LEMMA Edited ==
  ASSUME Inv, NEW a \in Ids, Exists(a), UNCHANGED <<status, parent, offset>>,
         NEW own \in Seq(Messages), rows' = [rows EXCEPT ![a] = own],
         NEW k \in Nat, k <= Len(rows[a]), k <= Len(own),
         \A i \in 1 .. k : own[i] = rows[a][i],
         \A c \in Ids : parent[c] = a => offset[c] <= offset[a] + k
  PROVE  /\ Full'[a] \in Seq(Messages) /\ Full' = [Full EXCEPT ![a] = Full'[a]]
         /\ Len(Full'[a]) = offset[a] + Len(own)
         /\ \A i \in 1 .. offset[a] + k : Full'[a][i] = Full[a][i]
         /\ Reads'
<1>1. PICK inh : inh = Inherited(parent[a], offset[a])
  OBVIOUS
<1>2. PICK h : h = inh \o own
  OBVIOUS
<1>3. PICK old : old = rows[a]
  OBVIOUS
<1>4. /\ inh \in Seq(Messages) /\ Len(inh) = offset[a] /\ offset[a] \in Nat
      /\ old \in Seq(Messages) /\ Full[a] = inh \o old
      /\ Full \in [Ids -> Seq(Messages)] /\ offset \in [Ids -> Nat]
  <2>1. Readable[a] = rows[a]
    BY DEF Readable
  <2> QED BY <1>1, <1>3, <2>1, Shape DEF Inv, Reads, TypeOK
<1>5. /\ h \in Seq(Messages) /\ Len(h) = offset[a] + Len(own)
      /\ \A i \in 1 .. offset[a] : h[i] = inh[i]
      /\ \A j \in 1 .. Len(own) : h[offset[a] + j] = own[j]
  <2>1. own \in Seq(Messages)
    OBVIOUS
  <2>2. inh \in Seq(Messages)
    BY <1>4
  <2>3. /\ inh \o own \in Seq(Messages) /\ Len(inh \o own) = Len(inh) + Len(own)
        /\ \A i \in 1 .. Len(inh) : (inh \o own)[i] = inh[i]
        /\ \A j \in 1 .. Len(own) : (inh \o own)[Len(inh) + j] = own[j]
    BY <2>1, <2>2, Joined
  <2> QED BY <2>3, <1>2, <1>4
<1>6. ASSUME NEW i \in 1 .. offset[a] + k PROVE h[i] = Full[a][i]
  <2>1. /\ \A j \in 1 .. offset[a] : Full[a][j] = inh[j]
        /\ \A j \in 1 .. Len(old) : Full[a][offset[a] + j] = old[j]
    <3>1. /\ \A j \in 1 .. Len(inh) : (inh \o old)[j] = inh[j]
          /\ \A j \in 1 .. Len(old) : (inh \o old)[Len(inh) + j] = old[j]
      <4>1. inh \in Seq(Messages) /\ old \in Seq(Messages)
        BY <1>4
      <4> QED BY <4>1, Joined
    <3> QED BY <3>1, <1>4
  <2>2. CASE i <= offset[a]
    BY <2>1, <2>2, <1>4, <1>5
  <2>3. CASE i > offset[a]
    <3>1. PICK j \in 1 .. k : i = offset[a] + j
      <4>1. i - offset[a] \in 1 .. k
        BY <2>3, <1>4
      <4> QED BY <4>1, <1>4
    <3>2. j \in 1 .. Len(own) /\ j \in 1 .. Len(old)
      <4>1. Len(own) \in Nat /\ Len(old) \in Nat /\ k <= Len(old) /\ k <= Len(own)
        BY <1>3, <1>4
      <4> QED BY <4>1
    <3>3. own[j] = old[j]
      BY <1>3
    <3>4. h[offset[a] + j] = own[j] /\ Full[a][offset[a] + j] = old[j]
      BY <3>2, <2>1, <1>5
    <3> QED BY <3>1, <3>3, <3>4
  <2>4. i <= offset[a] \/ i > offset[a]
    BY <1>4
  <2> QED BY <2>2, <2>3, <2>4
<1>7. ASSUME NEW c \in Ids, parent[c] = a
      PROVE  offset[c] <= Len(h) /\ \A i \in 1 .. offset[c] : h[i] = Full[a][i]
  <2>1. offset[c] \in Nat /\ offset[c] <= offset[a] + k
    BY <1>4, <1>7
  <2>2. offset[a] + k <= Len(h)
    <3>1. Len(own) \in Nat /\ k <= Len(own) /\ k \in Nat
      OBVIOUS
    <3> QED BY <3>1, <1>4, <1>5
  <2>3. Len(h) \in Nat /\ offset[a] + k \in Nat
    BY <1>4, <1>5
  <2> QED BY <2>1, <2>2, <2>3, <1>6
<1>8. Readable'[a] = own /\ \A x \in Ids \ {a} : Readable'[x] = Readable[x]
  <2>1. Readable' = [x \in Ids |-> IF Exists(x) THEN rows'[x] ELSE <<>>]
    BY DEF Readable, Exists
  <2>2. rows'[a] = own /\ \A x \in Ids \ {a} : rows'[x] = rows[x]
    BY DEF Inv, TypeOK
  <2> QED BY <2>1, <2>2 DEF Readable
<1>9. h = Piece(parent', offset', Readable', Full, a)
  <2>1. CASE parent[a] = NoParent
    <3>1. h = <<>> \o own
      BY <2>1, <1>1, <1>2 DEF Inherited
    <3>2. h = own
      BY <3>1, ConcatEmptySeq
    <3> QED BY <2>1, <3>2, <1>8 DEF Piece
  <2>2. CASE parent[a] # NoParent
    BY <2>2, <1>1, <1>2, <1>8 DEF Piece, Inherited
  <2> QED BY <2>1, <2>2
<1>10. ASSUME NEW x \in Ids \ {a}, parent[x] = a
       PROVE  Slice(h, offset[x]) = Slice(Full[a], offset[x])
  <2>1. offset[x] \in Nat /\ Full[a] \in Seq(Messages)
    BY <1>4
  <2>2. offset[x] <= Len(h) /\ \A i \in 1 .. offset[x] : h[i] = Full[a][i]
    BY <1>7, <1>10
  <2>3. offset[x] <= Len(Full[a])
    <3>1. parent[x] # NoParent
      BY <1>10 DEF Ids, NoParent
    <3> QED BY <1>10, <3>1 DEF Inv, Reads
  <2> QED BY <2>1, <2>2, <2>3, <1>5, SliceOfSamePrefix
<1>11. Older(parent')
  BY DEF Older, Inv, Linked, TypeOK
<1>12. \A x \in Ids \ {a} :
         parent'[x] = parent[x] /\ offset'[x] = offset[x] /\ Readable'[x] = Readable[x]
  BY <1>8
<1>13. Full' = [Full EXCEPT ![a] = h] /\ Solves(parent', offset', Readable', Full')
  BY <1>9, <1>10, <1>11, <1>12, OneReads
<1>14. Full'[a] = h /\ Full' \in [Ids -> Seq(Messages)]
  BY <1>4, <1>5, <1>13
<1>15. ASSUME NEW c \in Ids
       PROVE  IF parent'[c] = NoParent THEN offset'[c] = 0
                                       ELSE offset'[c] <= Len(Full'[parent'[c]])
  <2>1. CASE parent[c] = a
    BY <2>1, <1>7, <1>14 DEF Ids, NoParent
  <2>2. CASE parent[c] # a
    <3>1. parent[c] # NoParent => Full'[parent[c]] = Full[parent[c]]
      BY <2>2, <1>4, <1>13 DEF Inv, TypeOK
    <3> QED BY <3>1 DEF Inv, Reads
  <2> QED BY <2>1, <2>2
<1>16. Reads'
  BY <1>13, <1>14, <1>15 DEF Reads
<1> QED BY <1>5, <1>6, <1>13, <1>14, <1>16

\* No fork's boundary exceeds what its parent inherited and wrote.
LEMMA ForksWithin ==
  ASSUME Inv, NEW a \in Ids, Exists(a)
  PROVE  \A c \in Ids : parent[c] = a => offset[c] <= offset[a] + Len(rows[a])
<1>1. Len(Full[a]) = offset[a] + Len(rows[a])
  <2>1. Readable[a] = rows[a]
    BY DEF Readable
  <2> QED BY <2>1, Shape
<1>2. a # NoParent
  BY DEF Ids, NoParent
<1> QED BY <1>1, <1>2 DEF Inv, Reads

\* A row is read behind everything read so far, or, written for an agent that is gone,
\* by nobody.
LEMMA SayReads ==
  ASSUME Inv, NEW a \in Ids, NEW synced, Say(a, synced)
  PROVE  /\ Reads'
         /\ ~Exists(a) => Full' = Full
         /\ Exists(a) => /\ Full' = [Full EXCEPT ![a] = Full'[a]]
                         /\ Full'[a] \in Seq(Messages)
                         /\ Len(Full'[a]) >= Len(Full[a])
                         /\ \A i \in 1 .. Len(Full[a]) : Full'[a][i] = Full[a][i]
<1>1. /\ rows' = [rows EXCEPT ![a] = Append(rows[a], NewMessage(a))]
      /\ UNCHANGED <<status, parent, offset>>
  BY DEF Say
<1>2. PICK old, m : old = rows[a] /\ m = NewMessage(a)
  OBVIOUS
<1>3. old \in Seq(Messages) /\ m \in Messages /\ rows \in [Ids -> Seq(Messages)]
  <2>1. said[a] + 1 \in Nat
    BY DEF Inv, TypeOK
  <2>2. m = [by |-> a, n |-> said[a] + 1]
    BY <1>2 DEF NewMessage
  <2>3. m \in Messages
    BY <2>1, <2>2 DEF Messages
  <2> QED BY <1>2, <2>3 DEF Inv, TypeOK
<1>4. /\ Append(old, m) \in Seq(Messages) /\ Len(Append(old, m)) = Len(old) + 1
      /\ \A i \in 1 .. Len(old) : Append(old, m)[i] = old[i]
  BY <1>3
<1>5. CASE ~Exists(a)
  <2>1. Readable' = [x \in Ids |-> IF Exists(x) THEN rows'[x] ELSE <<>>]
    BY <1>1 DEF Readable, Exists
  <2>2. \A x \in Ids : Exists(x) => rows'[x] = rows[x]
    BY <1>1, <1>3, <1>5
  <2>3. Readable' = Readable
    BY <2>1, <2>2 DEF Readable
  <2> QED BY <2>3, <1>1, <1>5, NothingRewritten
<1>6. CASE Exists(a)
  <2>1. Len(old) \in Nat /\ \A c \in Ids : parent[c] = a => offset[c] <= offset[a] + Len(old)
    BY <1>2, <1>3, <1>6, ForksWithin
  <2>2. PICK own : own = Append(old, m)
    OBVIOUS
  <2>3. /\ own \in Seq(Messages) /\ rows' = [rows EXCEPT ![a] = own] /\ Len(old) <= Len(own)
        /\ \A i \in 1 .. Len(old) : own[i] = rows[a][i]
        /\ Len(old) <= Len(rows[a])
    BY <1>1, <1>2, <1>3, <1>4, <2>1, <2>2
  <2>4. /\ Full'[a] \in Seq(Messages) /\ Full' = [Full EXCEPT ![a] = Full'[a]]
        /\ Len(Full'[a]) = offset[a] + Len(own)
        /\ \A i \in 1 .. offset[a] + Len(old) : Full'[a][i] = Full[a][i]
        /\ Reads'
    BY <1>1, <1>6, <2>1, <2>3, Edited
  <2>5. Len(Full[a]) = offset[a] + Len(old) /\ offset[a] \in Nat
    <3>1. Readable[a] = old
      BY <1>2, <1>6 DEF Readable
    <3> QED BY <3>1, Shape DEF Inv, TypeOK
  <2> QED BY <1>4, <1>6, <2>1, <2>2, <2>4, <2>5
<1> QED BY <1>5, <1>6

\* A new message is one of its agent's own.
LEMMA NewMessageIsOwn ==
  ASSUME TypeOK, NEW a \in Ids
  PROVE  NewMessage(a) \in OwnMessages(a)
<1>1. said[a] + 1 \in Nat
  BY DEF TypeOK
<1>2. [by |-> a, n |-> said[a] + 1] \in Messages
  BY <1>1 DEF Messages
<1> QED BY <1>2 DEF NewMessage, OwnMessages

\* Deleting rows and compacting keep what every fork inherited.
LEMMA EditReads ==
  ASSUME Inv, NEW a \in Ids, NEW i \in Nat, NEW fromHere \in BOOLEAN, BeyondForks(a, i),
         \/ DeleteRows(a, i, fromHere)
         \/ parent[a] = NoParent /\ Compact(a, i, fromHere)
  PROVE  /\ rows' = [rows EXCEPT ![a] = rows'[a]] /\ rows'[a] \in Seq(OwnMessages(a))
         /\ Full' = [Full EXCEPT ![a] = Full'[a]] /\ Full'[a] \in Seq(Messages)
         /\ Len(Full'[a]) >= offset[a]
         /\ \A j \in 1 .. offset[a] : Full'[a][j] = Full[a][j]
         /\ Reads'
<1>1. Exists(a)
  BY DEF DeleteRows, Compact, Reachable, Inv, CachedAreActive, Exists
<1>2. UNCHANGED <<status, parent, offset>>
  BY DEF DeleteRows, Compact
<1>3. PICK old : old = rows[a]
  OBVIOUS
<1>4. old \in Seq(OwnMessages(a)) /\ OwnMessages(a) \subseteq Messages /\ Len(old) \in Nat
  BY <1>3 DEF Inv, OwnRows, OwnMessages
<1>5. parent[a] = NoParent => Full[a] = old
  <2>1. Full[a] = Piece(parent, offset, Readable, Full, a)
    BY DEF Inv, Reads, Solves
  <2>2. Readable[a] = old
    BY <1>1, <1>3 DEF Readable
  <2> QED BY <2>1, <2>2 DEF Piece
<1>6. i \in 1 .. Len(old)
  <2>1. DOMAIN old = 1 .. Len(old)
    BY <1>4
  <2> QED BY <2>1, <1>3, <1>5 DEF DeleteRows, Compact
<1>7. PICK t : t \in Seq(OwnMessages(a))
             /\ rows' = [rows EXCEPT ![a] = SubSeq(old, 1, i - 1) \o t]
  <2>1. PICK rest : rest = IF fromHere THEN <<>> ELSE SubSeq(old, i + 1, Len(old))
    OBVIOUS
  <2>2. rest \in Seq(OwnMessages(a))
    BY <2>1, <1>4, <1>6, Rest
  <2>3. CASE DeleteRows(a, i, fromHere)
    <3>1. rows' = [rows EXCEPT ![a] = SubSeq(old, 1, i - 1) \o rest]
      BY <2>3, <2>1, <1>3 DEF DeleteRows
    <3> QED BY <3>1, <2>2
  <2>4. CASE parent[a] = NoParent /\ Compact(a, i, fromHere)
    <3>1. PICK cut, note : cut = SubSeq(old, 1, i - 1) /\ note = <<NewMessage(a)>>
      OBVIOUS
    <3>2. note \in Seq(OwnMessages(a)) /\ note \o rest \in Seq(OwnMessages(a))
      <4>1. NewMessage(a) \in OwnMessages(a)
        BY NewMessageIsOwn DEF Inv
      <4>2. note \in Seq(OwnMessages(a))
        BY <4>1, <3>1
      <4> QED BY <4>2, <2>2
    <3>3. rows' = [rows EXCEPT ![a] = (cut \o note) \o rest]
      BY <2>4, <2>1, <3>1, <1>5 DEF Compact
    <3>4. cut \in Seq(OwnMessages(a))
      <4>1. \A j \in 1 .. i - 1 : old[j] \in OwnMessages(a)
        BY <1>4, <1>6
      <4> QED BY <4>1, <3>1, <1>6, SubSeqProperties
    <3>5. (cut \o note) \o rest = cut \o (note \o rest)
      BY <3>2, <3>4, <2>2, ConcatAssociative
    <3> QED BY <3>1, <3>2, <3>3, <3>5
  <2> QED BY <2>3, <2>4
<1>8. PICK own : own = SubSeq(old, 1, i - 1) \o t
  OBVIOUS
<1>9. own \in Seq(OwnMessages(a)) /\ Len(own) >= i - 1 /\ \A j \in 1 .. i - 1 : own[j] = old[j]
  BY <1>4, <1>6, <1>7, <1>8, Cut
<1>10. PICK k \in Nat : k = i - 1
  BY <1>6
<1>11. own \in Seq(Messages) /\ k <= Len(rows[a]) /\ k <= Len(own)
       /\ \A j \in 1 .. k : own[j] = rows[a][j]
  <2>1. own \in Seq(Messages)
    BY <1>4, <1>9, SeqMonotonic
  <2> QED BY <2>1, <1>3, <1>4, <1>6, <1>9, <1>10
<1>12. \A c \in Ids : parent[c] = a => offset[c] <= offset[a] + k
  <2>1. Len(Full[a]) = offset[a] + Len(old) /\ offset[a] \in Nat
    <3>1. Readable[a] = old
      BY <1>1, <1>3 DEF Readable
    <3> QED BY <3>1, Shape DEF Inv, TypeOK
  <2>2. ASSUME NEW c \in Ids, parent[c] = a PROVE offset[c] <= offset[a] + k
    <3>1. offset[c] < Len(Full[a]) - Len(rows[a]) + i
      BY <2>2 DEF BeyondForks
    <3>2. offset[c] \in Nat
      BY DEF Inv, TypeOK
    <3> QED BY <3>1, <3>2, <2>1, <1>3, <1>4, <1>10
  <2> QED BY <2>2
<1>13. rows' = [rows EXCEPT ![a] = own]
  BY <1>7, <1>8
<1>14. /\ Full'[a] \in Seq(Messages) /\ Full' = [Full EXCEPT ![a] = Full'[a]]
       /\ Len(Full'[a]) = offset[a] + Len(own)
       /\ \A j \in 1 .. offset[a] + k : Full'[a][j] = Full[a][j]
       /\ Reads'
  BY <1>1, <1>2, <1>11, <1>12, <1>13, Edited
<1>15. rows'[a] = own
  BY <1>13 DEF Inv, TypeOK
<1>16. offset[a] \in Nat /\ Len(own) \in Nat /\ k \in Nat
  BY <1>11 DEF Inv, TypeOK
<1>17. Len(Full'[a]) >= offset[a] /\ \A j \in 1 .. offset[a] : Full'[a][j] = Full[a][j]
  <2>1. \A j \in 1 .. offset[a] : j \in 1 .. offset[a] + k
    BY <1>16
  <2>2. offset[a] + Len(own) >= offset[a]
    BY <1>16
  <2> QED BY <2>1, <2>2, <1>14
<1>18. rows' = [rows EXCEPT ![a] = rows'[a]] /\ rows'[a] \in Seq(OwnMessages(a))
  BY <1>9, <1>13, <1>15
<1> QED BY <1>14, <1>17, <1>18

\* A deleted agent reads nothing, and no other reading changes.
LEMMA GoneReads ==
  ASSUME Inv, NEW a \in Ids, ~ForkedFrom(a), RowGone(a),
         rows' = rows \/ rows' = [rows EXCEPT ![a] = <<>>]
  PROVE  Full' = [Full EXCEPT ![a] = <<>>] /\ Reads' /\ Linked' /\ Fresh'
<1>1. /\ Full \in [Ids -> Seq(Messages)] /\ offset \in [Ids -> Nat]
      /\ parent \in [Ids -> Ids \cup {NoParent}] /\ rows \in [Ids -> Seq(Messages)]
      /\ status \in [Ids -> {"unborn", "active", "archived", "deleted"}]
  BY DEF Inv, Reads, TypeOK
<1>2. /\ status' = [status EXCEPT ![a] = "deleted"] /\ idCounter' = idCounter
      /\ parent' = [parent EXCEPT ![a] = NoParent] /\ offset' = [offset EXCEPT ![a] = 0]
  BY DEF RowGone
<1>3. \A x \in Ids : parent[x] # a
  BY DEF ForkedFrom
<1>4. Readable'[a] = <<>> /\ \A x \in Ids \ {a} : Readable'[x] = Readable[x]
  <2>1. Readable' = [x \in Ids |-> IF Exists(x)' THEN rows'[x] ELSE <<>>]
    BY DEF Readable
  <2> QED BY <1>1, <1>2, <2>1 DEF Readable, Exists
<1>5. <<>> = Piece(parent', offset', Readable', Full, a)
  BY <1>1, <1>2, <1>4 DEF Piece
<1>6. Older(parent')
  BY <1>1, <1>2 DEF Older, Inv, Linked
<1>7. \A x \in Ids \ {a} :
        parent'[x] = parent[x] /\ offset'[x] = offset[x] /\ Readable'[x] = Readable[x]
  BY <1>1, <1>2, <1>4
<1>8. /\ Full' = [Full EXCEPT ![a] = <<>>]
      /\ Solves(parent', offset', Readable', Full')
  BY <1>3, <1>5, <1>6, <1>7, OneReads
<1>9. Full' \in [Ids -> Seq(Messages)]
  BY <1>1, <1>8
<1>10. ASSUME NEW x \in Ids
       PROVE  IF parent'[x] = NoParent THEN offset'[x] = 0
                                       ELSE offset'[x] <= Len(Full'[parent'[x]])
  <2>1. CASE x = a
    BY <2>1, <1>1, <1>2
  <2>2. CASE x # a
    <3>1. parent[x] # NoParent => Full'[parent[x]] = Full[parent[x]]
      BY <1>1, <1>3, <1>8
    <3> QED BY <2>2, <3>1, <1>7 DEF Inv, Reads
  <2> QED BY <2>1, <2>2
<1>11. Reads'
  BY <1>8, <1>9, <1>10 DEF Reads
<1>12. Linked'
  <2>1. ASSUME NEW x \in Ids, parent'[x] # NoParent
        PROVE  (Exists(x) /\ Exists(parent[x]) /\ parent[x] < x)'
    <3>1. x # a /\ parent'[x] = parent[x] /\ parent[x] \in Ids /\ parent[x] # a
      BY <2>1, <1>1, <1>2, <1>3
    <3>2. status'[x] = status[x] /\ status'[parent[x]] = status[parent[x]]
      BY <3>1, <1>1, <1>2
    <3> QED BY <2>1, <3>1, <3>2 DEF Inv, Linked, Exists
  <2> QED BY <2>1 DEF Linked
<1>13. Fresh'
  BY <1>1, <1>2 DEF Inv, Fresh, RowGone, Exists
<1> QED BY <1>8, <1>11, <1>12, <1>13

-----------------------------------------------------------------------------
(***************************************************************************)
(* Every step keeps the invariant and is one of CopiedTranscripts, or none *)
(* it can see.                                                             *)
(***************************************************************************)
CopiesStep == [Copies!Next]_(Copies!vars)

\* What the steps that add no agent and change no link have to show.
LEMMA KeepsInv ==
  ASSUME Inv, UNCHANGED <<parent, offset>>,
         idCounter' \in idCounter .. MaxAgents, said' \in [Ids -> Nat],
         status' \in [Ids -> {"unborn", "active", "archived", "deleted"}],
         \A x \in Ids : status'[x] = status[x] \/ (Exists(x) /\ Exists(x)'),
         rows' \in [Ids -> Seq(Messages)], OwnRows', Reads',
         cached' \subseteq Ids, \A x \in cached' : status'[x] = "active",
         context' \in [Ids -> Seq(Messages)]
  PROVE  Inv'
<1>1. TypeOK'
  BY DEF Inv, TypeOK
<1>2. Linked'
  <2>1. \A x \in Ids : Exists(x) => Exists(x)'
    BY DEF Exists
  <2>2. \A x \in Ids : parent[x] # NoParent => parent[x] \in Ids
    BY DEF Inv, TypeOK
  <2>3. ASSUME NEW x \in Ids, parent'[x] # NoParent
        PROVE  (Exists(x) /\ Exists(parent[x]) /\ parent[x] < x)'
    <3>1. parent'[x] = parent[x] /\ parent[x] \in Ids /\ Exists(x) /\ Exists(parent[x]) /\ parent[x] < x
      BY <2>2, <2>3 DEF Inv, Linked
    <3> QED BY <3>1, <2>1 DEF Exists
  <2> QED BY <2>3 DEF Linked
<1>3. Fresh'
  <2>1. \A x \in Ids : status'[x] # "unborn" => status[x] # "unborn"
    BY DEF Exists
  <2> QED BY <2>1 DEF Inv, TypeOK, Fresh, Ids
<1>4. CachedAreActive'
  BY DEF CachedAreActive
<1> QED BY <1>1, <1>2, <1>3, <1>4 DEF Inv

\* syncAgentState() leaves sequences of messages in the cached objects.
LEMMA ResyncType ==
  ASSUME TypeOK, NEW a \in Ids, NEW s \in Seq(Messages)
  PROVE  Resync(a, s) \in [Ids -> Seq(Messages)]
BY DEF TypeOK, Resync

LEMMA MakeKeeps ==
  ASSUME Inv, MakeStep
  PROVE  Inv' /\ CopiesStep
<1>1. PICK p, off, synced :
        /\ NewAgent(p, off, synced)
        /\ \/ p = NoParent /\ off = 0
           \/ p \in Ids /\ Exists(p) /\ off = Len(Full[p])
  <2>1. CASE Start
    BY <2>1 DEF Start
  <2>2. CASE \E p \in Ids : Fork(p) \/ \E f \in BOOLEAN : Delegate(p, f)
    <3>1. PICK p \in Ids : Fork(p) \/ \E f \in BOOLEAN : Delegate(p, f)
      BY <2>2
    <3>2. Reachable(p) => Exists(p)
      BY DEF Reachable, Inv, CachedAreActive, Exists
    <3>3. \/ Reachable(p) /\ \E s \in BOOLEAN : NewAgent(p, ForkOffset(p), s)
          \/ NewAgent(NoParent, 0, TRUE)
      BY <3>1 DEF Fork, Delegate
    <3>4. CASE Reachable(p) /\ \E s \in BOOLEAN : NewAgent(p, ForkOffset(p), s)
      BY <3>2, <3>4 DEF ForkOffset
    <3>5. CASE NewAgent(NoParent, 0, TRUE)
      BY <3>5
    <3> QED BY <3>3, <3>4, <3>5
  <2> QED BY <2>1, <2>2 DEF MakeStep
<1>2. PICK c, inh : c = NextId /\ inh = Inherited(p, off)
  OBVIOUS
<1>3. /\ c \in Ids /\ status[c] = "unborn" /\ inh \in Seq(Messages) /\ Len(inh) = off
      /\ p # NoParent => inh = Full[p]
      /\ Full' = [Full EXCEPT ![c] = inh] /\ Reads' /\ Linked' /\ Fresh'
  BY <1>1, <1>2, NewAgentReads
<1>4. /\ idCounter' = c /\ said' = said /\ cached' = cached \cup {c}
      /\ status' = [status EXCEPT ![c] = "active"] /\ parent' = [parent EXCEPT ![c] = p]
      /\ offset' = [offset EXCEPT ![c] = off] /\ rows' = [rows EXCEPT ![c] = <<>>]
      /\ context' = [context EXCEPT ![c] = IF synced THEN inh \o <<>> ELSE <<>>]
  BY <1>1, <1>2 DEF NewAgent, FirstMessages
<1>5. TypeOK'
  <2>1. inh \o <<>> \in Seq(Messages) /\ <<>> \in Seq(Messages)
    BY <1>3, ConcatEmptySeq
  <2>2. (IF synced THEN inh \o <<>> ELSE <<>>) \in Seq(Messages)
    BY <2>1
  <2>3. off \in Nat /\ p \in Ids \cup {NoParent} /\ c \in 0 .. MaxAgents
    BY <1>1, <1>3 DEF Ids
  <2>4. /\ idCounter' \in 0 .. MaxAgents /\ said' \in [Ids -> Nat] /\ cached' \subseteq Ids
        /\ status' \in [Ids -> {"unborn", "active", "archived", "deleted"}]
        /\ parent' \in [Ids -> Ids \cup {NoParent}] /\ offset' \in [Ids -> Nat]
    BY <1>3, <1>4, <2>3 DEF Inv, TypeOK
  <2>5. rows' \in [Ids -> Seq(Messages)] /\ context' \in [Ids -> Seq(Messages)]
    BY <1>3, <1>4, <2>1, <2>2 DEF Inv, TypeOK
  <2> QED BY <2>4, <2>5 DEF TypeOK
<1>6. CachedAreActive'
  BY <1>3, <1>4 DEF Inv, TypeOK, CachedAreActive
<1>7. OwnRows'
  BY <1>3, <1>4 DEF Inv, TypeOK, OwnRows
<1>8. Copies!Next
  <2>1. ~Exists(c) /\ {a \in Ids : Exists(a)}' = {a \in Ids : Exists(a)} \cup {c}
    BY <1>3, <1>4 DEF Exists, Inv, TypeOK
  <2>2. c \notin {a \in Ids : Exists(a)}
    BY <2>1
  <2>3. CASE p = NoParent /\ off = 0
    <3>1. inh = <<>>
      BY <2>3, <1>2 DEF Inherited
    <3>2. Copies!Start(c)
      BY <3>1, <2>1, <2>2, <2>3, <1>3, <1>4 DEF Copies!Start, Copies!Make
    <3> QED BY <3>2, <1>3 DEF Copies!Next
  <2>4. CASE p \in Ids /\ Exists(p) /\ off = Len(Full[p])
    <3>1. p # NoParent
      BY <2>4 DEF Ids, NoParent
    <3>2. p \in {a \in Ids : Exists(a)}
      BY <2>4
    <3>3. Copies!Branch(p, c)
      BY <3>1, <3>2, <2>1, <2>2, <1>3, <1>4 DEF Copies!Branch, Copies!Make
    <3> QED BY <3>3, <2>4, <1>3 DEF Copies!Next
  <2> QED BY <2>3, <2>4, <1>1
<1> QED BY <1>3, <1>5, <1>6, <1>7, <1>8 DEF Inv, CopiesStep

LEMMA SayKeeps ==
  ASSUME Inv, NEW a \in Ids, NEW synced \in BOOLEAN, Say(a, synced)
  PROVE  Inv' /\ CopiesStep
<1>1. /\ rows' = [rows EXCEPT ![a] = Append(rows[a], NewMessage(a))]
      /\ said' = [said EXCEPT ![a] = @ + 1]
      /\ UNCHANGED <<idCounter, status, parent, offset, cached>>
      /\ context' = IF synced THEN Resync(a, Full'[a]) ELSE context
  BY DEF Say
<1>2. /\ Reads' /\ (~Exists(a) => Full' = Full)
      /\ Exists(a) => /\ Full' = [Full EXCEPT ![a] = Full'[a]]
                      /\ Full'[a] \in Seq(Messages)
                      /\ Len(Full'[a]) >= Len(Full[a])
                      /\ \A i \in 1 .. Len(Full[a]) : Full'[a][i] = Full[a][i]
  BY SayReads
<1>3. PICK old, m : old = rows[a] /\ m = NewMessage(a)
  OBVIOUS
<1>4. old \in Seq(OwnMessages(a)) /\ m \in OwnMessages(a) /\ OwnMessages(a) \subseteq Messages
  BY <1>3, NewMessageIsOwn DEF Inv, OwnRows, OwnMessages
<1>5. Append(old, m) \in Seq(OwnMessages(a)) /\ Append(old, m) \in Seq(Messages)
  BY <1>4, SeqMonotonic
<1>6. OwnRows' /\ rows' \in [Ids -> Seq(Messages)]
  <2>1. rows' = [rows EXCEPT ![a] = Append(old, m)]
    BY <1>1, <1>3
  <2> QED BY <2>1, <1>5 DEF Inv, TypeOK, OwnRows
<1>7. context' \in [Ids -> Seq(Messages)]
  <2>1. Full'[a] \in Seq(Messages)
    BY <1>2 DEF Reads
  <2> QED BY <2>1, <1>1, ResyncType DEF Inv, TypeOK
<1>8. Inv'
  <2>1. said' \in [Ids -> Nat] /\ idCounter' \in idCounter .. MaxAgents
    BY <1>1 DEF Inv, TypeOK
  <2>2. /\ UNCHANGED <<parent, offset>> /\ cached' \subseteq Ids
        /\ status' \in [Ids -> {"unborn", "active", "archived", "deleted"}]
        /\ \A x \in Ids : status'[x] = status[x] \/ (Exists(x) /\ Exists(x)')
        /\ \A x \in cached' : status'[x] = "active"
    BY <1>1 DEF Inv, TypeOK, CachedAreActive
  <2> QED BY <1>1, <2>1, <2>2, <1>2, <1>6, <1>7, KeepsInv, Zenon
<1>9. {x \in Ids : Exists(x)}' = {x \in Ids : Exists(x)}
  BY <1>1 DEF Exists
<1>10. CASE ~Exists(a)
  BY <1>1, <1>2, <1>8, <1>9, <1>10 DEF CopiesStep, Copies!vars
<1>11. CASE Exists(a)
  <2>1. Len(Full[a]) \in Nat /\ offset[a] \in Nat /\ offset[a] <= Len(Full[a])
    <3>1. PICK s, t : s = Readable[a] /\ t = Full[a]
      OBVIOUS
    <3>2. s \in Seq(Messages) /\ t \in Seq(Messages) /\ Len(t) = offset[a] + Len(s)
      BY <3>1, Shape DEF Inv, Reads
    <3>3. Len(s) \in Nat /\ Len(t) \in Nat /\ offset[a] \in Nat
      BY <3>2 DEF Inv, TypeOK
    <3> QED BY <3>1, <3>2, <3>3
  <2>2. Len(Full'[a]) \in Nat
    BY <1>2, <1>11
  <2>3. Len(Full'[a]) >= offset[a] /\ \A i \in 1 .. offset[a] : Full'[a][i] = Full[a][i]
    BY <1>2, <1>11, <2>1, <2>2
  <2>4. Copies!Continue(a)
    BY <1>1, <1>2, <1>9, <1>11, <2>3 DEF Copies!Continue
  <2> QED BY <2>4, <1>8 DEF CopiesStep, Copies!Next
<1> QED BY <1>10, <1>11

LEMMA EditKeeps ==
  ASSUME Inv, NEW a \in Ids, NEW i \in Nat, NEW fromHere \in BOOLEAN, BeyondForks(a, i),
         \/ DeleteRows(a, i, fromHere)
         \/ parent[a] = NoParent /\ Compact(a, i, fromHere)
  PROVE  Inv' /\ CopiesStep
<1>1. /\ rows' = [rows EXCEPT ![a] = rows'[a]] /\ rows'[a] \in Seq(OwnMessages(a))
      /\ Full' = [Full EXCEPT ![a] = Full'[a]] /\ Full'[a] \in Seq(Messages)
      /\ Len(Full'[a]) >= offset[a]
      /\ \A j \in 1 .. offset[a] : Full'[a][j] = Full[a][j]
      /\ Reads'
  BY EditReads
<1>2. /\ UNCHANGED <<idCounter, status, parent, offset, cached>>
      /\ said' \in [Ids -> Nat] /\ context' = Resync(a, Full'[a]) /\ Exists(a)
  <2>1. CASE DeleteRows(a, i, fromHere)
    BY <2>1 DEF DeleteRows, Reachable, Exists, Inv, TypeOK, CachedAreActive
  <2>2. CASE Compact(a, i, fromHere)
    <3>1. said' = [said EXCEPT ![a] = @ + 1]
      BY <2>2 DEF Compact
    <3>2. said' \in [Ids -> Nat]
      BY <3>1 DEF Inv, TypeOK
    <3> QED BY <2>2, <3>2 DEF Compact, Reachable, Exists, Inv, CachedAreActive
  <2> QED BY <2>1, <2>2
<1>3. rows'[a] \in Seq(Messages)
  <2>1. OwnMessages(a) \subseteq Messages
    BY DEF OwnMessages
  <2> QED BY <2>1, <1>1, SeqMonotonic
<1>4. OwnRows' /\ rows' \in [Ids -> Seq(Messages)]
  <2>1. PICK own : own = rows'[a]
    OBVIOUS
  <2>2. rows' = [rows EXCEPT ![a] = own] /\ own \in Seq(OwnMessages(a)) /\ own \in Seq(Messages)
    BY <2>1, <1>1, <1>3
  <2> QED BY <2>2 DEF Inv, TypeOK, OwnRows
<1>5. context' \in [Ids -> Seq(Messages)]
  BY <1>1, <1>2, ResyncType DEF Inv
<1>6. Inv'
  <2>1. idCounter' \in idCounter .. MaxAgents
    BY <1>2 DEF Inv, TypeOK
  <2>2. /\ UNCHANGED <<parent, offset>> /\ cached' \subseteq Ids
        /\ status' \in [Ids -> {"unborn", "active", "archived", "deleted"}]
        /\ \A x \in Ids : status'[x] = status[x] \/ (Exists(x) /\ Exists(x)')
        /\ \A x \in cached' : status'[x] = "active"
    BY <1>2 DEF Inv, TypeOK, CachedAreActive
  <2> QED BY <2>1, <2>2, <1>1, <1>2, <1>4, <1>5, KeepsInv, Zenon
<1>7. {x \in Ids : Exists(x)}' = {x \in Ids : Exists(x)}
  BY <1>2 DEF Exists
<1>8. Copies!Continue(a)
  BY <1>1, <1>2, <1>7 DEF Copies!Continue
<1> QED BY <1>6, <1>8 DEF CopiesStep, Copies!Next

\* startRuntime() caches typed transcripts of active agents.
LEMMA ReloadType ==
  ASSUME Reload, Reads'
  PROVE  /\ cached' \subseteq Ids /\ \A x \in cached' : status'[x] = "active"
         /\ context' \in [Ids -> Seq(Messages)]
<1>1. \A x \in Ids : Full'[x] \in Seq(Messages)
  BY DEF Reads
<1> QED BY <1>1 DEF Reload

LEMMA GoneKeeps ==
  ASSUME Inv, NEW a \in Ids, ~ForkedFrom(a), Delete(a) \/ RestartInDelete(a)
  PROVE  Inv' /\ CopiesStep
<1>1. /\ RowGone(a)
      /\ rows' = rows \/ rows' = [rows EXCEPT ![a] = <<>>]
  BY DEF Delete, RestartInDelete
<1>2. Full' = [Full EXCEPT ![a] = <<>>] /\ Reads' /\ Linked' /\ Fresh'
  BY <1>1, GoneReads
<1>3. /\ status' = [status EXCEPT ![a] = "deleted"] /\ UNCHANGED <<idCounter, said>>
      /\ parent' = [parent EXCEPT ![a] = NoParent] /\ offset' = [offset EXCEPT ![a] = 0]
  BY <1>1 DEF RowGone
<1>4. OwnRows' /\ rows' \in [Ids -> Seq(Messages)]
  <2>1. rows \in [Ids -> Seq(Messages)] /\ \A x \in Ids : rows[x] \in Seq(OwnMessages(x))
    BY DEF Inv, TypeOK, OwnRows
  <2>2. <<>> \in Seq(OwnMessages(a)) /\ <<>> \in Seq(Messages)
    OBVIOUS
  <2>3. CASE rows' = rows
    BY <2>1, <2>3 DEF OwnRows
  <2>4. CASE rows' = [rows EXCEPT ![a] = <<>>]
    BY <2>1, <2>2, <2>4 DEF OwnRows
  <2> QED BY <1>1, <2>3, <2>4
<1>5. /\ cached' \subseteq Ids /\ \A x \in cached' : status'[x] = "active"
      /\ context' \in [Ids -> Seq(Messages)]
  <2>1. CASE Delete(a)
    BY <2>1, <1>3 DEF Delete, Inv, TypeOK, CachedAreActive
  <2>2. CASE RestartInDelete(a)
    BY <2>2, <1>2, ReloadType DEF RestartInDelete
  <2> QED BY <2>1, <2>2
<1>6. TypeOK'
  BY <1>3, <1>4, <1>5 DEF Inv, TypeOK
<1>7. Inv'
  BY <1>2, <1>4, <1>5, <1>6 DEF Inv, CachedAreActive
<1>8. {x \in Ids : Exists(x)}' = {x \in Ids : Exists(x)} \ {a}
  BY <1>3 DEF Exists, Inv, TypeOK
<1>9. Copies!Remove(a)
  BY <1>2, <1>3, <1>8 DEF Copies!Remove
<1> QED BY <1>7, <1>9 DEF CopiesStep, Copies!Next

\* Opening, dropping and archiving agents and restarting the process change no reading.
LEMMA QuietKeeps ==
  ASSUME Inv,
         \/ \E a \in Ids : Open(a) \/ Forget(a) \/ Archive(a)
         \/ Restart \/ RestartInStart \/ UNCHANGED vars
  PROVE  Inv' /\ CopiesStep
<1>1. /\ UNCHANGED <<parent, offset, rows, said>> /\ idCounter' \in idCounter .. MaxAgents
      /\ status' \in [Ids -> {"unborn", "active", "archived", "deleted"}]
      /\ \A x \in Ids : status'[x] = status[x] \/ (Exists(x) /\ Exists(x)')
  <2>1. CASE \E a \in Ids : Archive(a)
    <3>1. PICK a \in Ids : Archive(a)
      BY <2>1
    <3>2. /\ status' = [status EXCEPT ![a] = "archived"] /\ Exists(a)
          /\ UNCHANGED <<idCounter, parent, offset, rows, said>>
      BY <3>1 DEF Archive
    <3>3. Exists(a)'
      BY <3>2 DEF Exists, Inv, TypeOK
    <3> QED BY <3>2, <3>3 DEF Inv, TypeOK
  <2>2. CASE RestartInStart
    BY <2>2, BoundsAssumption DEF RestartInStart, NextId, Inv, TypeOK
  <2>3. CASE \/ \E a \in Ids : Open(a) \/ Forget(a)
             \/ Restart \/ UNCHANGED vars
    BY <2>3 DEF Open, Forget, Restart, vars, tables, Inv, TypeOK
  <2> QED BY <2>1, <2>2, <2>3
<1>2. \A x \in Ids : Exists(x)' <=> Exists(x)
  BY <1>1 DEF Exists
<1>3. Readable' = Readable
  <2>1. Readable' = [x \in Ids |-> IF Exists(x)' THEN rows'[x] ELSE <<>>]
    BY DEF Readable
  <2> QED BY <2>1, <1>1, <1>2 DEF Readable
<1>4. Full' = Full /\ Reads'
  BY <1>1, <1>3, NothingRewritten
<1>5. /\ cached' \subseteq Ids /\ \A x \in cached' : status'[x] = "active"
      /\ context' \in [Ids -> Seq(Messages)]
  <2>1. CASE Restart \/ RestartInStart
    BY <2>1, <1>4, ReloadType DEF Restart, RestartInStart
  <2>2. CASE \E a \in Ids : Open(a)
    <3>1. PICK a \in Ids : Open(a)
      BY <2>2
    <3>2. Full[a] \in Seq(Messages)
      BY DEF Inv, Reads
    <3> QED BY <3>1, <3>2 DEF Open, tables, Inv, TypeOK, CachedAreActive
  <2>3. CASE \E a \in Ids : Forget(a)
    BY <2>3 DEF Forget, tables, Inv, TypeOK, CachedAreActive
  <2>4. CASE \E a \in Ids : Archive(a)
    <3>1. PICK a \in Ids : Archive(a)
      BY <2>4
    <3> QED BY <3>1 DEF Archive, Inv, TypeOK, CachedAreActive
  <2>5. CASE UNCHANGED vars
    BY <2>5 DEF vars, tables, Inv, TypeOK, CachedAreActive
  <2> QED BY <2>1, <2>2, <2>3, <2>4, <2>5
<1>6. Inv'
  <2>1. said' \in [Ids -> Nat] /\ rows' \in [Ids -> Seq(Messages)] /\ OwnRows'
    BY <1>1 DEF Inv, TypeOK, OwnRows
  <2>2. UNCHANGED <<parent, offset>>
    BY <1>1
  <2> QED BY <2>1, <2>2, <1>1, <1>4, <1>5, KeepsInv, Zenon
<1>7. {x \in Ids : Exists(x)}' = {x \in Ids : Exists(x)}
  BY <1>2 DEF Exists
<1> QED BY <1>1, <1>4, <1>6, <1>7 DEF CopiesStep, Copies!vars

LEMMA InitKeeps ==
  ASSUME Init
  PROVE  Inv /\ Copies!Init
<1>1. /\ idCounter = 0 /\ cached = {} /\ status = [a \in Ids |-> "unborn"]
      /\ parent = [a \in Ids |-> NoParent] /\ offset = [a \in Ids |-> 0]
      /\ rows = [a \in Ids |-> <<>>] /\ said = [a \in Ids |-> 0]
      /\ context = [a \in Ids |-> <<>>]
  BY DEF Init
<1>2. TypeOK
  BY <1>1, BoundsAssumption DEF TypeOK
<1>3. Linked /\ Fresh /\ CachedAreActive /\ OwnRows
  BY <1>1 DEF Linked, Fresh, CachedAreActive, OwnRows
<1>4. Older(parent) /\ Readable = [a \in Ids |-> <<>>]
  BY <1>1 DEF Older, Readable, Exists
<1>5. PICK f : f = [a \in Ids |-> <<>>]
  OBVIOUS
<1>6. Solves(parent, offset, Readable, f)
  BY <1>1, <1>4, <1>5 DEF Solves, Piece
<1>7. Full = f
  <2>1. PICK par, off, own : par = parent /\ off = offset /\ own = Readable
    OBVIOUS
  <2>2. Older(par) /\ Solves(par, off, own, f)
    BY <2>1, <1>4, <1>6
  <2>3. Assembled(par, off, own) = f
    BY <2>2, Reading
  <2> QED BY <2>1, <2>3 DEF Full
<1>8. Reads
  BY <1>1, <1>5, <1>6, <1>7 DEF Reads
<1>9. {a \in Ids : Exists(a)} = {}
  BY <1>1 DEF Exists
<1> QED BY <1>1, <1>2, <1>3, <1>5, <1>7, <1>8, <1>9 DEF Inv, Copies!Init

LEMMA StepKeeps ==
  ASSUME Inv, [Next]_vars
  PROVE  Inv' /\ CopiesStep
<1>1. CASE MakeStep
  BY <1>1, MakeKeeps
<1>2. ASSUME NEW a \in Ids, WriteStep(a) PROVE Inv' /\ CopiesStep
  <2>1. CASE \E s \in BOOLEAN : Say(a, s)
    BY <2>1, SayKeeps
  <2>2. ASSUME NEW i \in 1 .. MaxSaid, NEW f \in BOOLEAN, BeyondForks(a, i),
               DeleteRows(a, i, f) \/ (parent[a] = NoParent /\ Compact(a, i, f))
        PROVE  Inv' /\ CopiesStep
    <3>1. i \in Nat
      OBVIOUS
    <3> QED BY <2>2, <3>1, EditKeeps
  <2> QED BY <1>2, <2>1, <2>2 DEF WriteStep
<1>3. ASSUME NEW a \in Ids, KeepStep(a) PROVE Inv' /\ CopiesStep
  BY <1>3, QuietKeeps, GoneKeeps DEF KeepStep
<1>4. CASE Restart \/ RestartInStart \/ UNCHANGED vars
  BY <1>4, QuietKeeps
<1> QED BY <1>1, <1>2, <1>3, <1>4 DEF Next

THEOREM Invariance == Spec => []Inv
<1>1. Init => Inv
  BY InitKeeps
<1>2. Inv /\ [Next]_vars => Inv'
  BY StepKeeps
<1> QED BY <1>1, <1>2, PTL DEF Spec

-----------------------------------------------------------------------------
(***************************************************************************)
(* The theorems.                                                           *)
(***************************************************************************)

\* Every variable stays in its range.
THEOREM TypeCorrect == Spec => []TypeOK
<1>1. Inv => TypeOK
  BY DEF Inv
<1> QED BY <1>1, Invariance, PTL

\* DR-05, second half: the rows stored for an agent were written for it, whatever
\* order of forks, delegations, edits and restarts came before.
THEOREM OwnsItsContinuation == Spec => []OwnContinuation
<1>1. Inv => OwnContinuation
  <2>1. ASSUME Inv, NEW a \in Ids, NEW i \in DOMAIN rows[a] PROVE rows[a][i].by = a
    <3>1. rows[a] \in Seq(OwnMessages(a))
      BY <2>1 DEF Inv, OwnRows
    <3>2. rows[a][i] \in OwnMessages(a)
      BY <3>1
    <3> QED BY <3>2 DEF OwnMessages
  <2> QED BY <2>1 DEF OwnContinuation
<1> QED BY <1>1, Invariance, PTL

\* UC-003 BR-01: reading the parent lazily up to an offset implements a copy made at the
\* time of the fork, while parents are edited beyond the boundaries of their forks.
THEOREM LazyForkIsACopy == Spec => ForkIsACopy
<1>1. Init => Copies!Init
  BY InitKeeps
<1>2. Inv /\ [Next]_vars => [Copies!Next]_(Copies!vars)
  BY StepKeeps DEF CopiesStep
<1> QED BY <1>1, <1>2, Invariance, PTL DEF Spec, ForkIsACopy, Copies!Spec

\* A deleted agent's id is never given to another agent.
THEOREM IdsAreNotReused == Spec => DeletedStaysDeleted
<1>1. ASSUME Inv, [Next]_vars, NEW a \in Ids, status[a] = "deleted"
      PROVE  status'[a] = "deleted"
  <2>1. ASSUME NEW p, NEW off, NEW s, NewAgent(p, off, s) PROVE status'[a] = "deleted"
    <3>1. NextId # a
      BY <1>1 DEF NextId, Inv, TypeOK, Fresh, Ids
    <3> QED BY <1>1, <2>1, <3>1 DEF NewAgent, Inv, TypeOK
  <2>2. CASE MakeStep
    BY <2>1, <2>2 DEF MakeStep, Start, Fork, Delegate
  <2>3. ASSUME NEW b \in Ids, WriteStep(b) PROVE status'[a] = "deleted"
    BY <1>1, <2>3 DEF WriteStep, Say, DeleteRows, Compact
  <2>4. ASSUME NEW b \in Ids, KeepStep(b) PROVE status'[a] = "deleted"
    BY <1>1, <2>4 DEF KeepStep, Open, Forget, Archive, Delete, RestartInDelete, RowGone,
                      tables, Exists, Inv, TypeOK
  <2>5. CASE Restart \/ RestartInStart \/ UNCHANGED vars
    BY <1>1, <2>5 DEF Restart, RestartInStart, vars, tables
  <2> QED BY <1>1, <2>2, <2>3, <2>4, <2>5 DEF Next
<1>2. Inv /\ [Next]_vars => [\A a \in Ids : status[a] = "deleted" => status'[a] = "deleted"]_vars
  BY <1>1
<1> QED BY <1>2, Invariance, PTL DEF Spec, DeletedStaysDeleted

-----------------------------------------------------------------------------
(***************************************************************************)
(* The objects in ctx.state.agent.                                         *)
(***************************************************************************)
NotAhead(a) ==
  /\ Len(context[a]) <= Len(Full[a])
  /\ \A i \in DOMAIN context[a] : context[a][i] = Full[a][i]

\* An object keeps pace when it and its reading stay, when both become one, and when
\* only the reading grows.
LEMMA KeepsPace ==
  ASSUME Inv, Inv', NEW x \in Ids,
         \/ context'[x] = Full'[x]
         \/ context'[x] = <<>>
         \/ /\ NotAhead(x) /\ context'[x] = context[x]
            /\ Len(Full'[x]) >= Len(Full[x])
            /\ \A i \in 1 .. Len(Full[x]) : Full'[x][i] = Full[x][i]
  PROVE  NotAhead(x)'
<1>1. /\ context[x] \in Seq(Messages) /\ context'[x] \in Seq(Messages)
      /\ Full[x] \in Seq(Messages) /\ Full'[x] \in Seq(Messages)
  BY DEF Inv, TypeOK, Reads
<1>2. PICK c, d, f, g : c = context[x] /\ d = context'[x] /\ f = Full[x] /\ g = Full'[x]
  OBVIOUS
<1>3. /\ Len(c) \in Nat /\ Len(d) \in Nat /\ Len(f) \in Nat /\ Len(g) \in Nat
      /\ DOMAIN c = 1 .. Len(c) /\ DOMAIN d = 1 .. Len(d)
  BY <1>1, <1>2
<1>4. Len(d) <= Len(g) /\ \A i \in DOMAIN d : d[i] = g[i]
  <2>1. CASE d = g
    BY <2>1, <1>3
  <2>2. CASE d = <<>>
    BY <2>2, <1>3
  <2>3. CASE /\ NotAhead(x) /\ d = c /\ Len(g) >= Len(f)
             /\ \A i \in 1 .. Len(f) : g[i] = f[i]
    <3>1. Len(c) <= Len(f) /\ \A i \in DOMAIN c : c[i] = f[i]
      BY <2>3, <1>2 DEF NotAhead
    <3> QED BY <2>3, <3>1, <1>3
  <2> QED BY <1>2, <2>1, <2>2, <2>3
<1> QED BY <1>2, <1>4 DEF NotAhead

LEMMA CacheStep ==
  ASSUME Inv, Inv', CacheIsNotAhead, [Next]_vars
  PROVE  CacheIsNotAhead'
<1>1. SUFFICES ASSUME NEW x \in cached' PROVE NotAhead(x)'
  BY DEF CacheIsNotAhead, NotAhead
<1>2. x \in Ids /\ (x \in cached => NotAhead(x)) /\ cached \subseteq Ids
  BY DEF CacheIsNotAhead, NotAhead, Inv, TypeOK
<1>3. /\ context \in [Ids -> Seq(Messages)] /\ Full \in [Ids -> Seq(Messages)]
      /\ status \in [Ids -> {"unborn", "active", "archived", "deleted"}]
  BY DEF Inv, TypeOK, Reads
\* The object and its reading stay as they are.
<1>4. ASSUME x \in cached, context'[x] = context[x], Full'[x] = Full[x] PROVE NotAhead(x)'
  <2>1. Len(Full[x]) \in Nat
    BY <1>2, <1>3
  <2> QED BY <2>1, <1>2, <1>4, KeepsPace
<1>5. CASE MakeStep
  <2>1. ASSUME NEW p, NEW off, NEW s, NewAgent(p, off, s),
               \/ p = NoParent /\ off = 0
               \/ p \in Ids /\ Exists(p) /\ off = Len(Full[p])
        PROVE  NotAhead(x)'
    <3>1. PICK c, inh : c = NextId /\ inh = Inherited(p, off)
      OBVIOUS
    <3>2. c \in Ids /\ inh \in Seq(Messages) /\ Full' = [Full EXCEPT ![c] = inh]
      BY <2>1, <3>1, NewAgentReads
    <3>3. /\ cached' = cached \cup {c}
          /\ context' = [context EXCEPT ![c] = IF s THEN inh \o <<>> ELSE <<>>]
      BY <2>1, <3>1 DEF NewAgent, FirstMessages
    <3>4. CASE x = c
      <4>1. inh \o <<>> = inh
        BY <3>2, ConcatEmptySeq
      <4>2. context'[x] = <<>> \/ context'[x] = Full'[x]
        BY <3>2, <3>3, <3>4, <4>1, <1>3
      <4> QED BY <4>2, <1>2, KeepsPace
    <3>5. CASE x # c
      BY <3>2, <3>3, <3>5, <1>3, <1>4
    <3> QED BY <3>4, <3>5
  <2>2. \A p \in Ids : Reachable(p) => Exists(p)
    BY DEF Reachable, Inv, CachedAreActive, Exists
  <2> QED BY <1>5, <2>1, <2>2 DEF MakeStep, Start, Fork, Delegate, ForkOffset
<1>6. ASSUME NEW a \in Ids, NEW s \in BOOLEAN, Say(a, s) PROVE NotAhead(x)'
  <2>1. x \in cached /\ Exists(x)
    BY <1>6 DEF Say, Inv, CachedAreActive, Exists
  <2>2. /\ ~Exists(a) => Full' = Full
        /\ Exists(a) => /\ Full' = [Full EXCEPT ![a] = Full'[a]]
                        /\ Len(Full'[a]) >= Len(Full[a])
                        /\ \A i \in 1 .. Len(Full[a]) : Full'[a][i] = Full[a][i]
    BY <1>6, SayReads
  <2>3. context' = IF s THEN Resync(a, Full'[a]) ELSE context
    BY <1>6 DEF Say
  <2>4. CASE x = a
    <3>1. context'[x] = Full'[x] \/ context'[x] = context[x]
      BY <2>1, <2>3, <2>4, <1>2, <1>3 DEF Resync
    <3> QED BY <2>1, <2>2, <2>4, <3>1, <1>2, KeepsPace
  <2>5. CASE x # a
    <3>1. context'[x] = context[x] /\ Full'[x] = Full[x]
      BY <2>2, <2>3, <2>5, <1>2, <1>3 DEF Resync
    <3> QED BY <3>1, <2>1, <1>4
  <2> QED BY <2>4, <2>5
<1>7. ASSUME NEW a \in Ids, NEW i \in 1 .. MaxSaid, NEW f \in BOOLEAN, BeyondForks(a, i),
             DeleteRows(a, i, f) \/ (parent[a] = NoParent /\ Compact(a, i, f))
      PROVE  NotAhead(x)'
  <2>1. Full' = [Full EXCEPT ![a] = Full'[a]]
    <3>1. i \in Nat
      OBVIOUS
    <3> QED BY <1>7, <3>1, EditReads
  <2>2. context' = Resync(a, Full'[a]) /\ x \in cached
    BY <1>7 DEF DeleteRows, Compact
  <2>3. CASE x = a
    <3>1. context'[x] = Full'[x]
      BY <2>2, <2>3, <1>2, <1>3 DEF Resync
    <3> QED BY <3>1, <1>2, KeepsPace
  <2>4. CASE x # a
    <3>1. context'[x] = context[x] /\ Full'[x] = Full[x]
      BY <2>1, <2>2, <2>4, <1>2, <1>3 DEF Resync
    <3> QED BY <3>1, <2>2, <1>4
  <2> QED BY <2>3, <2>4
<1>8. ASSUME Reload PROVE NotAhead(x)'
  <2>1. context'[x] = Full'[x]
    BY <1>8, <1>2 DEF Reload
  <2> QED BY <2>1, <1>2, KeepsPace
<1>9. ASSUME NEW a \in Ids, ~ForkedFrom(a), Delete(a) PROVE NotAhead(x)'
  <2>1. Full' = [Full EXCEPT ![a] = <<>>]
    BY <1>9, GoneReads DEF Delete
  <2>2. x \in cached /\ x # a /\ context'[x] = context[x]
    BY <1>9, <1>2, <1>3 DEF Delete
  <2> QED BY <2>1, <2>2, <1>2, <1>3, <1>4
<1>10. ASSUME \/ \E a \in Ids : Open(a) \/ Forget(a) \/ Archive(a)
              \/ UNCHANGED vars
       PROVE  NotAhead(x)'
  <2>1. Full' = Full
    <3>1. UNCHANGED <<parent, offset, rows>> /\ \A y \in Ids : Exists(y)' <=> Exists(y)
      BY <1>3, <1>10 DEF Open, Forget, Archive, vars, tables, Exists
    <3>2. Readable' = [y \in Ids |-> IF Exists(y)' THEN rows'[y] ELSE <<>>]
      BY DEF Readable
    <3>3. Readable' = Readable
      BY <3>1, <3>2 DEF Readable
    <3> QED BY <3>1, <3>3, NothingRewritten
  <2>2. CASE \E a \in Ids : Open(a)
    <3>1. PICK a \in Ids : Open(a)
      BY <2>2
    <3>2. \/ x \in cached /\ context'[x] = context[x]
          \/ context'[x] = Full[x]
      BY <3>1, <1>2, <1>3 DEF Open
    <3> QED BY <3>2, <2>1, <1>2, <1>4, KeepsPace
  <2>3. CASE \E a \in Ids : Forget(a) \/ Archive(a)
    <3>1. PICK a \in Ids : cached' = cached \ {a} /\ context' = [context EXCEPT ![a] = <<>>]
      BY <2>3 DEF Forget, Archive
    <3> QED BY <3>1, <2>1, <1>2, <1>3, <1>4
  <2>4. CASE UNCHANGED vars
    BY <2>1, <2>4, <1>4 DEF vars
  <2> QED BY <1>10, <2>2, <2>3, <2>4
<1>11. ASSUME NEW a \in Ids, WriteStep(a) PROVE NotAhead(x)'
  BY <1>6, <1>7, <1>11 DEF WriteStep
<1>12. ASSUME NEW a \in Ids, KeepStep(a) PROVE NotAhead(x)'
  BY <1>8, <1>9, <1>10, <1>12 DEF KeepStep, RestartInDelete
<1>13. CASE Restart \/ RestartInStart
  BY <1>8, <1>13 DEF Restart, RestartInStart
<1> QED BY <1>5, <1>10, <1>11, <1>12, <1>13 DEF Next

\* What an object holds is the beginning of what the tables hold, whatever was edited,
\* loaded, dropped or restarted since it was made.
THEOREM CacheNeverAhead == Spec => []CacheIsNotAhead
<1>1. Init => CacheIsNotAhead
  BY DEF Init, CacheIsNotAhead
<1>2. Inv /\ Inv' /\ CacheIsNotAhead /\ [Next]_vars => CacheIsNotAhead'
  BY CacheStep
<1> QED BY <1>1, <1>2, Invariance, PTL DEF Spec

=============================================================================
