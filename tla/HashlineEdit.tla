---------------------------- MODULE HashlineEdit -----------------------------
(***************************************************************************)
(* files.editHashline: what a patch of anchored operations makes of a file.*)
(* A file is a sequence of lines, a line is a number; an anchor is the     *)
(* number of a line together with a hash of it, so that it is valid as long*)
(* as the line it was copied from still stands there.                      *)
(***************************************************************************)
EXTENDS Integers, Sequences, SequencesExt, FiniteSets

BOF == 0
EOF == -1

Insert(kind, anchor, lines)   == [kind |-> kind, anchor |-> anchor, lines |-> lines]
Ranged(kind, first, last, lines) ==
  [kind |-> kind, first |-> first, last |-> last, lines |-> lines]

IsRange(op)  == op.kind \in {"delete", "replace"}
Anchors(op)  == IF IsRange(op) THEN {op.first, op.last} ELSE {op.anchor} \ {BOF, EOF}

\* validateAnchor: the line is there and is the one the model had seen.
Valid(base, seen, n) == n \in DOMAIN base /\ n \in DOMAIN seen /\ base[n] = seen[n]

Overlap(a, b) == a.first <= b.last /\ b.first <= a.last

\* What the tool refuses: a stale anchor, and ranges that overlap.
Accepted(base, seen, ops) ==
  /\ \A i \in DOMAIN ops : \A n \in Anchors(ops[i]) : Valid(base, seen, n)
  /\ \A i, j \in DOMAIN ops :
       i < j /\ IsRange(ops[i]) /\ IsRange(ops[j]) => ~Overlap(ops[i], ops[j])

-----------------------------------------------------------------------------
\* The index an insertion is filed under, counted from 0.
Index(base, op) ==
  IF op.anchor = BOF THEN 0
  ELSE IF op.anchor = EOF THEN Len(base)
  ELSE IF op.kind = "insert_before" THEN op.anchor - 1
  ELSE op.anchor

Filed(base, ops, kind, i) ==
  FlattenSeq([k \in DOMAIN ops |->
     IF ops[k].kind = kind /\ Index(base, ops[k]) = i THEN ops[k].lines ELSE <<>>])

Ranges(ops) == {ops[k] : k \in {j \in DOMAIN ops : IsRange(ops[j])}}
StartsAt(ops, i) == {r \in Ranges(ops) : r.first = i + 1}

\* Mutant of Inside: the end of a range is taken to be one line further.
InsideOrBehind(ops, i) == \E r \in Ranges(ops) : r.first < i + 1 /\ i <= r.last

Inside(ops, i) == \E r \in Ranges(ops) : r.first < i + 1 /\ i + 1 <= r.last

\* One turn of the loop over the base: what is pushed for index i.  A range
\* takes the place of its first line, and the loop goes on behind its end.
Pushed(base, ops, i) ==
  IF Inside(ops, i) THEN <<>>
  ELSE Filed(base, ops, "insert_before", i)
       \o (IF i = Len(base) THEN <<>>
           ELSE IF StartsAt(ops, i) = {} THEN <<base[i + 1]>>
           ELSE (CHOOSE r \in StartsAt(ops, i) : TRUE).lines)
       \o Filed(base, ops, "insert_after", i)

\* The lines of the patched file.
Edited(base, ops) == FlattenSeq([i \in 1..(Len(base) + 1) |-> Pushed(base, ops, i - 1)])

-----------------------------------------------------------------------------
(* What a patch promises, said without the algorithm. *)

Removed(ops)      == UNION {r.first..r.last : r \in Ranges(ops)}
Lines(s)          == {s[i] : i \in DOMAIN s}
Kept(base, ops)   == {base[n] : n \in DOMAIN base \ Removed(ops)}

\* Every line that no range names is still there, in its place among the
\* others, and nothing else of the old file is.
KeepsTheRest(base, ops, new) ==
  SelectSeq(new, LAMBDA line : line \in Lines(base))
    = SelectSeq(base, LAMBDA line : line \in Kept(base, ops))

\* Lines of a payload stand together, once.
Together(new, lines) ==
  Cardinality({i \in DOMAIN new : SubSeq(new, i, i + Len(lines) - 1) = lines}) = 1

\* Every replacement, and every insertion that does not fall inside a range,
\* is in the file; a replacement between the neighbours of its range, an
\* insertion before a line right in front of what is there of that line.
PutsPayloads(base, ops, new) ==
  \A k \in DOMAIN ops :
    LET op == ops[k]  lines == op.lines IN
    \/ lines = <<>>
    \/ ~IsRange(op) /\ Inside(ops, Index(base, op))
    \/ /\ Together(new, lines)
       /\ op.kind = "insert_before" /\ op.anchor > 0 =>
            \A i, j \in DOMAIN new, n \in DOMAIN base :
              new[i] = lines[1] /\ new[j] = base[n] => (i < j <=> n >= op.anchor)
       /\ op.kind = "replace" =>
            \A i, j \in DOMAIN new, n \in DOMAIN base :
              new[i] = lines[1] /\ new[j] = base[n] => (i < j <=> n > op.last)

\* "+ ANCHOR": the payload stands behind the line of the anchor.
InsertsAfter(base, ops, new) ==
  \A k \in DOMAIN ops :
    LET op == ops[k] IN
    op.kind = "insert_after" /\ ~Inside(ops, Index(base, op)) =>
      \A i, j \in DOMAIN new, n \in DOMAIN base :
        new[i] = op.lines[1] /\ new[j] = base[n]
          => (i < j <=> n > (IF op.anchor = EOF THEN Len(base) ELSE op.anchor))
=============================================================================
