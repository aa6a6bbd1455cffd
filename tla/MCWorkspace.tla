----------------------------- MODULE MCWorkspace -----------------------------
(* The instance of Workspace that TLC checks: a source of two lines, patches   *)
(* of up to two operations, whose payloads are one line each.                  *)
EXTENDS Workspace

MCShipped == <<1, 2>>
MCSaves == {<<3>>}

\* Operation number k over the lines seen; a replacement's range runs forward.
Op(lines, k) ==
  LET n == Len(lines)  payload == <<3 + k>> IN
  {Insert(kind, a, payload) : kind \in {"insert_before", "insert_after"}, a \in {BOF, EOF} \cup 1..n}
  \cup {Ranged("replace", r[1], r[2], payload) : r \in {q \in (1..n) \X (1..n) : q[1] <= q[2]}}
  \cup {Ranged("delete", r[1], r[2], <<>>) : r \in {q \in (1..n) \X (1..n) : q[1] <= q[2]}}

MCPatches(lines) ==
  {<<a>> : a \in Op(lines, 1)} \cup {<<a, b>> : a \in Op(lines, 1), b \in Op(lines, 2)}
=============================================================================
