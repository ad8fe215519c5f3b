---------------------------- MODULE VersionedRow ----------------------------
(***************************************************************************)
(* What If-Match and rowVersion promise to the people who edit one row: a  *)
(* save goes through only if it was computed from the row as it stands,    *)
(* and what it leaves unmentioned stays as its author saw it. Nobody's     *)
(* accepted change is undone by somebody who had not seen it.              *)
(***************************************************************************)
EXTENDS Naturals

CONSTANTS
  Editors,
  Fields,
  Values,
  Gone     \* the row after its deletion

Rows == [version : Nat, data : [Fields -> Values]]

\* A patch mentions some fields and leaves the others out.
Patches == UNION {[mentioned -> Values] : mentioned \in SUBSET Fields}

Apply(data, patch) ==
  [f \in Fields |-> IF f \in DOMAIN patch THEN patch[f] ELSE data[f]]

VARIABLES
  row,  \* the row
  base  \* per editor, the row that editor's save is computed from

vars == <<row, base>>

Init == row \in Rows /\ row.version = 1 /\ base = [e \in Editors |-> row]

\* The author starts over from some version of the row, however old.
Edit(e) ==
  /\ base' \in [Editors -> Rows]
  /\ \A d \in Editors \ {e} : base'[d] = base[d]
  /\ UNCHANGED row

Save(e) ==
  /\ row # Gone /\ base[e] = row
  /\ \E patch \in Patches :
       row' = [version |-> base[e].version + 1, data |-> Apply(base[e].data, patch)]
  /\ UNCHANGED base

Delete == row' = Gone /\ UNCHANGED base

Next == Delete \/ \E e \in Editors : Edit(e) \/ Save(e)

Spec == Init /\ [][Next]_vars
=============================================================================
