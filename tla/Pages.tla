------------------------------- MODULE Pages -------------------------------
(***************************************************************************)
(* A client that reads a list page by page (web.PagerFilter,               *)
(* orm.ListWithContext) while rows are added at its end.                   *)
(***************************************************************************)
EXTENDS Integers, Sequences

CONSTANTS
  MaxLimit,            \* 10000 in the code
  PageSizes, MaxRows   \* bound

ASSUME PagesAssumption ==
  MaxLimit \in Nat \ {0} /\ MaxRows \in Nat /\ PageSizes \subseteq Int

VARIABLES
  pageSize, page,   \* the PagerFilter of the client's next request
  rows,             \* the rows are 1..rows
  listed,           \* what the client got so far
  atEnd             \* the last page was a short one

pagevars == <<pageSize, page, rows, listed, atEnd>>

PagesInit ==
  /\ pageSize \in PageSizes /\ page \in {0, 1} /\ rows \in 0..MaxRows
  /\ listed = <<>> /\ atEnd = FALSE

Limit == IF pageSize <= 1 THEN 1 ELSE IF pageSize > MaxLimit THEN MaxLimit ELSE pageSize

\* Mutant: pages counted from 0.
OffsetFromZero == page * pageSize

Offset == (IF page < 1 THEN 0 ELSE page - 1) * pageSize

\* A negative offset is none.
ListWithContext ==
  LET from == IF Offset < 0 THEN 0 ELSE Offset
      n == IF from >= rows THEN 0 ELSE IF rows - from < Limit THEN rows - from ELSE Limit IN
  /\ ~atEnd /\ page <= MaxRows + 1
  /\ listed' = listed \o [i \in 1..n |-> from + i]
  /\ atEnd' = (n < Limit)
  /\ page' = (IF page < 1 THEN 1 ELSE page) + 1
  /\ UNCHANGED <<pageSize, rows>>

AddRow ==
  /\ ~atEnd /\ rows < MaxRows /\ rows' = rows + 1
  /\ UNCHANGED <<pageSize, page, listed, atEnd>>

PagesNext == ListWithContext \/ AddRow

-----------------------------------------------------------------------------
(* The pages show every row once and in order, for every size a page can   *)
(* have: outside of 1..MaxLimit the offset is not clamped as the limit is, *)
(* and pages overlap or leave rows out.                                    *)
PagesCover ==
  atEnd /\ pageSize \in 1..MaxLimit => listed = [i \in 1..rows |-> i]
=============================================================================
