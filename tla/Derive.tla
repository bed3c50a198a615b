------------------------------- MODULE Derive -------------------------------
(***************************************************************************)
(* Contexts that carry log attributes (logger.WithAttr) and errors that    *)
(* carry details (reason.Error.With): both are derived from one another by *)
(* appending to a slice that the parent and its other children may share.  *)
(* The n-th value appended anywhere is n.                                  *)
(***************************************************************************)
EXTENDS Naturals, Sequences

CONSTANTS MaxNodes    \* bound

VARIABLES
  derives,      \* "context" or "error": which of the two
  arrays,    \* the arrays behind the slices: capacity and cells
  nodes      \* what was derived: a slice, and the values it was given

derivevars == <<derives, arrays, nodes>>

Nil == [array |-> 0, len |-> 0]

DeriveInit ==
  /\ derives \in {"context", "error"} /\ arrays = <<>>
  /\ nodes = <<[slice |-> Nil, given |-> <<>>]>>

Cap(as, s) == IF s.array = 0 THEN 0 ELSE as[s.array].cap
Content(as, s) == IF s.array = 0 THEN <<>> ELSE SubSeq(as[s.array].cells, 1, s.len)

\* Go's append to slice s over the arrays as: in place while there is room,
\* into an array of twice the size or more when there is not.
GoAppend(as, s, values) ==
  LET n == s.len + Len(values)
      cells == Content(as, s) \o values
      tail == IF s.array = 0 THEN <<>>
              ELSE SubSeq(as[s.array].cells, n + 1, Len(as[s.array].cells))
      cap == IF n > 2 * Cap(as, s) THEN n ELSE 2 * Cap(as, s) IN
  IF n <= Cap(as, s)
  THEN [arrays |-> IF values = <<>> THEN as
                   ELSE [as EXCEPT ![s.array].cells = cells \o tail],
        slice |-> [s EXCEPT !.len = n]]
  ELSE [arrays |-> Append(as, [cap |-> cap, cells |-> cells]),
        slice |-> [array |-> Len(as) + 1, len |-> n]]

Derived(r, given) ==
  /\ arrays' = r.arrays
  /\ nodes' = Append(nodes, [slice |-> r.slice, given |-> given])
  /\ UNCHANGED derives

WithAttr(n) ==
  /\ derives = "context"
  /\ Derived(GoAppend(arrays, nodes[n].slice, <<Len(nodes)>>),
             Append(nodes[n].given, Len(nodes)))

\* Mutant: the details are not copied first.
WithoutCopy(n) ==
  /\ derives = "error"
  /\ Derived(GoAppend(arrays, nodes[n].slice, <<Len(nodes)>>),
             Append(nodes[n].given, Len(nodes)))

\* With appends the details to themselves before it appends the argument.
With(n) ==
  LET old == nodes[n]
      twice == GoAppend(arrays, old.slice, Content(arrays, old.slice)) IN
  /\ derives = "error"
  /\ Derived(GoAppend(twice.arrays, twice.slice, <<Len(nodes)>>),
             Append(old.given \o old.given, Len(nodes)))

\* SetMsg and SetHTTPStatus: a copy that shares the details.
SetMsg(n) ==
  /\ derives = "error"
  /\ Derived([arrays |-> arrays, slice |-> nodes[n].slice], nodes[n].given)

DeriveNext ==
  \E n \in 1..Len(nodes) :
    Len(nodes) < MaxNodes /\ (WithAttr(n) \/ With(n) \/ SetMsg(n))

-----------------------------------------------------------------------------
(* What was derived keeps the values it was given, whatever else is        *)
(* derived from its ancestors. For an error that is due to the details     *)
(* being doubled, which always moves them to a new array; a context keeps  *)
(* its attributes as long as there are no more than three of them.         *)
DerivedKept ==
  \A n \in 1..Len(nodes) :
    derives = "error" \/ Len(nodes[n].given) <= 3
      => Content(arrays, nodes[n].slice) = nodes[n].given
=============================================================================
