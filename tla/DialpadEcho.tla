---------------------------- MODULE DialpadEcho ----------------------------
(***************************************************************************)
(* The number of a controlled dialpad and the place of its next edit:      *)
(* packages/angular/features/dialpad/dialpad.ts.                           *)
(*                                                                         *)
(* The host owns the number.  Every edit is published and comes back as a  *)
(* new input later, alone or together with later ones; meanwhile the user  *)
(* goes on editing.  The dialpad tells its own edits from a host's write   *)
(* by the edits it remembers.                                              *)
(*                                                                         *)
(*   bound    the number the host has bound and the dialpad has rendered   *)
(*   field    what the native input shows                                  *)
(*   caret    None, or the caret or range the next edit acts on            *)
(*   pending  pendingEdits, oldest first                                   *)
(*   flight   published numbers the host has not bound yet                 *)
(*   strays   how many of those are older than the last number bound that  *)
(*            answered no edit: a write of the host, or a late echo         *)
(***************************************************************************)
EXTENDS Naturals, Sequences

CONSTANTS Digit, NoCaret,
  Limit,     \* HELL_DIALPAD_PENDING_EDIT_LIMIT
  MaxLength, \* bound on the length of a number
  MaxFlight  \* bound on edits on their way

VARIABLES bound, field, caret, pending, flight, strays

dialVars == <<bound, field, caret, pending, flight, strays>>

Number == UNION {[1 .. n -> Digit] : n \in 0 .. MaxLength}
At(s, e) == [start |-> s, end |-> e]
Least(a, b) == IF a < b THEN a ELSE b

\* selection(): clamped to the number on display, its end without a caret.
Selection ==
  LET n == Len(bound) IN
  IF caret = NoCaret THEN At(n, n) ELSE At(Least(caret.start, n), Least(caret.end, n))

DialInit ==
  /\ bound = <<>> /\ field = <<>>
  /\ caret = NoCaret
  /\ pending = <<>> /\ flight = <<>>
  /\ strays = 0

\* commit: remember the edit, forget the oldest at the limit, publish.
CommitEdit(v, c) ==
  LET all == Append(pending, [value |-> v, caret |-> c]) IN
  /\ Len(v) <= MaxLength /\ Len(flight) < MaxFlight
  /\ caret' = At(c, c)
  /\ pending' = IF Len(all) > Limit THEN Tail(all) ELSE all
  /\ flight' = Append(flight, v)
  /\ UNCHANGED <<bound, strays>>

Press(d) ==
  LET s == Selection IN
  /\ CommitEdit(SubSeq(bound, 1, s.start) \o <<d>> \o SubSeq(bound, s.end + 1, Len(bound)), s.start + 1)
  /\ UNCHANGED field

Backspace ==
  LET s == Selection
      from == IF s.start = s.end THEN s.start - 1 ELSE s.start IN
  /\ bound # <<>> /\ s # At(0, 0)
  /\ CommitEdit(SubSeq(bound, 1, from) \o SubSeq(bound, s.end + 1, Len(bound)), from)
  /\ UNCHANGED field

Erase == bound # <<>> /\ CommitEdit(<<>>, 0) /\ UNCHANGED field

\* onNumberInput: paste, drop or IME text is in the field before it is known.
Paste(v) ==
  /\ v # field
  /\ \E c \in 0 .. Len(v) : CommitEdit(v, c)
  /\ field' = v

\* onNumberSelect: only a field that shows the bound number places the caret.
Place(s, e) ==
  /\ field = bound /\ s <= e /\ e <= Len(field)
  /\ caret' = At(s, e)
  /\ UNCHANGED <<bound, field, pending, flight, strays>>

\* Fault: only the newest edit is recognised.
EditOf_Newest(v) ==
  IF pending # <<>> /\ pending[Len(pending)].value = v THEN Len(pending) ELSE 0

\* The position of the edit a rendered number comes from, or 0.
EditOf(v) ==
  LET hits == {i \in DOMAIN pending : pending[i].value = v} IN
  IF hits = {} THEN 0 ELSE CHOOSE i \in hits : \A j \in hits : i <= j

\* A binding that changes, its render and the afterRenderEffect behind it.
Bind(v) ==
  LET i == EditOf(v) IN
  IF v = bound THEN UNCHANGED <<bound, field, caret, pending>>
  ELSE /\ bound' = v /\ field' = v
       /\ IF i = 0
            THEN caret' = NoCaret /\ pending' = <<>>
            ELSE /\ caret' = At(pending[i].caret, pending[i].caret)
                 /\ pending' = SubSeq(pending, i + 1, Len(pending))

\* The host binds a published number; older ones it never bound are skipped.
HostEchoes(k) ==
  /\ k \in 1 .. Len(flight)
  /\ Bind(flight[k])
  /\ flight' = SubSeq(flight, k + 1, Len(flight))
  /\ strays' = IF k <= strays THEN Len(flight) - k ELSE 0

\* The host binds a number of its own.
HostWrites(v) ==
  /\ v # bound
  /\ Bind(v)
  /\ strays' = Len(flight)
  /\ UNCHANGED flight

DialNext ==
  \/ \E d \in Digit : Press(d)
  \/ Backspace \/ Erase
  \/ \E v \in Number : Paste(v) \/ HostWrites(v)
  \/ \E s, e \in 0 .. MaxLength : Place(s, e)
  \/ \E k \in 1 .. MaxFlight : HostEchoes(k)

DialSpec == DialInit /\ [][DialNext]_dialVars

----------------------------------------------------------------------------
(* An edit that comes back is recognised however late it is bound and        *)
(* however many edits follow it: only a number the host wrote on its own, or *)
(* an edit older than such a write, drops the caret and makes the next edit  *)
(* append.                                                                   *)
OwnEchoKeepsCaret ==
  [][(caret # NoCaret /\ caret' = NoCaret) =>
       \/ strays > 0
       \/ flight' = flight]_dialVars
=============================================================================
