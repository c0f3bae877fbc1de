----------------------------- MODULE EventPages ------------------------------
(***************************************************************************)
(* The event file of a call read back, page by page, by the `events` query *)
(*   tracemiku-core/src/analysis/events.rs   read_events                   *)
(* from what EventStream left on disk: the hooks of two threads may have   *)
(* torn or repeated its lines.  A line ends with the last unit of an       *)
(* event; a cursor is an offset in units.                                  *)
(***************************************************************************)
EXTENDS EventStream, TLC

CONSTANTS MaxLine,   \* MAX_LINE: units of a line that is looked at
          Budget,    \* BUDGET: units a page may scan, and units it may return
          Envelope   \* ENVELOPE_BYTES, and what a row adds to its event

ASSUME PagesAssumption == MaxLine \in Nat /\ Budget \in Nat /\ Envelope \in Nat

NoCursor == -1

(***************************************************************************)
(* Lines of a file.                                                        *)
(***************************************************************************)
EndsLine(unit) == unit.u = LineUnits - 1

\* read_until: how many units the line at an offset has; the last may lack its end.
LineLength(units, offset) ==
  LET ends == {k \in offset + 1 .. Len(units) : EndsLine(units[k])}
  IN IF ends = {} THEN Len(units) - offset
     ELSE (CHOOSE k \in ends : \A j \in ends : k <= j) - offset
LineAt(units, offset) == SubSeq(units, offset + 1, offset + LineLength(units, offset))

\* serde_json reads a line that is one event, whole.
Parses(line) == line # <<>> /\ \E e \in Event : line = Text(<<e>>)

Boundary(units, cursor) ==
  cursor = 0 \/ cursor = Len(units) \/ (cursor < Len(units) /\ EndsLine(units[cursor]))

(***************************************************************************)
(* One page: [rows, bytes, scanned, bad, next, status].                    *)
(***************************************************************************)
Start == [rows |-> <<>>, bytes |-> Envelope, scanned |-> 0, bad |-> 0, next |-> NoCursor,
          status |-> "more"]
Stop(page, why, next) == [page EXCEPT !.status = why, !.next = next]
RowUnits(line) == Len(line) + Envelope

\* Mutant of Fits: the limit is noticed one row late.
FitsOneMore(page, line, limit) == Len(page.rows) <= limit

Fits(page, line, limit) ==
  Len(page.rows) < limit /\ page.bytes + RowUnits(line) <= Budget

\* The line at `offset` is read whatever its length, and counted when it is no event.
ReadLine(page, units, cursor, limit, wanted) ==
  LET offset == cursor + page.scanned
      line == LineAt(units, offset)
      read == [page EXCEPT !.scanned = @ + Len(line)]
      unended == ~EndsLine(line[Len(line)])
  IN IF \/ read.scanned > Budget
        \/ Len(line) > MaxLine /\ unended /\ read.scanned = Budget
     THEN Stop(page, "error", NoCursor)
     ELSE IF Len(line) > MaxLine \/ ~Parses(line) THEN [read EXCEPT !.bad = @ + 1]
     ELSE IF line[1].ev \notin wanted THEN read
     ELSE IF Fits(page, line, limit)
     THEN [read EXCEPT !.rows = Append(@, line[1].ev), !.bytes = @ + RowUnits(line)]
     ELSE Stop(read, "limit", offset)

\* Out of budget when another line of the greatest length might not fit, or none is left.
Step(page, units, cursor, limit, wanted) ==
  LET offset == cursor + page.scanned
      left == offset < Len(units)
  IN IF page.status # "more" THEN page
     ELSE IF Budget - page.scanned < MaxLine + 1
     THEN IF left THEN Stop(page, "scan_budget", offset) ELSE Stop(page, "end", NoCursor)
     ELSE IF ~left THEN Stop(page, "end", NoCursor)
     ELSE ReadLine(page, units, cursor, limit, wanted)

ReadEvents(units, cursor, limit, wanted) ==
  LET page[n \in 0 .. Len(units) + 1] ==
        IF n = 0 THEN Start ELSE Step(page[n - 1], units, cursor, limit, wanted)
  IN IF ~Boundary(units, cursor) THEN Stop(Start, "error", NoCursor)
     ELSE page[Len(units) + 1]

\* A run recorded before fork_events.jsonl keeps the events in an array of meta.json.
ReadArray(events, cursor, limit, wanted) ==
  LET Row(page, k) ==
        IF page.status # "more" \/ events[k] \notin wanted THEN page
        ELSE IF Fits(page, Text(<<events[k]>>), limit)
        THEN [page EXCEPT !.rows = Append(@, events[k]), !.bytes = @ + RowUnits(Text(<<events[k]>>))]
        ELSE Stop(page, "limit", k - 1)
      page[k \in cursor .. Len(events)] ==
        IF k = cursor THEN Start ELSE Row(page[k - 1], k)
  IN IF cursor > Len(events) THEN Stop(Start, "error", NoCursor) ELSE page[Len(events)]

(***************************************************************************)
(* Properties.                                                             *)
(***************************************************************************)

\* The lines of a file, whole and torn.
Lines(units) ==
  LET from[offset \in 0 .. Len(units)] ==
        IF offset = Len(units) THEN <<>>
        ELSE <<LineAt(units, offset)>> \o from[offset + LineLength(units, offset)]
  IN from[0]

\* Whatever two hooks wrote over each other: following the cursors from page to page gives every
\* event that is whole in the file once and in its order, filtered or not, counts every other
\* line once, and never refuses a cursor that it gave (events.rs:68-272).
PagesWhole ==
  phase = "end" /\ listed[call] # NotListed =>
    LET units == file[call]
        lines == Lines(units)
        whole == SelectSeq(lines, Parses)
        events == [k \in DOMAIN whole |-> whole[k][1].ev]
    IN \A limit \in 1 .. 2, by \in SUBSET kind.pushers \ {{}} :
         LET wanted == {e \in Event : e.by \in by}
             rows == SelectSeq(events, LAMBDA e : e \in wanted)
             Follow(p, cursor, rest) ==
               LET more == IF p.next = NoCursor THEN [rows |-> <<>>, bad |-> 0, ok |-> TRUE]
                           ELSE IF p.next <= cursor THEN [rows |-> <<>>, bad |-> 0, ok |-> FALSE]
                           ELSE rest[p.next]
               IN [rows |-> p.rows \o more.rows, bad |-> p.bad + more.bad,
                   ok   |-> more.ok /\ p.status # "error" /\ Len(p.rows) <= limit]
             pages[cursor \in 0 .. Len(units)] ==
               Follow(ReadEvents(units, cursor, limit, wanted), cursor, pages)
             array[cursor \in 0 .. Len(events)] ==
               Follow(ReadArray(events, cursor, limit, wanted), cursor, array)
         IN /\ pages[0] = [rows |-> rows, bad |-> Len(lines) - Len(whole), ok |-> TRUE]
            /\ array[0] = [rows |-> rows, bad |-> 0, ok |-> TRUE]
==============================================================================
