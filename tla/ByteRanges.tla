----------------------------- MODULE ByteRanges -----------------------------
(***************************************************************************)
(* parse_single_byte_range: which bytes of an artifact a Range header      *)
(* selects.  A header is what is left of it after the grammar was checked: *)
(* absent, malformed, a suffix length, or a start with an optional         *)
(* inclusive end.                                                          *)
(***************************************************************************)
EXTENDS Integers

\* The values a header can take over the numbers 0..n.
Headers(n) ==
    [form : {"absent", "malformed"}]
    \cup [form : {"suffix"}, length : 0..n]
    \cup [form : {"from"}, start : 0..n]
    \cup [form : {"between"}, start : 0..n, last : 0..n]

Whole == [kind |-> "whole"]               \* None: no range was asked for
Unsatisfiable == [kind |-> "unsatisfiable"]  \* 416
Refused == [kind |-> "refused"]              \* 400
ByteRange(start, end) == [kind |-> "range", start |-> start, end |-> end]

Least(a, b) == IF a <= b THEN a ELSE b

\* end_exclusive
EndAfter(last, size) == Least(last + 1, size)

\* parse_single_byte_range(header, size)
ParseRange(h, size) ==
    CASE h.form = "absent"    -> Whole
      [] h.form = "malformed" -> Refused
      [] h.form = "suffix" ->
           IF h.length = 0 THEN Unsatisfiable
           ELSE ByteRange(IF h.length > size THEN 0 ELSE size - h.length, size)
      [] h.form = "from" ->
           IF h.start >= size THEN Unsatisfiable ELSE ByteRange(h.start, size)
      [] h.form = "between" ->
           IF h.start >= size THEN Unsatisfiable
           ELSE IF h.last < h.start THEN Refused
           ELSE ByteRange(h.start, EndAfter(h.last, size))

\* The interval a response serves: start and start + length of the handler.
Selected(r, size) ==
    IF r.kind = "range" THEN <<r.start, r.end>> ELSE <<0, size>>

\* Reference: the positions of the artifact a header asks for, as RFC 9110
\* words it.
Asked(h, size) ==
    CASE h.form = "suffix"  -> {p \in 0..(size - 1) : size - p <= h.length}
      [] h.form = "from"    -> {p \in 0..(size - 1) : h.start <= p}
      [] h.form = "between" -> {p \in 0..(size - 1) : h.start <= p /\ p <= h.last}
      [] OTHER              -> 0..(size - 1)
=============================================================================
