------------------------------ MODULE Widgets ------------------------------
(***************************************************************************)
(* The pure parts of the dashboard's components: the order in which        *)
(* DataTable shows its rows, and the numbers that Memory and Overview      *)
(* print.                                                                  *)
(***************************************************************************)
EXTENDS Integers, Sequences, FiniteSets, SequencesExt

CONSTANTS
    Null,               \* a cell that is null or undefined, and no column at all
    Dash,               \* the text that is shown for a value that is not there
    TextRank(_, _)      \* the text that a number of some kind is shown as

(* A cell is a number or a text, and a text stands for its rank in the     *)
(* order of localeCompare: a column has all numbers or all texts.          *)

-----------------------------------------------------------------------------
(* DataTable: the state of its two useState hooks, and a click on a header. *)

Unsorted == [col |-> Null, asc |-> TRUE]

handleSort(s, col) ==
    IF s.col = col THEN [s EXCEPT !.asc = ~@] ELSE [col |-> col, asc |-> TRUE]

FaultyCompare(a, b, s) ==       \* answers true or false
    IF s.asc = (a[s.col] > b[s.col]) THEN 1 ELSE 0

(* The comparison function: null comes last in both directions, and is     *)
(* larger than itself.                                                     *)
Compare(a, b, s) ==
    IF a[s.col] = Null THEN 1
    ELSE IF b[s.col] = Null THEN -1
    ELSE IF s.asc THEN a[s.col] - b[s.col] ELSE b[s.col] - a[s.col]

(* Array.prototype.sort of V8 inserts one row after another behind those   *)
(* it is not smaller than.                                                 *)
InsertRow(sorted, row, s) ==
    InsertAt(sorted, 1 + Cardinality({i \in DOMAIN sorted : Compare(row, sorted[i], s) >= 0}),
             row)

DataTable(rows, s) ==
    LET sorted[n \in Nat] ==
            IF n = 0 THEN <<>> ELSE InsertRow(sorted[n - 1], rows[n], s)
    IN  IF s.col = Null THEN rows ELSE sorted[Len(rows)]

-----------------------------------------------------------------------------
(* Numerals with a fixed number of decimals, as toFixed rounds them: n     *)
(* stands for n / scale, scale being 1, 10 or 100.  K is 1024 in the code. *)

ToFixed(num, den, scale) == (2 * num * scale + den) \div (2 * den)

Printed(n, scale, unit) == [n |-> n, scale |-> scale, unit |-> unit]

fmtBytes(b, K) ==
    IF b >= K * K * K THEN Printed(ToFixed(b, K * K * K, 100), 100, K * K * K)
    ELSE IF b >= K * K THEN Printed(ToFixed(b, K * K, 100), 100, K * K)
    ELSE IF b >= K THEN Printed(ToFixed(b, K, 10), 10, K)
    ELSE Printed(b, 1, 1)

(* The parts of an uptime, by their unit in seconds. *)
Units == {86400, 3600, 60, 1}

FaultyFormatUptime(seconds) ==      \* hours that are whole days too
    LET part == [u \in Units |-> CASE u = 86400 -> seconds \div 86400
                                   [] u = 3600  -> seconds \div 3600
                                   [] u = 60    -> (seconds % 3600) \div 60
                                   [] u = 1     -> seconds % 60]
    IN  [u \in {v \in Units : v = 1 \/ part[v] > 0} |-> part[u]]

(* "1d 2h 3m 4s": the parts that are printed. *)
formatUptime(seconds) ==
    LET part == [u \in Units |-> CASE u = 86400 -> seconds \div 86400
                                   [] u = 3600  -> (seconds % 86400) \div 3600
                                   [] u = 60    -> (seconds % 3600) \div 60
                                   [] u = 1     -> seconds % 60]
    IN  [u \in {v \in Units : v = 1 \/ part[v] > 0} |-> part[u]]

-----------------------------------------------------------------------------
(* What the numerals are to say: see FormatsExact of Dashboard.            *)

BytesExact(b, K) ==
    LET p == fmtBytes(b, K)
        q == fmtBytes(b + 1, K)
    IN  /\ 2 * (p.n * p.unit - b * p.scale) \in -p.unit .. p.unit
        /\ p.unit = 1 => p.n < K
        /\ p.unit \in {K, K * K} => p.n <= K * p.scale
        /\ p.unit < q.unit \/ (p.unit = q.unit /\ p.n <= q.n)

UptimeExact(seconds) ==
    LET p == formatUptime(seconds)
        part(u) == IF u \in DOMAIN p THEN p[u] ELSE 0
    IN  /\ seconds = 86400 * part(86400) + 3600 * part(3600) + 60 * part(60) + part(1)
        /\ 3600 * part(3600) < 86400 /\ 60 * part(60) < 3600 /\ part(1) < 60
        /\ \A u \in DOMAIN p : u = 1 \/ p[u] > 0
=============================================================================
