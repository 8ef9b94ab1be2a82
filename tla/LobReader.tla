----------------------------- MODULE LobReader -----------------------------
(***************************************************************************)
(* The reader of stored rows (python/cryptomeria/lob.py): it goes through  *)
(* a file row by row, keeps the two dicts of the book, yields a copy of    *)
(* them whenever the timestamp changes (_read_lob_iter) and writes what it *)
(* yields in chunks to a second file (rebuild_to_lob2).                    *)
(*                                                                         *)
(* A row of the file gives one side here, so the two dicts are one with    *)
(* the side as part of the key.  Rows with both sides, which the code      *)
(* takes apart, and rows with neither (price None, no level to apply) are  *)
(* not represented: no row of lob_levels has more than a side, or lacks    *)
(* one.  Serialising a book (_snapshot_to_row sorts both sides and prints  *)
(* them) keeps it whole and is left out, as is the log of the progress.    *)
(***************************************************************************)
EXTENDS Naturals, Sequences, FiniteSets

CONSTANT FlushSize   \* flush_size: yields per chunk of the second file

ASSUME ReaderAssumption == FlushSize \in Nat \ {0}

VARIABLES
  file,     \* the rows of the input file, sorted by timestamp
  next,     \* index of the row to read
  book,     \* bids, asks
  current,  \* current_ts, as a set of at most one timestamp
  cleared,  \* snapshot_cleared
  buffer,   \* the yields that wait to be written
  lob2,     \* the output file
  reader    \* "idle", "reading", "done" or "interrupted"

readerVars == <<file, next, book, current, cleared, buffer, lob2, reader>>

\* A row is a record with at least the fields ts, action, key and size; a key is a
\* price of a side.
NoLevel == [k \in {} |-> 0]

ReaderTypeOK ==
  /\ next \in 1..(Len(file) + 1)
  /\ DOMAIN book \subseteq {file[i].key : i \in 1..(next - 1)}
  /\ \A k \in DOMAIN book : book[k] \in Nat
  /\ \A t \in current : t \in {file[i].ts : i \in 1..(next - 1)}
  /\ Cardinality(current) <= 1
  /\ cleared \in BOOLEAN
  /\ Len(buffer) < FlushSize
  /\ reader \in {"idle", "reading", "done", "interrupted"}

ReaderInit ==
  /\ file = <<>> /\ next = 1
  /\ book = NoLevel /\ current = {} /\ cleared = FALSE
  /\ buffer = <<>> /\ lob2 = <<>>
  /\ reader = "idle"

-----------------------------------------------------------------------------
With(bk, k, n)  == [q \in DOMAIN bk \cup {k} |-> IF q = k THEN n ELSE bk[q]]
Without(bk, k)  == [q \in DOMAIN bk \ {k} |-> bk[q]]

\* _apply_level.
ApplyLevel(bk, row) ==
  IF row.action = "update" /\ row.size = 0 THEN Without(bk, row.key)
                                           ELSE With(bk, row.key, row.size)

\* A row with a new timestamp ends the group of the previous one.
Turn(row) == \E t \in current : t # row.ts

\* Mutant: every snapshot row clears, and only the last of a snapshot is left.
ClearsAlways(row) == row.action = "snapshot"

\* The first snapshot row of a timestamp clears the book.
Clears(row) == row.action = "snapshot" /\ (Turn(row) \/ ~cleared)

\* Mutant: the chunk is written a yield too late.
EmitLate(y) ==
  LET waiting == Append(buffer, y)
  IN  IF Len(waiting) > FlushSize
      THEN lob2' = lob2 \o waiting /\ buffer' = <<>>
      ELSE buffer' = waiting /\ UNCHANGED lob2

\* buffer.append, and write_table when the chunk is full.
Emit(y) ==
  LET waiting == Append(buffer, y)
  IN  IF Len(waiting) >= FlushSize
      THEN lob2' = lob2 \o waiting /\ buffer' = <<>>
      ELSE buffer' = waiting /\ UNCHANGED lob2

Yields(t) == [ts |-> t, book |-> book]

\* One iteration of the loop over the rows, with the yield it begins with.
ReadRow ==
  /\ reader = "reading"
  /\ next <= Len(file)
  /\ LET row == file[next]
     IN  /\ book' = ApplyLevel(IF Clears(row) THEN NoLevel ELSE book, row)
         /\ cleared' = (Clears(row) \/ (cleared /\ ~Turn(row)))
         /\ current' = {row.ts}
         /\ IF Turn(row) THEN \E t \in current : Emit(Yields(t))
                         ELSE UNCHANGED <<buffer, lob2>>
  /\ next' = next + 1
  /\ UNCHANGED <<file, reader>>

\* The file is at its end: the last yield, and the rest of the buffer.
Finish ==
  /\ reader = "reading"
  /\ next > Len(file)
  /\ lob2' = lob2 \o buffer \o (IF current = {} THEN <<>>
                                ELSE <<Yields(CHOOSE t \in current : TRUE)>>)
  /\ buffer' = <<>>
  /\ reader' = "done"
  /\ UNCHANGED <<file, next, book, current, cleared>>

\* An exception or Ctrl+C: "finally" closes the output, the buffer is gone.
Interrupt ==
  /\ reader = "reading"
  /\ buffer' = <<>>
  /\ reader' = "interrupted"
  /\ UNCHANGED <<file, next, book, current, cleared, lob2>>

ReaderNext == ReadRow \/ Finish \/ Interrupt

-----------------------------------------------------------------------------
(***************************************************************************)
(* What a file says, without running through it.                           *)
(***************************************************************************)
Largest(S) == CHOOSE n \in S : \A m \in S : m <= n

Timestamps(rows) == {rows[i].ts : i \in DOMAIN rows}

\* A timestamp's snapshot begins at its first snapshot row.
StartsSnapshot(rows, i) ==
  /\ rows[i].action = "snapshot"
  /\ \A j \in 1..(i - 1) : rows[j].ts = rows[i].ts => rows[j].action # "snapshot"

\* Those of some rows that still count: from the last snapshot on.
Counting(rows, read) ==
  {i \in read : i >= Largest({0} \cup {j \in read : StartsSnapshot(rows, j)})}

\* The last word of some rows on each key.
LastOn(rows, read, k) == rows[Largest({i \in read : rows[i].key = k})]

LastWords(rows, read) ==
  LET present == {k \in {rows[i].key : i \in read} :
                    \/ LastOn(rows, read, k).action = "snapshot"
                    \/ LastOn(rows, read, k).size # 0}
  IN  [k \in present |-> LastOn(rows, read, k).size]

\* The book at timestamp t.
BookAt(rows, t) == LastWords(rows, Counting(rows, {i \in DOMAIN rows : rows[i].ts <= t}))

\* The output file, with what waits for it, is a beginning of what the input says:
\* one book per timestamp, in order, none twice, each the last word of the rows up
\* to that timestamp; and all of it when the reader is done.  An interruption may
\* cut it short and change nothing.  (_read_lob_iter and rebuild_to_lob2 carry the
\* book, a flag and a buffer through a generator; this looks at the rows alone.)
OutputIsReading ==
  LET out == lob2 \o buffer
  IN  /\ \A i \in DOMAIN out :
            /\ out[i].ts \in Timestamps(file)
            /\ Cardinality({t \in Timestamps(file) : t < out[i].ts}) = i - 1
            /\ out[i].book = BookAt(file, out[i].ts)
      /\ reader = "done" => Len(lob2) = Cardinality(Timestamps(file))
=============================================================================
