----------------------------- MODULE ParquetWriter -----------------------------
(***************************************************************************)
(* RotatingParquetWriter (storage/parquet_writer.py): rows are buffered and *)
(* flushed to one file per UTC day.  Every public method holds the          *)
(* writer's lock from its first line to its last, so each is one operator   *)
(* on the writer and the disk together.                                     *)
(***************************************************************************)
EXTENDS Naturals, Sequences

CONSTANTS
  PqFlushEvery,   \* flush_every: rows that make a row group
  MaxDay          \* bound: the days the runs last

ASSUME ParquetAssumption == PqFlushEvery \in Nat \ {0} /\ MaxDay \in Nat \ {0}

VARIABLE
  parquet   \* the writer [buffer, date, open] with the disk `files', and
            \* `raised': the last call ended in an exception of the disk

Days == 1 .. MaxDay

(* A row is the id of its trade.  A file can be read once its footer is      *)
(* written, which closing it does; when that fails the footer is lost, as    *)
(* pyarrow takes the file for closed.                                        *)
Files == [rows : Seq(Nat), readable : BOOLEAN, torn : BOOLEAN]

EmptyFile == [rows |-> <<>>, readable |-> FALSE, torn |-> FALSE]

(* The disk once day d has file f; a row group written, a file finished.     *)
SetFile(files, d, f) == [files EXCEPT ![d] = f]

WithRows(f, rows) == [f EXCEPT !.rows = @ \o rows]

Finished(f) == [f EXCEPT !.readable = ~f.torn]

Torn(f) == [f EXCEPT !.torn = TRUE]

(* Where the disk can fail a call: a row group, the footer, the directory or *)
(* the file, and the first bytes of a file already truncated.                *)
Faults == {"none", "flush", "footer", "open", "header"}

ParquetWriters ==
  [buffer : Seq(Nat), date : Days \cup {0}, open : BOOLEAN,
   files : [Days -> Files], raised : BOOLEAN]

NewWriter(files) ==
  [buffer |-> <<>>, date |-> 0, open |-> FALSE, files |-> files, raised |-> FALSE]

(* _flush: write_table succeeds or raises something other than ArrowInvalid, *)
(* such as a full disk; the buffer is cleared either way.                    *)
FlushBuffer(p, fault) ==
  IF p.buffer = <<>> \/ ~p.open THEN p
  ELSE IF fault # "flush"
  THEN [p EXCEPT !.files = SetFile(@, p.date, WithRows(@[p.date], p.buffer)),
                 !.buffer = <<>>]
  ELSE [p EXCEPT !.buffer = <<>>, !.raised = TRUE]

(* _close_writer: without a file the buffer stays; without its footer the    *)
(* writer stays.                                                             *)
CloseWriter(p, fault) ==
  LET f == FlushBuffer(p, fault) IN
  IF ~f.open \/ f.raised THEN f
  ELSE IF fault = "footer"
  THEN [f EXCEPT !.files = SetFile(@, f.date, Torn(@[f.date])), !.raised = TRUE]
  ELSE [f EXCEPT !.files = SetFile(@, f.date, Finished(@[f.date])), !.open = FALSE]

(* Mistake: the buffer goes to the new file.                                 *)
RotateKeepsBuffer(p, today, fault) ==
  IF today = p.date THEN p
  ELSE LET c == CloseWriter([p EXCEPT !.buffer = <<>>], fault) IN
       [c EXCEPT !.files = SetFile(@, today, EmptyFile),
                 !.buffer = p.buffer, !.date = today, !.open = TRUE]

(* Mistake: the file is named by a local date that trails the UTC one.       *)
RotateLocalName(p, today, fault) ==
  IF today = p.date THEN p
  ELSE LET c == CloseWriter(p, fault)
           name == IF today > 1 THEN today - 1 ELSE today
       IN IF c.raised THEN c
          ELSE [c EXCEPT !.files = SetFile(@, name, EmptyFile),
                         !.date = today, !.open = TRUE]

(* Opening the file of a day, which truncates one of that day: the date is   *)
(* set first, so a file that cannot be opened is not tried again that day.   *)
Opened(c, today, fault) ==
  LET dated == [c EXCEPT !.date = today]
      truncated == [dated EXCEPT !.files = SetFile(@, today, EmptyFile)]
  IN CASE fault = "open" -> [dated EXCEPT !.raised = TRUE]
       [] fault = "header" -> [truncated EXCEPT !.raised = TRUE]
       [] OTHER -> [truncated EXCEPT !.open = TRUE]

(* _rotate_if_needed: the old file is finished first.                        *)
Rotate(p, today, fault) ==
  IF today = p.date THEN p
  ELSE LET c == CloseWriter(p, fault) IN
       IF c.raised THEN c ELSE Opened(c, today, fault)

WriteRow(p, row, today, fault) ==
  LET r == Rotate([p EXCEPT !.raised = FALSE], today, fault)
      b == [r EXCEPT !.buffer = Append(@, row)]
  IN IF r.raised THEN r
     ELSE IF Len(b.buffer) >= PqFlushEvery THEN FlushBuffer(b, fault) ELSE b

(* Mistake: close the file, not the buffer.                                  *)
CloseUnflushed(p, fault) ==
  IF ~p.open THEN p
  ELSE [p EXCEPT !.files = SetFile(@, p.date, Finished(@[p.date])), !.open = FALSE]

Close(p, fault) == CloseWriter([p EXCEPT !.raised = FALSE], fault)

FlushNow(p, fault) == FlushBuffer([p EXCEPT !.raised = FALSE], fault)

(* The rows on disk in the file of day d that a reader can open.             *)
ReadableRows(d) ==
  IF parquet.files[d].readable
  THEN {parquet.files[d].rows[i] : i \in DOMAIN parquet.files[d].rows} ELSE {}

Rising(rows) == \A i, j \in DOMAIN rows : i < j => rows[i] < rows[j]
=============================================================================
