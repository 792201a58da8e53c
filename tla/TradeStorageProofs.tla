--------------------------- MODULE TradeStorageProofs --------------------------
(***************************************************************************)
(* Proofs about TradeStorage, for any size of a row group and of a batch,   *)
(* any number of days, trades, restarts and disk errors.                    *)
(***************************************************************************)
EXTENDS TradeStorage, SequenceTheorems, TLAPS

(* Rows of day d, in order, when w says on which day each trade was taken;   *)
(* among them there may be rows of earlier days on which no file opened.     *)
DayRows(s, d, w, u) ==
  /\ s \in Seq(Nat) /\ Rising(s)
  /\ \A i \in DOMAIN s :
       s[i] \in DOMAIN w /\ (w[s[i]] = d \/ (w[s[i]] < d /\ w[s[i]] \in u))

(* A writer whose files and buffer hold such rows; the open file cannot be   *)
(* read yet, and without one only rows of unopened days are buffered.        *)
Filed(p, w, u) ==
  /\ p \in ParquetWriters
  /\ \A d \in Days : DayRows(p.files[d].rows, d, w, u)
  /\ p.open => /\ p.date \in Days
               /\ DayRows(p.files[p.date].rows \o p.buffer, p.date, w, u)
               /\ ~p.files[p.date].readable
  /\ ~p.open => /\ DayRows(p.buffer, p.date, w, u)
                /\ \A i \in DOMAIN p.buffer : w[p.buffer[i]] \in u

(* A collecting writer without a file is one whose last open failed.         *)
Tracked(p, u) == p.date # 0 /\ ~p.open => p.date \in u

(* No process has opened a file of a day to come.                            *)
Fresh(p) == \A d \in Days : d > p.date => p.files[d] = EmptyFile

(* Every trade is in a readable file of its day, or in the open one.         *)
Complete(p, w) ==
  /\ p.open => ~p.files[p.date].torn
  /\ \A row \in DOMAIN w :
       /\ w[row] \in Days
       /\ \/ /\ row \in Elements(p.files[w[row]].rows)
             /\ p.files[w[row]].readable \/ (p.open /\ p.date = w[row])
          \/ p.open /\ p.date = w[row] /\ row \in Elements(p.buffer)

FilesInv ==
  /\ Filed(parquet, writtenOn, unopened)
  /\ parquet.date <= today
  /\ phase \in {"up", "abandoned", "stopping"} => Tracked(parquet, unopened)
  /\ diskErrors = 0 => unopened = {}
  /\ phase = "closing" => ~parquet.open
  /\ restarts = 0 => Fresh(parquet)
  /\ restarts = 0 /\ diskErrors = 0 => Complete(parquet, writtenOn)

(* The flush tasks: who holds the lock, and how far a close has come.        *)
LockInv ==
  /\ lock = <<>> => stage = "none"
  /\ stage = "none" => batch = <<>>
  /\ connecting = "pool" => pool = "none"
  /\ ~enabled => connecting = "over" /\ pool = "none"
  /\ phase \in {"stopping", "closing"} => connecting = "over"
  /\ "close" \in Elements(lock) =>
       enabled /\ connecting = "over" /\ phase \in {"closing", "exited"}
  /\ pool \in {"closing", "closed"} =>
       pgBuffer = <<>> /\ enabled /\ phase \in {"closing", "exited"}
  /\ lock # <<>> /\ stage # "none" /\ Head(lock) = "close" => pgBuffer = <<>>
  /\ pool = "closed" => stage # "insert"

(* Each accepted row is in one of four places, in this order.                *)
RowsInv ==
  /\ \A row \in table \cup accepted : row <= Len(writtenOn)
  /\ accepted = (table \cap accepted) \cup dropped \cup Elements(batch) \cup Elements(pgBuffer)
  /\ BatchesInOrder

IInv == TypeOK /\ FilesInv /\ LockInv /\ RowsInv

-----------------------------------------------------------------------------
(* Sequences of rows.                                                        *)
LEMMA ConcatFacts ==
  ASSUME NEW s \in Seq(Nat), NEW t \in Seq(Nat)
  PROVE  /\ s \o t \in Seq(Nat)
         /\ \A i \in DOMAIN s : i \in DOMAIN (s \o t) /\ (s \o t)[i] = s[i]
         /\ \A i \in DOMAIN t : Len(s) + i \in DOMAIN (s \o t) /\ (s \o t)[Len(s) + i] = t[i]
         /\ \A k \in DOMAIN (s \o t) :
              \/ k \in DOMAIN s
              \/ (k - Len(s) \in DOMAIN t /\ (s \o t)[k] = t[k - Len(s)])
         /\ Len(s) \in Nat /\ Len(t) \in Nat
         /\ DOMAIN s = 1 .. Len(s) /\ DOMAIN t = 1 .. Len(t)
         /\ DOMAIN (s \o t) = 1 .. (Len(s) + Len(t))
<1>1. /\ s \o t \in Seq(Nat)
      /\ Len(s \o t) = Len(s) + Len(t)
      /\ \A i \in 1 .. Len(s) + Len(t) : (s \o t)[i] =
                 IF i <= Len(s) THEN s[i] ELSE t[i - Len(s)]
  BY ConcatProperties
<1>2. /\ Len(s) \in Nat /\ DOMAIN s = 1 .. Len(s)
      /\ Len(t) \in Nat /\ DOMAIN t = 1 .. Len(t)
  BY LenProperties
<1>3. DOMAIN (s \o t) = 1 .. Len(s \o t)
  BY <1>1, LenProperties
<1> QED BY <1>1, <1>2, <1>3

LEMMA ElementsConcat ==
  ASSUME NEW s \in Seq(Nat), NEW t \in Seq(Nat)
  PROVE  Elements(s \o t) = Elements(s) \cup Elements(t)
<1>1. ASSUME NEW i \in DOMAIN t PROVE t[i] \in Elements(s \o t)
  <2>1. Len(s) + i \in DOMAIN (s \o t) /\ (s \o t)[Len(s) + i] = t[i]
    BY ConcatFacts
  <2> QED BY <2>1 DEF Elements
<1>3. ASSUME NEW i \in DOMAIN s PROVE s[i] \in Elements(s \o t)
  BY ConcatFacts DEF Elements
<1>2. \A x : x \in Elements(s \o t) => x \in Elements(s) \cup Elements(t)
  BY ConcatFacts DEF Elements
<1> QED BY <1>1, <1>2, <1>3 DEF Elements

LEMMA AppendFacts ==
  ASSUME NEW S, NEW s \in Seq(S), NEW x \in S
  PROVE  /\ Append(s, x) \in Seq(S)
         /\ Len(s) \in Nat /\ DOMAIN s = 1 .. Len(s)
         /\ DOMAIN Append(s, x) = 1 .. (Len(s) + 1)
         /\ \A i \in DOMAIN s : i \in DOMAIN Append(s, x) /\ Append(s, x)[i] = s[i]
         /\ Append(s, x)[Len(s) + 1] = x
<1>1. /\ Append(s, x) \in Seq(S)
      /\ Len(Append(s, x)) = Len(s) + 1
      /\ \A i \in 1 .. Len(s) : Append(s, x)[i] = s[i]
      /\ Append(s, x)[Len(s) + 1] = x
  BY AppendProperties
<1>2. Len(s) \in Nat /\ DOMAIN s = 1 .. Len(s)
  BY LenProperties
<1>3. DOMAIN Append(s, x) = 1 .. Len(Append(s, x))
  BY <1>1, LenProperties
<1> QED BY <1>1, <1>2, <1>3

LEMMA ElementsAppend ==
  ASSUME NEW S, NEW s \in Seq(S), NEW x \in S
  PROVE  Elements(Append(s, x)) = Elements(s) \cup {x}
<1>1. \A y : y \in Elements(s) \cup {x} => y \in Elements(Append(s, x))
  BY AppendFacts DEF Elements
<1>2. \A y : y \in Elements(Append(s, x)) => y \in Elements(s) \cup {x}
  BY AppendFacts DEF Elements
<1> QED BY <1>1, <1>2

LEMMA EmptyRows ==
  /\ <<>> \in Seq(Nat) /\ Elements(<<>>) = {}
  /\ \A s \in Seq(Nat) : s \o <<>> = s /\ <<>> \o s = s
  /\ \A d, w, u : DayRows(<<>>, d, w, u)
<1>1. <<>> \in Seq(Nat) /\ \A i \in DOMAIN <<>> : FALSE
  BY EmptySeq
<1>2. \A s \in Seq(Nat) : s \o <<>> = s /\ <<>> \o s = s
  BY ConcatEmptySeq
<1> QED BY <1>1, <1>2 DEF DayRows, Rising, Elements

LEMMA RisingAppend ==
  ASSUME NEW s \in Seq(Nat), NEW x \in Nat, Rising(s), \A i \in DOMAIN s : s[i] < x
  PROVE  Rising(Append(s, x))
<1> QED BY AppendFacts DEF Rising

LEMMA ConcatAppend ==
  ASSUME NEW s \in Seq(Nat), NEW t \in Seq(Nat), NEW x \in Nat
  PROVE  s \o Append(t, x) = Append(s \o t, x)
<1>1. <<x>> \in Seq(Nat)
  OBVIOUS
<1>2. Append(t, x) = t \o <<x>> /\ Append(s \o t, x) = (s \o t) \o <<x>>
  BY AppendIsConcat, ConcatFacts
<1> QED BY <1>1, <1>2, ConcatAssociative

LEMMA RisingPrefix ==
  ASSUME NEW s \in Seq(Nat), NEW t \in Seq(Nat), Rising(s \o t)
  PROVE  Rising(s) /\ Rising(t)
<1>1. Rising(s)
  BY ConcatFacts DEF Rising
<1>2. ASSUME NEW i \in DOMAIN t, NEW j \in DOMAIN t, i < j PROVE t[i] < t[j]
  <2>1. /\ Len(s) + i \in DOMAIN (s \o t) /\ (s \o t)[Len(s) + i] = t[i]
        /\ Len(s) + j \in DOMAIN (s \o t) /\ (s \o t)[Len(s) + j] = t[j]
    BY ConcatFacts
  <2>2. Len(s) + i < Len(s) + j
    BY <1>2, ConcatFacts
  <2> QED BY <2>1, <2>2 DEF Rising
<1> QED BY <1>1, <1>2 DEF Rising

LEMMA RisingApart ==
  ASSUME NEW s \in Seq(Nat), NEW t \in Seq(Nat), Rising(s \o t)
  PROVE  \A x \in Elements(s), y \in Elements(t) : x < y
<1> SUFFICES ASSUME NEW i \in DOMAIN s, NEW j \in DOMAIN t PROVE s[i] < t[j]
  BY DEF Elements
<1>1. /\ i \in DOMAIN (s \o t) /\ (s \o t)[i] = s[i]
      /\ Len(s) + j \in DOMAIN (s \o t) /\ (s \o t)[Len(s) + j] = t[j]
  BY ConcatFacts
<1>2. i < Len(s) + j
  BY ConcatFacts
<1> QED BY <1>1, <1>2 DEF Rising

LEMMA DayPrefix ==
  ASSUME NEW s \in Seq(Nat), NEW t \in Seq(Nat), NEW d, NEW w, NEW u, DayRows(s \o t, d, w, u)
  PROVE  DayRows(s, d, w, u)
<1> DEFINE c == s \o t
<1>1. /\ \A i \in DOMAIN s : i \in DOMAIN c /\ c[i] = s[i]
      /\ Rising(s)
  BY ConcatFacts, RisingPrefix DEF DayRows
<1>2. \A i \in DOMAIN c : c[i] \in DOMAIN w /\ (w[c[i]] = d \/ (w[c[i]] < d /\ w[c[i]] \in u))
  BY DEF DayRows
<1> HIDE DEF c
<1> QED
  BY <1>1, <1>2 DEF DayRows

LEMMA DayLater ==
  ASSUME NEW s, NEW d, NEW w \in Seq(Days \cup {0}), NEW x \in Days \cup {0},
         NEW u, NEW v, u \subseteq v, DayRows(s, d, w, u)
  PROVE  DayRows(s, d, w, v) /\ DayRows(s, d, Append(w, x), v)
BY AppendFacts DEF DayRows

LEMMA DayAppend ==
  ASSUME NEW s, NEW d \in Days, NEW w \in Seq(Days \cup {0}), NEW u, DayRows(s, d, w, u)
  PROVE  DayRows(Append(s, Len(w) + 1), d, Append(w, d), u)
<1> DEFINE row == Len(w) + 1
           ofDay(r, z) == r \in DOMAIN z /\ (z[r] = d \/ (z[r] < d /\ z[r] \in u))
<1>1. s \in Seq(Nat) /\ row \in Nat /\ \A i \in DOMAIN s : s[i] < row
  BY LenProperties DEF DayRows
<1>2. Append(s, row) \in Seq(Nat) /\ Rising(Append(s, row))
  BY <1>1, RisingAppend, AppendFacts DEF DayRows
<1>3. DayRows(s, d, Append(w, d), u)
  BY DayLater
<1>4. row \in DOMAIN Append(w, d) /\ Append(w, d)[row] = d
  BY AppendFacts
<1>5. ASSUME NEW i \in DOMAIN Append(s, row)
      PROVE  ofDay(Append(s, row)[i], Append(w, d))
  <2>1. i \in DOMAIN s \/ i = Len(s) + 1
    BY <1>1, AppendFacts
  <2> QED BY <2>1, <1>1, <1>3, <1>4, AppendFacts DEF DayRows
<1> QED BY <1>2, <1>5 DEF DayRows

(* The rows of an earlier day wait for the file of a later one.              *)
LEMMA DayWaits ==
  ASSUME NEW s, NEW d \in Days \cup {0}, NEW t \in Days, d < t, NEW u, u \subseteq Days,
         NEW w, DayRows(s, d, w, u), \A i \in DOMAIN s : w[s[i]] \in u
  PROVE  DayRows(s, t, w, u)
<1>1. d \in Nat /\ t \in Nat /\ \A x \in u : x \in Nat
  BY DEF Days
<1>2. ASSUME NEW i \in DOMAIN s PROVE w[s[i]] < t
  <2>1. w[s[i]] \in Nat /\ (w[s[i]] = d \/ w[s[i]] < d)
    BY <1>1 DEF DayRows
  <2> QED BY <1>1, <2>1
<1> QED BY <1>2 DEF DayRows

-----------------------------------------------------------------------------
(* What each step of the file writer leaves of it.                           *)
LEMMA WriterFields ==
  ASSUME NEW p \in ParquetWriters
  PROVE  /\ p.buffer \in Seq(Nat) /\ p.date \in Days \cup {0} /\ p.open \in BOOLEAN
         /\ p.files \in [Days -> Files] /\ p.raised \in BOOLEAN
         /\ \A d \in Days : /\ p.files[d].rows \in Seq(Nat)
                            /\ p.files[d].readable \in BOOLEAN
                            /\ p.files[d].torn \in BOOLEAN
BY DEF ParquetWriters, Files

LEMMA SetFields ==
  ASSUME NEW files \in [Days -> Files], NEW f \in Files, NEW d \in Days
  PROVE  /\ SetFile(files, d, f) \in [Days -> Files]
         /\ SetFile(files, d, f)[d] = f
         /\ \A e \in Days : e # d => SetFile(files, d, f)[e] = files[e]
BY DEF SetFile

LEMMA FileFields ==
  ASSUME NEW f \in Files, NEW rows \in Seq(Nat)
  PROVE  /\ WithRows(f, rows) \in Files
         /\ WithRows(f, rows).rows = f.rows \o rows
         /\ WithRows(f, rows).readable = f.readable /\ WithRows(f, rows).torn = f.torn
<1>1. f.rows \o rows \in Seq(Nat) /\ f.readable \in BOOLEAN /\ f.torn \in BOOLEAN
  BY ConcatFacts DEF Files
<1>2. WithRows(f, rows) \in [rows : {f.rows \o rows}, readable : {f.readable}, torn : {f.torn}]
  BY DEF WithRows, Files
<1> QED BY <1>1, <1>2 DEF Files

LEMMA FooterFields ==
  ASSUME NEW f \in Files
  PROVE  /\ Finished(f) \in Files /\ Finished(f).rows = f.rows
         /\ Finished(f).readable = ~f.torn
         /\ Torn(f) \in Files /\ Torn(f).rows = f.rows /\ Torn(f).readable = f.readable
<1>1. f.rows \in Seq(Nat) /\ f.readable \in BOOLEAN /\ f.torn \in BOOLEAN /\ (~f.torn) \in BOOLEAN
  BY DEF Files
<1>2. Finished(f) \in [rows : {f.rows}, readable : {~f.torn}, torn : {f.torn}]
  BY DEF Finished, Files
<1>3. Torn(f) \in [rows : {f.rows}, readable : {f.readable}, torn : {TRUE}]
  BY DEF Torn, Files
<1> QED BY <1>1, <1>2, <1>3 DEF Files

LEMMA EmptyFileFields ==
  EmptyFile \in Files /\ EmptyFile.rows = <<>> /\ ~EmptyFile.readable /\ ~EmptyFile.torn
BY EmptyRows DEF EmptyFile, Files

(* A call of the writer starts without an exception.                         *)
Called(p) == [p EXCEPT !.raised = FALSE]

LEMMA CalledFields ==
  ASSUME NEW p \in ParquetWriters
  PROVE  /\ Called(p) \in ParquetWriters /\ ~Called(p).raised
         /\ Called(p).buffer = p.buffer /\ Called(p).date = p.date
         /\ Called(p).open = p.open /\ Called(p).files = p.files
<1>1. Called(p) \in [buffer : {p.buffer}, date : {p.date}, open : {p.open},
                     files : {p.files}, raised : {FALSE}]
  BY DEF Called, ParquetWriters
<1> QED BY <1>1, WriterFields DEF ParquetWriters

(* The fields of a writer whose open file has a date.                        *)
Formed(p) ==
  /\ p \in ParquetWriters /\ ~p.raised
  /\ p.open => p.date \in Days

(* f is p after a flush.                                                     *)
Flushed(p, f) ==
  /\ f \in ParquetWriters
  /\ f.open = p.open /\ f.date = p.date
  /\ p.open => f.buffer = <<>>
  /\ ~p.open => f = p
  /\ \A d \in Days : /\ f.files[d].readable = p.files[d].readable
                     /\ f.files[d].torn = p.files[d].torn
                     /\ f.files[d] # p.files[d] => p.open /\ d = p.date
  /\ ~f.raised /\ p.open => f.files[p.date].rows = p.files[p.date].rows \o p.buffer
  /\ f.raised => f.files = p.files /\ p.open

LEMMA FlushFields ==
  ASSUME NEW p, Formed(p), NEW fault
  PROVE  /\ Flushed(p, FlushBuffer(p, fault))
         /\ FlushBuffer(p, fault).raised => fault # "none"
<1> DEFINE f == FlushBuffer(p, fault)
<1> SUFFICES Flushed(p, f) /\ (f.raised => fault # "none")
  OBVIOUS
<1>0. p \in ParquetWriters /\ ~p.raised /\ (p.open => p.date \in Days)
  BY DEF Formed
<1>1. CASE p.buffer = <<>> \/ ~p.open
  <2>1. f = p /\ (p.open => p.buffer = <<>>)
    BY <1>0, <1>1 DEF FlushBuffer
  <2> HIDE DEF f
  <2> QED BY <1>0, <2>1, WriterFields, EmptyRows DEF Flushed
<1>2. CASE p.buffer # <<>> /\ p.open /\ fault # "flush"
  <2> DEFINE g == WithRows(p.files[p.date], p.buffer)
             files == SetFile(p.files, p.date, g)
  <2>1. f \in [buffer : {<<>>}, date : {p.date}, open : {p.open},
               files : {files}, raised : {p.raised}]
    BY <1>0, <1>2 DEF FlushBuffer, ParquetWriters
  <2>2. p.files[p.date] \in Files
    BY <1>0, <1>2, WriterFields
  <2>3. g \in Files /\ g.rows = p.files[p.date].rows \o p.buffer
        /\ g.readable = p.files[p.date].readable /\ g.torn = p.files[p.date].torn
    BY <1>0, <2>2, WriterFields, FileFields
  <2> HIDE DEF g
  <2>4. /\ files \in [Days -> Files] /\ files[p.date] = g
        /\ \A e \in Days : e # p.date => files[e] = p.files[e]
    BY <1>0, <1>2, <2>3, WriterFields, SetFields
  <2> HIDE DEF files
  <2> HIDE DEF f
  <2>5. f \in ParquetWriters /\ f.open = p.open /\ f.date = p.date /\ f.buffer = <<>>
        /\ f.raised = p.raised /\ f.files = files
    BY <1>0, <2>1, <2>4, WriterFields, EmptyRows DEF ParquetWriters
  <2> QED BY <1>0, <1>2, <2>3, <2>4, <2>5 DEF Flushed
<1>3. CASE p.buffer # <<>> /\ p.open /\ fault = "flush"
  <2>1. f \in [buffer : {<<>>}, date : {p.date}, open : {p.open},
               files : {p.files}, raised : {TRUE}]
    BY <1>0, <1>3 DEF FlushBuffer, ParquetWriters
  <2> HIDE DEF f
  <2> QED BY <1>0, <2>1, <1>3, WriterFields, EmptyRows DEF ParquetWriters, Flushed
<1> QED BY <1>1, <1>2, <1>3

LEMMA FlushSound ==
  ASSUME NEW p, NEW w, NEW u, Filed(p, w, u), ~p.raised, NEW fault,
         NEW f, f = FlushBuffer(p, fault)
  PROVE  /\ Filed(f, w, u)
         /\ f.open = p.open /\ f.date = p.date /\ (p.open => f.buffer = <<>>)
         /\ \A d \in Days : f.files[d] # p.files[d] => ~p.files[d].readable
         /\ Fresh(p) => Fresh(f)
         /\ Complete(p, w) => f.raised \/ Complete(f, w)
         /\ f.raised => fault # "none" /\ p.open
<1>1. Formed(p)
  BY DEF Filed, Formed
<1>2. Flushed(p, f) /\ (f.raised => fault # "none")
  BY <1>1, FlushFields
<1>3. CASE ~p.open
  <2>1. f = p
    BY <1>2, <1>3 DEF Flushed
  <2> QED BY <1>3, <2>1
<1>4. CASE p.open
  <2>1. f.buffer = <<>> /\ f.open /\ f.date = p.date /\ p.date \in Days /\ f \in ParquetWriters
    BY <1>1, <1>2, <1>4 DEF Flushed, Formed
  <2>2. \A d \in Days : DayRows(f.files[d].rows, d, w, u)
    <3>1. CASE f.raised
      BY <1>2, <3>1 DEF Filed, Flushed
    <3>2. CASE ~f.raised
      BY <1>1, <1>2, <1>4, <3>2, ZenonT(30) DEF Filed, Formed, Flushed
    <3> QED BY <3>1, <3>2
  <2>3. \A d \in Days : f.files[d].rows \o f.buffer = f.files[d].rows
    BY <2>1, WriterFields, EmptyRows
  <2>4. Filed(f, w, u)
    BY <1>2, <1>4, <2>1, <2>2, <2>3, SMTT(30) DEF Filed, Flushed
  <2>5. \A d \in Days : f.files[d] # p.files[d] => ~p.files[d].readable
    BY <1>2 DEF Filed, Flushed
  <2>6. ASSUME Fresh(p) PROVE Fresh(f)
    <3>1. \A d \in Days : d > p.date => f.files[d] = p.files[d]
      BY <1>2, <2>1 DEF Days, Flushed
    <3> QED BY <2>6, <3>1, <1>2 DEF Fresh, Flushed
  <2>7. ASSUME Complete(p, w), ~f.raised PROVE Complete(f, w)
    <3>1. ~f.files[f.date].torn
      BY <1>2, <1>4, <2>1, <2>7 DEF Complete, Flushed
    <3> SUFFICES ASSUME NEW row \in DOMAIN w
                 PROVE  /\ w[row] \in Days
                        /\ row \in Elements(f.files[w[row]].rows)
                        /\ f.files[w[row]].readable \/ (f.open /\ f.date = w[row])
      BY <3>1 DEF Complete
    <3> DEFINE d == w[row]
    <3>2. d \in Days
      BY <2>7 DEF Complete
    <3>3. CASE d = p.date
      <4>1. f.files[d].rows = p.files[d].rows \o p.buffer
        BY <1>2, <1>4, <2>7, <3>3 DEF Flushed
      <4>2. row \in Elements(p.files[d].rows) \/ row \in Elements(p.buffer)
        BY <2>7 DEF Complete
      <4>3. p.files[d].rows \in Seq(Nat) /\ p.buffer \in Seq(Nat)
        BY <1>1, <3>2, WriterFields DEF Formed
      <4>4. row \in Elements(f.files[d].rows)
        BY <4>1, <4>2, <4>3, ElementsConcat
      <4> QED BY <4>4, <2>1, <3>2, <3>3
    <3>4. CASE d # p.date
      <4>1. row \in Elements(p.files[d].rows) /\ p.files[d].readable
        BY <2>7, <3>4 DEF Complete
      <4> QED BY <4>1, <3>2, <3>4, <1>2 DEF Flushed
    <3> QED BY <3>3, <3>4
  <2> QED BY <1>2, <1>4, <2>1, <2>4, <2>5, <2>6, <2>7 DEF Flushed
<1> QED BY <1>3, <1>4

(* c is p with the open file's entry renewed and its rows kept.              *)
LEMMA EntryRenewed ==
  ASSUME NEW p, NEW w, NEW u, Filed(p, w, u), p.open, p.buffer = <<>>, NEW g \in Files,
         g.rows = p.files[p.date].rows, NEW c \in ParquetWriters,
         c.buffer = <<>>, c.date = p.date, c.files = SetFile(p.files, p.date, g),
         c.open => ~g.readable
  PROVE  /\ Filed(c, w, u)
         /\ \A d \in Days : c.files[d] # p.files[d] => d = p.date
         /\ c.files[p.date] = g
         /\ Fresh(p) => Fresh(c)
<1>1. p \in ParquetWriters /\ p.date \in Days /\ p.files \in [Days -> Files]
  BY WriterFields DEF Filed
<1>2. /\ c.files[p.date] = g
      /\ \A e \in Days : e # p.date => c.files[e] = p.files[e]
  BY <1>1, SetFields
<1>3. \A d \in Days : c.files[d].rows = p.files[d].rows
  BY <1>2
<1>4. g.rows \o <<>> = g.rows /\ \A i \in DOMAIN <<>> : FALSE
  BY EmptyRows DEF Files
<1>5. Filed(c, w, u)
  BY <1>1, <1>2, <1>3, <1>4, EmptyRows DEF Filed
<1>6. ASSUME Fresh(p) PROVE Fresh(c)
  <2>1. \A d \in Days : d > p.date => c.files[d] = p.files[d]
    BY <1>1, <1>2 DEF Days
  <2> QED BY <1>6, <2>1 DEF Fresh
<1> QED BY <1>2, <1>5, <1>6

LEMMA CloseSound ==
  ASSUME NEW p, NEW w, NEW u, Filed(p, w, u), ~p.raised, NEW fault,
         NEW c, c = CloseWriter(p, fault)
  PROVE  /\ Filed(c, w, u)
         /\ c.date = p.date
         /\ IF c.raised THEN c.open /\ p.open ELSE ~c.open
         /\ \A d \in Days : c.files[d] # p.files[d] => ~p.files[d].readable
         /\ Fresh(p) => Fresh(c)
         /\ Complete(p, w) => c.raised \/ Complete(c, w)
         /\ c.raised => fault # "none"
<1> DEFINE f == FlushBuffer(p, fault)
<1>1. /\ Filed(f, w, u)
      /\ f.open = p.open /\ f.date = p.date /\ (p.open => f.buffer = <<>>)
      /\ \A d \in Days : f.files[d] # p.files[d] => ~p.files[d].readable
      /\ Fresh(p) => Fresh(f)
      /\ Complete(p, w) => f.raised \/ Complete(f, w)
      /\ f.raised => fault # "none" /\ p.open
  BY FlushSound
<1>2. CASE ~f.open \/ f.raised
  <2>1. c = f
    BY <1>2 DEF CloseWriter
  <2> HIDE DEF f
  <2> QED BY <1>1, <1>2, <2>1
<1>3. CASE f.open /\ ~f.raised
  <2> DEFINE g == IF fault = "footer" THEN Torn(f.files[f.date]) ELSE Finished(f.files[f.date])
             files == SetFile(f.files, f.date, g)
  <2>1. c = IF fault = "footer" THEN [f EXCEPT !.files = files, !.raised = TRUE]
                                ELSE [f EXCEPT !.files = files, !.open = FALSE]
    BY <1>3 DEF CloseWriter
  <2> HIDE DEF f
  <2>2. /\ f \in ParquetWriters /\ f.date \in Days /\ ~f.files[f.date].readable
        /\ f.files \in [Days -> Files] /\ f.files[f.date] \in Files
    BY <1>1, <1>3, WriterFields DEF Filed
  <2>3. /\ g \in Files /\ g.rows = f.files[f.date].rows
        /\ ~g.readable \/ fault # "footer"
        /\ fault # "footer" => g.readable = ~f.files[f.date].torn
    BY <2>2, FooterFields
  <2> HIDE DEF g
  <2>4. /\ files \in [Days -> Files] /\ files[f.date] = g
        /\ \A e \in Days : e # f.date => files[e] = f.files[e]
    BY <2>2, <2>3, SetFields
  <2>5. c \in [buffer : {f.buffer}, date : {f.date}, open : {fault = "footer"},
               files : {files}, raised : {fault = "footer"}]
    <3> HIDE DEF files
    <3> QED BY <1>3, <2>1, <2>2 DEF ParquetWriters
  <2>6. /\ c \in ParquetWriters /\ c.open = (fault = "footer") /\ c.raised = (fault = "footer")
        /\ c.date = f.date /\ c.buffer = <<>> /\ f.buffer = <<>> /\ c.files = files
    <3> HIDE DEF files
    <3> QED BY <1>1, <1>3, <2>2, <2>4, <2>5, WriterFields, EmptyRows DEF ParquetWriters
  <2>7. /\ Filed(c, w, u)
        /\ \A d \in Days : c.files[d] # f.files[d] => d = f.date
        /\ c.files[f.date] = g
        /\ Fresh(f) => Fresh(c)
    <3>1. c.open => ~g.readable
      BY <2>3, <2>6
    <3>2. Filed(f, w, u) /\ f.open /\ c.files = SetFile(f.files, f.date, g)
      BY <1>1, <1>3, <2>6
    <3> HIDE DEF files
    <3> QED BY <2>3, <2>6, <3>1, <3>2, EntryRenewed
  <2> HIDE DEF files
  <2>8. \A d \in Days : c.files[d] # p.files[d] => ~p.files[d].readable
    <3>1. ~p.files[f.date].readable
      BY <1>1, <1>3 DEF Filed
    <3> QED BY <1>1, <2>7, <3>1
  <2>9. ASSUME Complete(p, w), ~c.raised PROVE Complete(c, w)
    <3>1. Complete(f, w) /\ ~c.open /\ g.readable
      BY <1>1, <1>3, <2>3, <2>6, <2>9 DEF Complete
    <3> SUFFICES ASSUME NEW row \in DOMAIN w
                 PROVE  /\ w[row] \in Days
                        /\ row \in Elements(c.files[w[row]].rows)
                        /\ c.files[w[row]].readable
      BY <3>1 DEF Complete
    <3>2. ~(row \in Elements(f.buffer))
      BY <2>6, EmptyRows
    <3>3. w[row] \in Days /\ row \in Elements(f.files[w[row]].rows)
      BY <3>1, <3>2 DEF Complete
    <3>4. f.files[w[row]].readable \/ f.date = w[row]
      BY <3>1, <3>2 DEF Complete
    <3> QED BY <3>1, <3>3, <3>4, <2>3, <2>4, <2>6
  <2> QED BY <1>1, <1>3, <2>6, <2>7, <2>8, <2>9
<1> QED BY <1>2, <1>3, <1>1 DEF Filed, ParquetWriters

(* The days without a file once the date has changed and none is open.       *)
Unopened(p, r, u, t) == IF r.date # p.date /\ ~r.open THEN u \cup {t} ELSE u

(* The file of day t is the day's own, or an empty one.                      *)
RotateWell(p, r, w, u, t) ==
  /\ Filed(r, w, u)
  /\ r.date \in {p.date, t}
  /\ r.raised => r.open \/ (r.date = t /\ p.date # t)
  /\ ~r.raised => r.date = t /\ (p.date # t => r.open) /\ (p.date = t => r.open = p.open)
  /\ Fresh(p) => Fresh(r)
  /\ Fresh(p) /\ Complete(p, w) => r.raised \/ Complete(r, w)
  /\ \A d \in Days : p.files[d].readable /\ r.files[d] # p.files[d]
                       => d = t /\ p.date # d /\ ~Fresh(p)

(* Opening the file of a later day.                                          *)
LEMMA OpenSound ==
  ASSUME NEW c, NEW w, NEW u, u \subseteq Days, Filed(c, w, u), ~c.raised, ~c.open, NEW fault,
         NEW t \in Days, c.date < t, NEW r, r = Opened(c, t, fault)
  PROVE  /\ Filed(r, w, u)
         /\ r.date = t /\ r.open = ~r.raised
         /\ \A d \in Days : r.files[d] # c.files[d] => d = t /\ r.files[d] = EmptyFile
         /\ ~r.raised => r.files[t] = EmptyFile
         /\ r.raised => fault # "none"
<1> DEFINE files == SetFile(c.files, t, EmptyFile)
           fs == IF fault = "open" THEN c.files ELSE files
           bad == fault \in {"open", "header"}
<1>1. c \in ParquetWriters /\ c.files \in [Days -> Files] /\ c.date \in Days \cup {0}
      /\ c.buffer \in Seq(Nat)
  BY WriterFields DEF Filed
<1>2. /\ files \in [Days -> Files] /\ files[t] = EmptyFile
      /\ \A e \in Days : e # t => files[e] = c.files[e]
  BY <1>1, EmptyFileFields, SetFields
<1>3. r \in [buffer : {c.buffer}, date : {t}, open : {~bad}, files : {fs}, raised : {bad}]
  <2>1. r = IF fault = "open" THEN [c EXCEPT !.date = t, !.raised = TRUE]
            ELSE IF fault = "header" THEN [c EXCEPT !.date = t, !.files = files, !.raised = TRUE]
            ELSE [c EXCEPT !.date = t, !.files = files, !.open = TRUE]
    BY <1>1 DEF Opened, ParquetWriters
  <2> HIDE DEF files
  <2>2. CASE fault = "open"
    BY <1>1, <2>1, <2>2 DEF ParquetWriters
  <2>3. CASE fault = "header"
    BY <1>1, <2>1, <2>3 DEF ParquetWriters
  <2>4. CASE fault # "open" /\ fault # "header"
    <3>1. r = [c EXCEPT !.date = t, !.files = files, !.open = TRUE]
      BY <2>1, <2>4
    <3>2. bad = FALSE /\ (~bad) = TRUE /\ fs = files
      BY <2>4
    <3> HIDE DEF bad, fs
    <3> QED BY <1>1, <3>1, <3>2 DEF ParquetWriters
  <2> QED BY <2>2, <2>3, <2>4
<1> HIDE DEF files
<1>4. /\ fs \in [Days -> Files]
      /\ \A d \in Days : fs[d] # c.files[d] => d = t /\ fs[d] = EmptyFile
      /\ ~bad => fs[t] = EmptyFile
  BY <1>1, <1>2
<1>5. bad \in BOOLEAN /\ (~bad) \in BOOLEAN /\ (bad => fault # "none")
  OBVIOUS
<1> HIDE DEF fs, bad
<1>6. /\ r \in ParquetWriters /\ r.buffer = c.buffer /\ r.date = t /\ r.open = ~bad
      /\ r.raised = bad /\ r.files = fs
  BY <1>1, <1>3, <1>4, <1>5 DEF ParquetWriters
<1>7. DayRows(c.buffer, t, w, u) /\ \A i \in DOMAIN c.buffer : w[c.buffer[i]] \in u
  BY <1>1, DayWaits DEF Filed
<1>8. \A d \in Days : DayRows(r.files[d].rows, d, w, u)
  BY <1>4, <1>6, EmptyFileFields, EmptyRows DEF Filed
<1>9. ~bad => DayRows(r.files[t].rows \o r.buffer, t, w, u) /\ ~r.files[t].readable
  BY <1>1, <1>4, <1>6, <1>7, EmptyFileFields, EmptyRows
<1>10. Filed(r, w, u)
  BY <1>6, <1>7, <1>8, <1>9 DEF Filed
<1> QED BY <1>4, <1>5, <1>6, <1>10

LEMMA RotateSound ==
  ASSUME NEW p, NEW w, NEW u, u \subseteq Days, Filed(p, w, u), ~p.raised, NEW fault,
         NEW t \in Days, p.date <= t
  PROVE  /\ RotateWell(p, Rotate(p, t, fault), w, u, t)
         /\ Rotate(p, t, fault).raised => fault # "none"
<1> DEFINE r == Rotate(p, t, fault)
<1> SUFFICES RotateWell(p, r, w, u, t) /\ (r.raised => fault # "none")
  OBVIOUS
<1>0. p \in ParquetWriters /\ p.date \in Days \cup {0} /\ t \in Nat \ {0}
  BY WriterFields, ParquetAssumption DEF Filed, Days
<1>1. CASE t = p.date
  <2>1. r = p
    BY <1>1 DEF Rotate
  <2> HIDE DEF r
  <2> QED BY <1>0, <1>1, <2>1 DEF RotateWell
<1>2. CASE t # p.date
  <2> DEFINE c == CloseWriter(p, fault)
  <2>1. /\ Filed(c, w, u)
        /\ c.date = p.date
        /\ IF c.raised THEN c.open /\ p.open ELSE ~c.open
        /\ \A d \in Days : c.files[d] # p.files[d] => ~p.files[d].readable
        /\ Fresh(p) => Fresh(c)
        /\ Complete(p, w) => c.raised \/ Complete(c, w)
        /\ c.raised => fault # "none"
    BY CloseSound
  <2>2. CASE c.raised
    <3>1. r = c
      BY <1>2, <2>2 DEF Rotate
    <3> HIDE DEF r, c
    <3> QED BY <1>0, <1>2, <2>1, <2>2, <3>1 DEF RotateWell
  <2>3. CASE ~c.raised
    <3>1. r = Opened(c, t, fault)
      BY <1>2, <2>3 DEF Rotate
    <3> HIDE DEF r, c
    <3>2. c.date < t /\ ~c.open
      BY <1>0, <1>2, <2>1, <2>3 DEF Days
    <3>3. /\ Filed(r, w, u)
          /\ r.date = t /\ r.open = ~r.raised
          /\ \A d \in Days : r.files[d] # c.files[d] => d = t /\ r.files[d] = EmptyFile
          /\ ~r.raised => r.files[t] = EmptyFile
          /\ r.raised => fault # "none"
      BY <2>1, <2>3, <3>1, <3>2, OpenSound
    <3>4. ASSUME Fresh(p) PROVE Fresh(r) /\ p.files[t] = EmptyFile /\ c.files[t] = EmptyFile
      <4>1. p.files[t] = EmptyFile /\ c.files[t] = EmptyFile
        BY <2>1, <3>2, <3>4 DEF Fresh, Days
      <4>2. \A d \in Days : d > t => d > p.date
        BY <1>0, <2>1, <3>2 DEF Days
      <4> QED BY <2>1, <3>3, <3>4, <4>1, <4>2 DEF Fresh
    <3>5. ASSUME Fresh(p), Complete(p, w), ~r.raised PROVE Complete(r, w)
      <4>1. Complete(c, w)
        BY <2>1, <2>3, <3>5
      <4>2. ~r.files[r.date].torn
        BY <3>3, <3>5, EmptyFileFields
      <4> SUFFICES ASSUME NEW row \in DOMAIN w
                   PROVE  /\ w[row] \in Days
                          /\ row \in Elements(r.files[w[row]].rows)
                          /\ r.files[w[row]].readable
        BY <4>2 DEF Complete
      <4>3. /\ w[row] \in Days
            /\ row \in Elements(c.files[w[row]].rows)
            /\ c.files[w[row]].readable
        BY <4>1, <3>2 DEF Complete
      <4>4. w[row] # t
        BY <4>3, <3>4, <3>5, EmptyFileFields
      <4> QED BY <4>3, <4>4, <3>3
    <3>6. ASSUME NEW d \in Days, p.files[d].readable, r.files[d] # p.files[d]
          PROVE  d = t /\ p.date # d /\ ~Fresh(p)
      <4>1. d = t
        BY <2>1, <3>3, <3>6
      <4> QED BY <4>1, <1>2, <3>4, <3>6, EmptyFileFields
    <3> QED BY <1>2, <2>1, <3>3, <3>4, <3>5, <3>6 DEF RotateWell
  <2> QED BY <2>2, <2>3
<1> QED BY <1>1, <1>2

LEMMA CalledSound ==
  ASSUME NEW p, NEW w, NEW u, Filed(p, w, u)
  PROVE  /\ Filed(Called(p), w, u) /\ ~Called(p).raised
         /\ Called(p).date = p.date /\ Called(p).open = p.open
         /\ Called(p).files = p.files /\ Called(p).buffer = p.buffer
         /\ Fresh(p) => Fresh(Called(p))
         /\ Complete(p, w) => Complete(Called(p), w)
<1> DEFINE q == Called(p)
<1>1. /\ q \in ParquetWriters /\ ~q.raised
      /\ q.buffer = p.buffer /\ q.date = p.date
      /\ q.open = p.open /\ q.files = p.files
  BY CalledFields DEF Filed
<1> HIDE DEF q
<1>2. Filed(q, w, u) /\ (Fresh(p) => Fresh(q)) /\ (Complete(p, w) => Complete(q, w))
  BY <1>1 DEF Filed, Fresh, Complete
<1> QED BY <1>1, <1>2 DEF q

LEMMA FiledLater ==
  ASSUME NEW p, NEW w \in Seq(Days \cup {0}), NEW x \in Days \cup {0},
         NEW u, NEW v, u \subseteq v, Filed(p, w, u)
  PROVE  Filed(p, Append(w, x), v)
<1>1. ASSUME ~p.open, NEW i \in DOMAIN p.buffer PROVE Append(w, x)[p.buffer[i]] \in v
  <2>1. w[p.buffer[i]] \in u /\ p.buffer[i] \in DOMAIN w
    BY <1>1 DEF Filed, DayRows
  <2> QED BY <2>1, AppendFacts
<1> QED BY <1>1, DayLater DEF Filed

(* A row taken on day t.                                                     *)
WriteWell(p, q, w, u, t) ==
  /\ Filed(q, IF q.raised THEN Append(w, 0) ELSE Append(w, t), Unopened(p, q, u, t))
  /\ q.date <= t
  /\ Tracked(q, Unopened(p, q, u, t))
  /\ ~q.raised => Unopened(p, q, u, t) = u
  /\ Fresh(p) => Fresh(q)
  /\ Fresh(p) /\ Complete(p, w) /\ (p.date # 0 => p.open)
       => q.raised \/ Complete(q, Append(w, t))
  /\ \A d \in Days : p.files[d].readable /\ q.files[d] # p.files[d]
                       => d = t /\ p.date # d /\ ~Fresh(p)

LEMMA WriteSound ==
  ASSUME NEW p, NEW w \in Seq(Days \cup {0}), NEW u, u \subseteq Days, Filed(p, w, u), NEW fault,
         NEW t \in Days, p.date <= t, Tracked(p, u)
  PROVE  /\ WriteWell(p, WriteRow(p, Len(w) + 1, t, fault), w, u, t)
         /\ WriteRow(p, Len(w) + 1, t, fault).raised => fault # "none"
<1> DEFINE row == Len(w) + 1
           q == WriteRow(p, row, t, fault)
           p0 == Called(p)
           r == Rotate(p0, t, fault)
           b == [r EXCEPT !.buffer = Append(r.buffer, row)]
           w2 == Append(w, t)
           v == Unopened(p, q, u, t)
<1> SUFFICES WriteWell(p, q, w, u, t) /\ (q.raised => fault # "none")
  OBVIOUS
<1>0. t \in Nat /\ t # 0 /\ p.date \in Nat
  BY WriterFields, ParquetAssumption DEF Days, Filed
<1>1. /\ Filed(p0, w, u) /\ ~p0.raised
      /\ p0.date = p.date /\ p0.open = p.open
      /\ p0.files = p.files /\ p0.buffer = p.buffer
      /\ Fresh(p) => Fresh(p0)
      /\ Complete(p, w) => Complete(p0, w)
  BY CalledSound
<1>2. Fresh(p0) => Fresh(p)
  BY <1>1 DEF Fresh
<1>3. /\ q = IF r.raised THEN r
             ELSE IF Len(b.buffer) >= PqFlushEvery THEN FlushBuffer(b, fault) ELSE b
  BY DEF WriteRow, Called
<1> HIDE DEF p0
<1>4. RotateWell(p0, r, w, u, t) /\ (r.raised => fault # "none")
  BY <1>1, RotateSound
<1> HIDE DEF q, r
<1>5. CASE r.raised
  <2>1. q = r
    BY <1>3, <1>5
  <2>2. u \subseteq v
    BY DEF Unopened
  <2>3. Filed(q, Append(w, 0), v)
    <3> HIDE DEF v
    <3> QED BY <1>4, <2>1, <2>2, FiledLater DEF RotateWell
  <2>4. q.date <= t
    BY <1>0, <1>1, <1>4, <2>1 DEF RotateWell
  <2>5. Tracked(q, v)
    BY <1>1, <1>4, <1>5, <2>1 DEF RotateWell, Tracked, Unopened
  <2> HIDE DEF v
  <2> QED BY <1>1, <1>2, <1>4, <1>5, <2>1, <2>3, <2>4, <2>5 DEF RotateWell, WriteWell, v
<1>6. CASE ~r.raised
  <2>1. /\ r \in ParquetWriters /\ r.date = t /\ r.buffer \in Seq(Nat)
        /\ Filed(r, w, u)
        /\ ~r.open => p.date = t /\ t \in u
        /\ p.date # t => r.open
        /\ r.open \/ ~p.open
    <3>1. Filed(r, w, u) /\ r.date = t /\ (p.date # t => r.open) /\ (p.date = t => r.open = p.open)
      BY <1>1, <1>4, <1>6 DEF RotateWell
    <3> QED BY <1>0, <3>1, WriterFields DEF Filed, Tracked
  <2>2. row \in Nat /\ Append(r.buffer, row) \in Seq(Nat)
    BY <2>1, LenProperties, AppendFacts
  <2>3. b \in ParquetWriters /\ b.buffer = Append(r.buffer, row) /\ b.open = r.open /\ b.date = t
        /\ b.files = r.files /\ ~b.raised
    BY <1>6, <2>1, <2>2 DEF ParquetWriters
  <2> HIDE DEF b
  <2>4. b.open => DayRows(b.files[t].rows \o b.buffer, t, w2, u)
    <3>1. r.files[t].rows \in Seq(Nat)
      BY <2>1, WriterFields
    <3>2. r.files[t].rows \o Append(r.buffer, row) = Append(r.files[t].rows \o r.buffer, row)
      BY <2>1, <2>2, <3>1, ConcatAppend
    <3>3. r.open => DayRows(r.files[t].rows \o r.buffer, t, w, u)
      BY <2>1 DEF Filed
    <3> QED BY <2>1, <2>3, <3>2, <3>3, DayAppend
  <2>5. ~b.open => DayRows(b.buffer, t, w2, u) /\ \A i \in DOMAIN b.buffer : w2[b.buffer[i]] \in u
    <3> SUFFICES ASSUME ~b.open
                 PROVE  DayRows(b.buffer, t, w2, u) /\ \A i \in DOMAIN b.buffer : w2[b.buffer[i]] \in u
      OBVIOUS
    <3>1. DayRows(r.buffer, t, w, u) /\ \A i \in DOMAIN r.buffer : w[r.buffer[i]] \in u
      BY <2>1, <2>3 DEF Filed
    <3>2. DayRows(b.buffer, t, w2, u)
      BY <2>3, <3>1, DayAppend
    <3>3. ASSUME NEW i \in DOMAIN b.buffer PROVE w2[b.buffer[i]] \in u
      <4>1. i \in DOMAIN r.buffer \/ i = Len(r.buffer) + 1
        BY <2>1, <2>2, <2>3, AppendFacts
      <4>2. CASE i \in DOMAIN r.buffer
        <5>1. b.buffer[i] = r.buffer[i]
          BY <2>1, <2>2, <2>3, <4>2, AppendFacts
        <5>2. w[r.buffer[i]] \in u /\ r.buffer[i] \in DOMAIN w
          BY <3>1, <4>2 DEF DayRows
        <5> QED BY <5>1, <5>2, AppendFacts
      <4>3. CASE i = Len(r.buffer) + 1
        <5>1. b.buffer[i] = row
          BY <2>1, <2>2, <2>3, <4>3, AppendFacts
        <5>2. w2[row] = t
          BY AppendFacts
        <5> QED BY <2>1, <2>3, <5>1, <5>2
      <4> QED BY <4>1, <4>2, <4>3
    <3> QED BY <3>2, <3>3
  <2>6. Filed(r, w2, u) /\ (r.open => ~r.files[t].readable)
    BY <2>1, FiledLater DEF Filed
  <2>7. Filed(b, w2, u)
    BY <2>3, <2>4, <2>5, <2>6 DEF Filed
  <2>8. Fresh(r) => Fresh(b)
    BY <2>1, <2>3 DEF Fresh
  <2>9. ASSUME Complete(r, w), r.open PROVE Complete(b, w2)
    <3>0. ~b.files[b.date].torn
      BY <2>1, <2>3, <2>9 DEF Complete
    <3> SUFFICES ASSUME NEW x \in DOMAIN w2
                 PROVE  /\ w2[x] \in Days
                        /\ \/ /\ x \in Elements(b.files[w2[x]].rows)
                              /\ b.files[w2[x]].readable \/ (b.open /\ b.date = w2[x])
                           \/ b.open /\ b.date = w2[x] /\ x \in Elements(b.buffer)
      BY <3>0 DEF Complete
    <3>1. Elements(b.buffer) = Elements(r.buffer) \cup {row}
      BY <2>1, <2>2, <2>3, ElementsAppend
    <3>2. CASE x \in DOMAIN w
      <4>1. w2[x] = w[x]
        BY <3>2, AppendFacts
      <4> QED BY <2>1, <2>3, <2>9, <3>1, <3>2, <4>1 DEF Complete
    <3>3. CASE x = row
      <4>1. w2[x] = t
        BY <3>3, AppendFacts
      <4> QED BY <2>3, <2>9, <3>1, <3>3, <4>1
    <3>4. x \in DOMAIN w \/ x = row
      BY AppendFacts
    <3> QED BY <3>2, <3>3, <3>4
  <2> DEFINE f == FlushBuffer(b, fault)
  <2>10. /\ Filed(f, w2, u) /\ f.open = b.open /\ f.date = t /\ (b.open => f.buffer = <<>>)
         /\ \A d \in Days : f.files[d] # b.files[d] => ~b.files[d].readable
         /\ Fresh(b) => Fresh(f)
         /\ Complete(b, w2) => f.raised \/ Complete(f, w2)
         /\ f.raised => fault # "none" /\ b.open
    BY <2>3, <2>7, FlushSound
  <2>11. ASSUME f.raised PROVE Filed(f, w, u)
    <3>1. Flushed(b, f)
      BY <2>3, <2>7, FlushFields DEF Filed, Formed
    <3>2. f.files = r.files /\ f.open /\ r.open /\ f.buffer = <<>>
      BY <2>3, <2>10, <2>11, <3>1 DEF Flushed
    <3>3. DayRows(f.files[t].rows \o f.buffer, t, w, u)
      <4>1. r.files[t].rows \in Seq(Nat)
        BY <2>1, WriterFields
      <4>2. DayRows(r.files[t].rows, t, w, u)
        BY <2>1 DEF Filed
      <4> QED BY <3>2, <4>1, <4>2, EmptyRows
    <3> HIDE DEF f
    <3> QED BY <2>1, <2>6, <2>10, <3>2, <3>3 DEF Filed
  <2>12. f.raised => Filed(f, Append(w, 0), u)
    BY <2>11, FiledLater
  <2> HIDE DEF f
  <2>13. q = f \/ q = b
    BY <1>3, <1>6 DEF f
  <2>14. q.date = t /\ q.open = r.open /\ (q = b => ~q.raised)
    BY <2>3, <2>10, <2>13
  <2>15. v = u /\ Tracked(q, u)
    BY <2>1, <2>14 DEF Unopened, Tracked
  <2>16. \A d \in Days : p.files[d].readable /\ q.files[d] # p.files[d]
                           => d = t /\ p.date # d /\ ~Fresh(p)
    <3> SUFFICES ASSUME NEW d \in Days, p.files[d].readable, q.files[d] # p.files[d]
                 PROVE  r.files[d] # p.files[d]
      BY <1>1, <1>2, <1>4 DEF RotateWell
    <3> QED BY <2>3, <2>10, <2>13
  <2>17. Fresh(p) => Fresh(q)
    BY <1>1, <1>4, <2>8, <2>10, <2>13 DEF RotateWell
  <2>18. ASSUME Fresh(p), Complete(p, w), p.date # 0 => p.open PROVE q.raised \/ Complete(q, w2)
    <3>1. r.open
      BY <1>0, <2>1, <2>18
    <3>2. Complete(r, w)
      BY <1>1, <1>4, <1>6, <2>18 DEF RotateWell
    <3> QED BY <2>9, <2>10, <2>13, <3>1, <3>2
  <2>19. Filed(q, IF q.raised THEN Append(w, 0) ELSE Append(w, t), u)
    BY <2>7, <2>10, <2>12, <2>13, <2>14
  <2>20. q.date <= t
    BY <1>0, <2>14
  <2>21. q.raised => fault # "none"
    BY <2>10, <2>13, <2>14
  <2> HIDE DEF v
  <2> QED BY <2>15, <2>16, <2>17, <2>18, <2>19, <2>20, <2>21 DEF WriteWell, v
<1> QED BY <1>5, <1>6

-----------------------------------------------------------------------------
(* The file writer's part of the invariant.                                  *)
LEMMA FilesSame ==
  ASSUME FilesInv, TypeOK, UNCHANGED <<parquet, writtenOn, restarts, diskErrors, unopened>>,
         today' \in {today, today + 1},
         phase' \in {phase, "exited"} \/ (phase = "up" /\ phase' = "stopping")
  PROVE  FilesInv'
<1>1. parquet.date <= today'
  <2>1. parquet.date \in Days \cup {0}
    BY WriterFields DEF FilesInv, Filed
  <2> QED BY <2>1, ParquetAssumption DEF TypeOK, FilesInv, Days
<1>2. Filed(parquet', writtenOn', unopened') /\ Fresh(parquet') = Fresh(parquet)
      /\ Complete(parquet', writtenOn') = Complete(parquet, writtenOn)
      /\ Tracked(parquet', unopened') = Tracked(parquet, unopened)
  BY DEF FilesInv
<1> QED BY <1>1, <1>2 DEF FilesInv

LEMMA TradeFiles ==
  ASSUME FilesInv, TypeOK, NEW fault \in Faults, HandleTrade(fault)
  PROVE  FilesInv'
<1>1. /\ writtenOn \in Seq(Days \cup {0}) /\ today \in Days /\ unopened \subseteq Days
      /\ Filed(parquet, writtenOn, unopened) /\ parquet.date <= today
      /\ Tracked(parquet, unopened)
  BY DEF TypeOK, FilesInv, HandleTrade, Collecting
<1>2. WriteWell(parquet, parquet', writtenOn, unopened, today)
  BY <1>1, WriteSound DEF HandleTrade
<1>3. writtenOn' = IF parquet'.raised THEN Append(writtenOn, 0) ELSE Append(writtenOn, today)
  BY DEF HandleTrade
<1>4. /\ phase' = phase /\ today' = today /\ restarts' = restarts
      /\ diskErrors' = IF parquet'.raised THEN diskErrors + 1 ELSE diskErrors
      /\ phase # "closing" /\ diskErrors \in Nat
      /\ unopened' = Unopened(parquet, parquet', unopened, today)
  BY StorageAssumption DEF HandleTrade, DiskMay, Collecting, TypeOK, Unopened
<1>5. Filed(parquet', writtenOn', unopened') /\ Tracked(parquet', unopened')
  BY <1>2, <1>3, <1>4 DEF WriteWell
<1>6. restarts' = 0 => Fresh(parquet')
  BY <1>2, <1>4 DEF WriteWell, FilesInv
<1>7. diskErrors' = 0 => ~parquet'.raised /\ diskErrors = 0 /\ unopened = {} /\ unopened' = {}
  BY <1>2, <1>4 DEF WriteWell, FilesInv
<1>8. restarts' = 0 /\ diskErrors' = 0 => Complete(parquet', writtenOn')
  <2> SUFFICES ASSUME restarts' = 0, diskErrors' = 0 PROVE Complete(parquet', writtenOn')
    OBVIOUS
  <2>1. Fresh(parquet) /\ Complete(parquet, writtenOn) /\ (parquet.date # 0 => parquet.open)
    BY <1>1, <1>4, <1>7 DEF FilesInv, Tracked
  <2> QED BY <1>2, <1>3, <1>7, <2>1 DEF WriteWell
<1>9. parquet'.date <= today'
  BY <1>2, <1>4 DEF WriteWell
<1> QED BY <1>4, <1>5, <1>6, <1>7, <1>8, <1>9 DEF FilesInv

LEMMA HeartbeatFiles ==
  ASSUME FilesInv, TypeOK, NEW fault \in Faults, Heartbeat(fault)
  PROVE  FilesInv'
<1> DEFINE p == Called(parquet)
<1>1. /\ Filed(p, writtenOn, unopened) /\ ~p.raised
      /\ p.date = parquet.date /\ p.open = parquet.open
      /\ Fresh(parquet) => Fresh(p)
      /\ Complete(parquet, writtenOn) => Complete(p, writtenOn)
  BY CalledSound DEF FilesInv
<1>2. parquet' = FlushBuffer(p, fault)
  BY DEF Heartbeat, FlushNow, Called
<1> HIDE DEF p
<1>3. /\ Filed(parquet', writtenOn, unopened)
      /\ parquet'.open = p.open /\ parquet'.date = p.date
      /\ Fresh(p) => Fresh(parquet')
      /\ Complete(p, writtenOn) => parquet'.raised \/ Complete(parquet', writtenOn)
  BY <1>1, <1>2, FlushSound
<1>4. /\ phase = "up" /\ phase' \in {"up", "abandoned"} /\ unopened' = unopened
      /\ today' = today /\ restarts' = restarts /\ writtenOn' = writtenOn
      /\ diskErrors' = IF parquet'.raised THEN diskErrors + 1 ELSE diskErrors
      /\ diskErrors \in Nat
  BY StorageAssumption DEF Heartbeat, DiskMay, TypeOK
<1>5. restarts' = 0 /\ diskErrors' = 0 => Complete(parquet', writtenOn')
  <2>1. diskErrors' = 0 => diskErrors = 0 /\ ~parquet'.raised
    BY <1>4
  <2> QED BY <1>1, <1>3, <1>4, <2>1 DEF FilesInv
<1>6. restarts' = 0 => Fresh(parquet')
  BY <1>1, <1>3, <1>4 DEF FilesInv
<1>7. Tracked(parquet', unopened') /\ (diskErrors' = 0 => unopened' = {})
  BY <1>1, <1>3, <1>4 DEF FilesInv, Tracked
<1> QED BY <1>1, <1>3, <1>4, <1>5, <1>6, <1>7 DEF FilesInv

LEMMA CloseFiles ==
  ASSUME FilesInv, TypeOK, NEW fault \in Faults, CloseAsync(fault)
  PROVE  FilesInv'
<1> DEFINE p == Called(parquet)
<1>1. /\ Filed(p, writtenOn, unopened) /\ ~p.raised
      /\ p.date = parquet.date /\ p.open = parquet.open
      /\ Fresh(parquet) => Fresh(p)
      /\ Complete(parquet, writtenOn) => Complete(p, writtenOn)
  BY CalledSound DEF FilesInv
<1>2. parquet' = CloseWriter(p, fault)
  BY DEF CloseAsync, Close, Called
<1> HIDE DEF p
<1>3. /\ Filed(parquet', writtenOn, unopened)
      /\ ~parquet'.raised => ~parquet'.open
      /\ parquet'.date = p.date
      /\ Fresh(p) => Fresh(parquet')
      /\ Complete(p, writtenOn) => parquet'.raised \/ Complete(parquet', writtenOn)
  BY <1>1, <1>2, CloseSound
<1>4. /\ phase' = IF parquet'.raised THEN "exited" ELSE "closing"
      /\ today' = today /\ restarts' = restarts /\ writtenOn' = writtenOn /\ unopened' = unopened
      /\ diskErrors' = IF parquet'.raised THEN diskErrors + 1 ELSE diskErrors
      /\ diskErrors \in Nat
  BY StorageAssumption DEF CloseAsync, DiskMay, TypeOK
<1>5. restarts' = 0 /\ diskErrors' = 0 => Complete(parquet', writtenOn')
  <2>1. diskErrors' = 0 => diskErrors = 0 /\ ~parquet'.raised
    BY <1>4
  <2> QED BY <1>1, <1>3, <1>4, <2>1 DEF FilesInv
<1>6. restarts' = 0 => Fresh(parquet')
  BY <1>1, <1>3, <1>4 DEF FilesInv
<1>7. diskErrors' = 0 => unopened' = {}
  BY <1>4 DEF FilesInv
<1> QED BY <1>1, <1>3, <1>4, <1>5, <1>6, <1>7 DEF FilesInv

LEMMA NewWriterSound ==
  ASSUME NEW files \in [Days -> Files], NEW w, NEW u,
         \A d \in Days : DayRows(files[d].rows, d, w, u)
  PROVE  /\ Filed(NewWriter(files), w, u)
         /\ NewWriter(files).date = 0 /\ ~NewWriter(files).open
         /\ NewWriter(files).files = files
<1> DEFINE p == NewWriter(files)
<1>1. p \in ParquetWriters /\ p.date = 0 /\ ~p.open /\ p.files = files /\ p.buffer = <<>>
  BY EmptyRows DEF NewWriter, ParquetWriters
<1> HIDE DEF p
<1>2. Filed(p, w, u)
  BY <1>1, EmptyRows, EmptySeq DEF Filed
<1> QED BY <1>1, <1>2 DEF p

LEMMA RestartFiles ==
  ASSUME FilesInv, TypeOK, Restart
  PROVE  FilesInv'
<1>1. /\ parquet.files \in [Days -> Files]
      /\ \A d \in Days : DayRows(parquet.files[d].rows, d, writtenOn, unopened)
  BY WriterFields DEF FilesInv, Filed
<1>2. Filed(parquet', writtenOn, unopened) /\ parquet'.date = 0
  BY <1>1, NewWriterSound DEF Restart
<1>3. /\ phase' = "up" /\ restarts' = restarts + 1 /\ restarts \in Nat
      /\ writtenOn' = writtenOn /\ today' = today /\ today \in Nat
      /\ unopened' = unopened /\ diskErrors' = diskErrors
  BY StorageAssumption, ParquetAssumption DEF Restart, TypeOK, Days
<1> QED BY <1>2, <1>3 DEF FilesInv, Tracked

-----------------------------------------------------------------------------
(* The rows on their way to the table.                                       *)
PgTypes ==
  /\ pgBuffer \in Seq(Nat) /\ batch \in Seq(Nat)
  /\ table \subseteq Nat /\ dropped \subseteq Nat /\ accepted \subseteq Nat
  /\ writtenOn \in Seq(Days \cup {0})

LEMMA RowsSame ==
  ASSUME RowsInv, PgTypes, UNCHANGED <<pgBuffer, batch, table, dropped, accepted>>,
         writtenOn' = writtenOn \/ \E x \in Days \cup {0} : writtenOn' = Append(writtenOn, x)
  PROVE  RowsInv'
<1>1. Len(writtenOn) \in Nat /\ Len(writtenOn') \in Nat /\ Len(writtenOn) <= Len(writtenOn')
  BY LenProperties, AppendProperties DEF PgTypes
<1>2. \A row \in table \cup accepted : row <= Len(writtenOn')
  <2>1. \A row \in table \cup accepted : row \in Nat /\ row <= Len(writtenOn)
    BY DEF RowsInv, PgTypes
  <2> QED BY <1>1, <2>1
<1>3. BatchesInOrder'
  BY DEF RowsInv, BatchesInOrder
<1> QED BY <1>2, <1>3 DEF RowsInv

LEMMA RowsTaken ==
  ASSUME RowsInv, PgTypes, batch = <<>>, TakeBuffer,
         UNCHANGED <<table, dropped, accepted, writtenOn>>
  PROVE  RowsInv'
<1>1. batch' = pgBuffer /\ pgBuffer' = <<>>
  BY DEF TakeBuffer
<1>2. batch' \o pgBuffer' = batch \o pgBuffer
  BY <1>1, EmptyRows DEF PgTypes
<1>3. Elements(batch') \cup Elements(pgBuffer') = Elements(batch) \cup Elements(pgBuffer)
  BY <1>1, EmptyRows
<1>4. BatchesInOrder'
  BY <1>2 DEF RowsInv, BatchesInOrder
<1> QED BY <1>3, <1>4 DEF RowsInv

LEMMA RowsSettled ==
  ASSUME RowsInv, PgTypes, batch' = <<>>,
         UNCHANGED <<pgBuffer, accepted, writtenOn>>,
         table \subseteq table', table' \subseteq table \cup Elements(batch),
         dropped \subseteq dropped', dropped' \subseteq dropped \cup Elements(batch),
         Elements(batch) \subseteq table' \cup dropped'
  PROVE  RowsInv'
<1>1. Elements(batch') = {} /\ batch' \o pgBuffer' = pgBuffer
  BY EmptyRows DEF PgTypes
<1>2. /\ Rising(pgBuffer)
      /\ \A x \in Elements(batch), y \in Elements(pgBuffer) : x < y
      /\ Elements(batch \o pgBuffer) = Elements(batch) \cup Elements(pgBuffer)
  BY RisingPrefix, RisingApart, ElementsConcat DEF RowsInv, BatchesInOrder, PgTypes
<1>3. Elements(batch) \subseteq accepted /\ dropped \subseteq accepted
  BY DEF RowsInv
<1>4. \A row \in (table' \cap accepted') \cup dropped' :
         row \in (table \cap accepted) \cup dropped \/ row \in Elements(batch)
  BY <1>3
<1>5. \A row \in (table \cap accepted) \cup dropped, later \in Elements(pgBuffer) : row < later
  BY <1>2 DEF RowsInv, BatchesInOrder
<1>6. BatchesInOrder'
  BY <1>1, <1>2, <1>4, <1>5 DEF BatchesInOrder
<1>7. \A row \in table' \cup accepted' : row <= Len(writtenOn')
  BY <1>3 DEF RowsInv
<1>8. accepted' = (table' \cap accepted') \cup dropped' \cup Elements(batch') \cup Elements(pgBuffer')
  BY <1>1, <1>3 DEF RowsInv
<1> QED BY <1>6, <1>7, <1>8 DEF RowsInv

LEMMA RowsAppended ==
  ASSUME RowsInv, PgTypes, NEW x \in Days, writtenOn' = Append(writtenOn, x),
         UNCHANGED <<batch, table, dropped>>,
         pgBuffer' = Append(pgBuffer, Len(writtenOn) + 1),
         accepted' = accepted \cup {Len(writtenOn) + 1}
  PROVE  RowsInv'
<1> DEFINE row == Len(writtenOn) + 1
           n == Len(writtenOn)
           all == batch \o pgBuffer
<1>1. n \in Nat /\ row \in Nat /\ Len(writtenOn') = row
  BY LenProperties, AppendProperties DEF PgTypes
<1>2. \A y \in table \cup accepted : y \in Nat /\ y < row
  BY <1>1 DEF RowsInv, PgTypes
<1>3. batch' \o pgBuffer' = Append(all, row) /\ all \in Seq(Nat)
  BY <1>1, ConcatAppend, ConcatFacts DEF PgTypes
<1>4. /\ Elements(all) = Elements(batch) \cup Elements(pgBuffer)
      /\ Elements(Append(all, row)) = Elements(all) \cup {row}
      /\ Elements(pgBuffer') = Elements(pgBuffer) \cup {row}
  <2>1. Elements(all) = Elements(batch) \cup Elements(pgBuffer)
    BY ElementsConcat DEF PgTypes
  <2>2. Elements(Append(all, row)) = Elements(all) \cup {row}
    <3> HIDE DEF all, row
    <3> QED BY <1>1, <1>3, ElementsAppend
  <2>3. Elements(Append(pgBuffer, row)) = Elements(pgBuffer) \cup {row}
    <3>1. pgBuffer \in Seq(Nat) /\ row \in Nat
      BY <1>1 DEF PgTypes
    <3> HIDE DEF row
    <3> QED BY <3>1, ElementsAppend
  <2> QED BY <2>1, <2>2, <2>3
<1>5. Elements(all) \subseteq accepted /\ dropped \subseteq accepted
  BY <1>4 DEF RowsInv
<1>6. Rising(Append(all, row))
  <2>1. \A i \in DOMAIN all : all[i] < row
    BY <1>2, <1>5 DEF Elements
  <2>2. Rising(all)
    BY DEF RowsInv, BatchesInOrder
  <2> HIDE DEF row, all
  <2> QED BY <1>1, <1>3, <2>1, <2>2, RisingAppend
<1>7. table' \cap accepted' = table \cap accepted
  <2>1. row \notin table
    BY <1>2
  <2> QED BY <2>1
<1>8. BatchesInOrder'
  <2> SUFFICES ASSUME NEW y \in (table \cap accepted) \cup dropped,
                      NEW later \in Elements(all) \cup {row}
               PROVE  y < later
    BY <1>3, <1>4, <1>6, <1>7 DEF BatchesInOrder
  <2>1. CASE later \in Elements(all)
    BY <2>1 DEF RowsInv, BatchesInOrder
  <2>2. CASE later = row
    BY <2>2, <1>2, <1>5
  <2> QED BY <2>1, <2>2
<1>9. \A y \in table' \cup accepted' : y <= Len(writtenOn')
  BY <1>1, <1>2
<1>10. accepted' = (table' \cap accepted') \cup dropped' \cup Elements(batch') \cup Elements(pgBuffer')
  BY <1>4, <1>7 DEF RowsInv
<1> QED BY <1>8, <1>9, <1>10 DEF RowsInv

-----------------------------------------------------------------------------
(* The lock and the tasks that wait for it.                                  *)
Callers == {"task", "close"}

PgTypeOK ==
  /\ PgTypes
  /\ enabled \in BOOLEAN /\ connecting \in {"pool", "schema", "over"}
  /\ pool \in {"none", "open", "closing", "closed"}
  /\ ready \in 0 .. MaxReady
  /\ lock \in Seq(Callers) /\ stage \in {"none", "acquire", "insert"}

PgInv == PgTypeOK /\ LockInv /\ RowsInv

LEMMA QueueFacts ==
  ASSUME NEW q \in Seq(Callers)
  PROVE  /\ q = <<>> => Elements(q) = {}
         /\ q # <<>> => /\ Head(q) \in Elements(q) /\ Tail(q) \in Seq(Callers)
                        /\ Elements(Tail(q)) \subseteq Elements(q)
         /\ \A who \in Callers :
              /\ Append(q, who) \in Seq(Callers) /\ Append(q, who) # <<>>
              /\ Head(Append(q, who)) = IF q = <<>> THEN who ELSE Head(q)
              /\ Elements(Append(q, who)) = Elements(q) \cup {who}
<1>1. q = <<>> => Elements(q) = {}
  BY EmptyRows
<1>2. ASSUME q # <<>>
      PROVE  /\ Head(q) \in Elements(q) /\ Tail(q) \in Seq(Callers)
             /\ Elements(Tail(q)) \subseteq Elements(q)
  <2>1. /\ Len(q) \in Nat /\ DOMAIN q = 1 .. Len(q) /\ Len(q) # 0
    BY <1>2, LenProperties, EmptySeq
  <2>2. /\ Tail(q) \in Seq(Callers) /\ Len(Tail(q)) = Len(q) - 1
        /\ \A i \in 1 .. Len(Tail(q)) : Tail(q)[i] = q[i + 1]
    BY <1>2, HeadTailProperties
  <2>3. Head(q) = q[1]
    BY <1>2
  <2>4. DOMAIN Tail(q) = 1 .. Len(Tail(q))
    BY <2>2, LenProperties
  <2>5. \A i \in DOMAIN Tail(q) : i + 1 \in DOMAIN q /\ Tail(q)[i] = q[i + 1]
    BY <2>1, <2>2, <2>4
  <2>6. Head(q) \in Elements(q)
    BY <2>1, <2>3 DEF Elements
  <2> QED BY <2>2, <2>5, <2>6 DEF Elements
<1>3. ASSUME NEW who \in Callers
      PROVE  /\ Append(q, who) \in Seq(Callers) /\ Append(q, who) # <<>>
             /\ Head(Append(q, who)) = IF q = <<>> THEN who ELSE Head(q)
             /\ Elements(Append(q, who)) = Elements(q) \cup {who}
  BY AppendProperties, HeadTailAppend, ElementsAppend
<1> QED BY <1>1, <1>2, <1>3

(* A step that leaves tasks and rows alone.                                  *)
LEMMA ConnectKeeps ==
  ASSUME PgInv, phase # "exited",
         PoolCreated \/ SchemaVerified \/ ConnectFailed,
         UNCHANGED <<phase, writtenOn, accepted>>
  PROVE  PgInv'
<1>1. PgTypeOK /\ LockInv /\ RowsInv
  BY DEF PgInv
<1>2. UNCHANGED <<pgBuffer, batch, table, dropped, ready, lock, stage>>
  BY DEF PoolCreated, SchemaVerified, ConnectFailed
<1>3. PgTypeOK'
  BY <1>1, <1>2 DEF PgTypeOK, PgTypes, PoolCreated, SchemaVerified, ConnectFailed
<1>4. RowsInv'
  BY <1>1, <1>2, RowsSame DEF PgTypeOK
<1>5. phase \notin {"stopping", "closing", "exited"}
  BY <1>1 DEF LockInv, PoolCreated, SchemaVerified, ConnectFailed
<1>6. "close" \notin Elements(lock) /\ pool \in {"none", "open"}
  BY <1>1, <1>5 DEF LockInv, PgTypeOK
<1>7. lock # <<>> => Head(lock) # "close"
  BY <1>1, <1>6, QueueFacts DEF PgTypeOK
<1>8. LockInv'
  <2>1. CASE PoolCreated
    BY <2>1, <1>1, <1>2, <1>5, <1>6, <1>7 DEF LockInv, PoolCreated
  <2>2. CASE SchemaVerified
    BY <2>2, <1>1, <1>2, <1>5, <1>6, <1>7 DEF LockInv, SchemaVerified
  <2>3. CASE ConnectFailed
    BY <2>3, <1>1, <1>2, <1>5, <1>6, <1>7 DEF LockInv, ConnectFailed
  <2> QED BY <2>1, <2>2, <2>3
<1> QED BY <1>3, <1>4, <1>8 DEF PgInv

LEMMA PoolClosedKeeps ==
  ASSUME PgInv, PoolClosed, UNCHANGED <<phase, writtenOn, accepted>>
  PROVE  PgInv'
<1>1. PgTypeOK /\ LockInv /\ RowsInv
  BY DEF PgInv
<1>2. PgTypeOK'
  BY <1>1 DEF PgTypeOK, PgTypes, PoolClosed
<1>3. RowsInv'
  BY <1>1, RowsSame DEF PgTypeOK, PoolClosed
<1>4. LockInv'
  BY <1>1 DEF LockInv, PoolClosed
<1> QED BY <1>2, <1>3, <1>4 DEF PgInv

(* A coroutine comes to the lock: a task while the writer is enabled, or     *)
(* close once nothing can be written any more.                               *)
LEMMA ArriveKeeps ==
  ASSUME PgInv, NEW who \in Callers, MayFlush, Arrive(who), ready' \in 0 .. MaxReady,
         UNCHANGED <<enabled, connecting, pool, table, dropped, writtenOn, accepted>>,
         who = "task" => phase' = phase,
         who = "close" => phase = "stopping" /\ phase' = "closing"
  PROVE  PgInv'
<1>1. PgTypeOK /\ LockInv /\ RowsInv /\ PgTypes
  BY DEF PgInv, PgTypeOK
<1>2. /\ lock' \in Seq(Callers) /\ lock' # <<>>
      /\ Head(lock') = IF lock = <<>> THEN who ELSE Head(lock)
      /\ Elements(lock') = Elements(lock) \cup {who}
      /\ lock # <<>> => Head(lock) \in Elements(lock)
      /\ lock = <<>> => Elements(lock) = {}
  BY <1>1, QueueFacts DEF Arrive, PgTypeOK
<1>3. CASE lock = <<>>
  <2>1. batch = <<>> /\ TakeBuffer
    BY <1>1, <1>3 DEF LockInv, Arrive
  <2>2. batch' = pgBuffer /\ pgBuffer' = <<>> /\ stage' = "acquire"
    BY <2>1 DEF TakeBuffer
  <2>3. RowsInv'
    BY <1>1, <2>1, RowsTaken
  <2>4. PgTypeOK'
    BY <1>1, <1>2, <2>2, EmptyRows DEF PgTypeOK, PgTypes
  <2>5. LockInv'
    BY <1>1, <1>2, <1>3, <2>2 DEF LockInv, MayFlush, Callers
  <2> QED BY <2>3, <2>4, <2>5 DEF PgInv
<1>4. CASE lock # <<>>
  <2>1. UNCHANGED <<pgBuffer, stage, batch>>
    BY <1>4 DEF Arrive
  <2>2. RowsInv'
    BY <1>1, <2>1, RowsSame
  <2>3. PgTypeOK'
    BY <1>1, <1>2, <2>1 DEF PgTypeOK, PgTypes
  <2>4. LockInv'
    BY <1>1, <1>2, <1>4, <2>1 DEF LockInv, MayFlush, Callers
  <2> QED BY <2>2, <2>3, <2>4 DEF PgInv
<1> QED BY <1>3, <1>4

LEMMA RunTaskKeeps ==
  ASSUME PgInv, RunTask, UNCHANGED <<phase, writtenOn, accepted>>
  PROVE  PgInv'
<1>1. ready' \in 0 .. MaxReady
  BY PostgresAssumption DEF PgInv, PgTypeOK, RunTask
<1>2. CASE MayFlush
  BY <1>1, <1>2, ArriveKeeps DEF RunTask, Callers
<1>3. CASE ~MayFlush
  <2>1. UNCHANGED <<enabled, connecting, pool, pgBuffer, lock, stage, batch, table, dropped>>
    BY <1>3 DEF RunTask
  <2>2. PgTypeOK' /\ LockInv'
    BY <1>1, <2>1 DEF PgInv, PgTypeOK, PgTypes, LockInv
  <2>3. RowsInv'
    BY <2>1, RowsSame DEF PgInv, PgTypeOK
  <2> QED BY <2>2, <2>3 DEF PgInv
<1> QED BY <1>2, <1>3

(* The holder leaves the lock, its batch settled.                            *)
LEMMA ReleaseKeeps ==
  ASSUME PgInv, Release, lock # <<>>,
         lock # <<>> /\ Head(lock) = "close" => pgBuffer = <<>>,
         UNCHANGED <<enabled, connecting, pgBuffer, ready, phase, writtenOn, accepted>>,
         table \subseteq table', table' \subseteq table \cup Elements(batch),
         dropped \subseteq dropped', dropped' \subseteq dropped \cup Elements(batch),
         Elements(batch) \subseteq table' \cup dropped'
  PROVE  PgInv'
<1>1. PgTypeOK /\ LockInv /\ RowsInv /\ PgTypes
  BY DEF PgInv, PgTypeOK
<1>2. /\ lock' \in Seq(Callers) /\ Elements(lock') \subseteq Elements(lock)
      /\ Head(lock) \in Elements(lock)
  BY <1>1, QueueFacts DEF Release, PgTypeOK
<1>3. batch' = <<>> /\ stage' = "none"
      /\ pool' = IF Head(lock) = "close" THEN "closing" ELSE pool
  BY DEF Release
<1>4. RowsInv'
  BY <1>1, <1>3, RowsSettled
<1>5. Elements(batch) \subseteq Nat
  <2>1. \A i \in DOMAIN batch : batch[i] \in Nat
    BY <1>1, LenProperties, ElementOfSeq DEF PgTypes
  <2> QED BY <2>1 DEF Elements
<1>6. PgTypeOK'
  BY <1>1, <1>2, <1>3, <1>5, EmptyRows DEF PgTypeOK, PgTypes
<1>7. LockInv'
  BY <1>1, <1>2, <1>3 DEF LockInv
<1> QED BY <1>4, <1>6, <1>7 DEF PgInv

LEMMA HolderKeeps ==
  ASSUME PgInv, Resume \/ Acquired \/ Inserted \/ FlushFailed,
         UNCHANGED <<phase, writtenOn, accepted>>
  PROVE  PgInv'
<1>1. PgTypeOK /\ LockInv /\ RowsInv /\ PgTypes
  BY DEF PgInv, PgTypeOK
<1>2. stage # "none" => lock # <<>> /\ (Head(lock) = "close" => pgBuffer = <<>>)
  BY <1>1 DEF LockInv
<1>3. ASSUME Resume PROVE PgInv'
  <2>1. lock # <<>> /\ stage = "none" /\ batch = <<>> /\ Elements(batch) = {}
    BY <1>1, <1>3, EmptyRows DEF Resume, LockInv
  <2>2. CASE pgBuffer = <<>>
    BY <1>3, <2>1, <2>2, ReleaseKeeps DEF Resume, ReturnEmpty
  <2>3. CASE pgBuffer # <<>>
    <3>1. /\ TakeBuffer
          /\ UNCHANGED <<lock, pool, enabled, connecting, ready, table, dropped>>
      BY <1>3, <2>3 DEF Resume
    <3>2. batch' = pgBuffer /\ pgBuffer' = <<>> /\ stage' = "acquire"
      BY <3>1 DEF TakeBuffer
    <3>3. RowsInv'
      BY <1>1, <2>1, <3>1, RowsTaken
    <3>4. PgTypeOK'
      BY <1>1, <3>1, <3>2, EmptyRows DEF PgTypeOK, PgTypes
    <3>5. LockInv'
      BY <1>1, <2>1, <3>1, <3>2 DEF LockInv
    <3> QED BY <3>3, <3>4, <3>5 DEF PgInv
  <2> QED BY <2>2, <2>3
<1>4. ASSUME Acquired PROVE PgInv'
  <2>1. PgTypeOK'
    BY <1>1, <1>4 DEF PgTypeOK, PgTypes, Acquired
  <2>2. RowsInv'
    BY <1>1, <1>4, RowsSame DEF Acquired
  <2>3. LockInv'
    BY <1>1, <1>4 DEF LockInv, Acquired
  <2> QED BY <2>1, <2>2, <2>3 DEF PgInv
<1>5. ASSUME Inserted PROVE PgInv'
  <2>1. stage # "none" /\ table' = table \cup Elements(batch) /\ dropped' = dropped
    BY <1>5 DEF Inserted
  <2> QED BY <1>2, <1>5, <2>1, ReleaseKeeps DEF Inserted
<1>6. ASSUME FlushFailed PROVE PgInv'
  <2>1. /\ stage # "none" /\ dropped' = dropped \cup Elements(batch)
        /\ table' = table \/ table' = table \cup Elements(batch)
    BY <1>6 DEF FlushFailed
  <2> QED BY <1>2, <1>6, <2>1, ReleaseKeeps DEF FlushFailed
<1> QED BY <1>3, <1>4, <1>5, <1>6

LEMMA PgStepKeeps ==
  ASSUME PgInv, PgMoves
  PROVE  PgInv'
<1>1. UNCHANGED <<phase, writtenOn, accepted>> /\ phase # "exited"
  BY DEF PgMoves, runVars
<1> QED BY <1>1, ConnectKeeps, RunTaskKeeps, HolderKeeps, PoolClosedKeeps
        DEF PgMoves, PgStep, FlushStep

-----------------------------------------------------------------------------
(* The steps of the collector.                                               *)
LEMMA PgOfTypes ==
  ASSUME TypeOK PROVE PgTypeOK
BY DEF TypeOK, PgTypeOK, PgTypes, Callers

LEMMA TradeKeeps ==
  ASSUME PgInv, TypeOK, NEW fault \in Faults, HandleTrade(fault)
  PROVE  PgInv'
<1>1. PgTypeOK /\ LockInv /\ RowsInv /\ PgTypes
  BY DEF PgInv, PgTypeOK
<1>2. phase \in {"up", "abandoned"} /\ phase' = phase /\ today \in Days
  BY DEF HandleTrade, Collecting, TypeOK
<1>3. writtenOn' \in Seq(Days \cup {0})
  <2>1. writtenOn \in Seq(Days \cup {0}) /\ today \in Days \cup {0} /\ 0 \in Days \cup {0}
    BY <1>1, <1>2 DEF PgTypes
  <2>2. /\ Append(writtenOn, 0) \in Seq(Days \cup {0})
        /\ Append(writtenOn, today) \in Seq(Days \cup {0})
    BY <2>1, AppendProperties
  <2> QED BY <2>2 DEF HandleTrade
<1>4. CASE parquet'.raised
  <2>1. writtenOn' = Append(writtenOn, 0) /\ UNCHANGED <<pgVars, accepted>>
    BY <1>4 DEF HandleTrade
  <2>2. RowsInv'
    BY <1>1, <2>1, RowsSame DEF pgVars
  <2>3. PgTypeOK' /\ LockInv'
    BY <1>1, <1>2, <1>3, <2>1 DEF PgTypeOK, PgTypes, LockInv, pgVars
  <2> QED BY <2>2, <2>3 DEF PgInv
<1>5. CASE ~parquet'.raised
  <2> DEFINE row == Len(writtenOn) + 1
  <2>1. /\ writtenOn' = Append(writtenOn, today) /\ PgWrite(row)
        /\ accepted' = IF enabled THEN accepted \cup {row} ELSE accepted
    BY <1>5 DEF HandleTrade
  <2>2. UNCHANGED <<enabled, connecting, pool, lock, stage, batch, table, dropped>>
    BY <2>1 DEF PgWrite
  <2>3. row \in Nat
    BY <1>1, LenProperties DEF PgTypes
  <2>4. CASE ~enabled
    <3>1. UNCHANGED <<pgBuffer, ready, accepted>>
      BY <2>1, <2>4 DEF PgWrite
    <3>2. RowsInv'
      BY <1>1, <1>2, <2>1, <2>2, <3>1, RowsSame
    <3>3. PgTypeOK' /\ LockInv'
      BY <1>1, <1>2, <1>3, <2>2, <3>1 DEF PgTypeOK, PgTypes, LockInv
    <3> QED BY <3>2, <3>3 DEF PgInv
  <2>5. CASE enabled
    <3>1. /\ pgBuffer' = Append(pgBuffer, row) /\ accepted' = accepted \cup {row}
          /\ ready' \in {ready, ready + 1} /\ ready' <= MaxReady
      BY <2>1, <2>5 DEF PgWrite
    <3>2. RowsInv'
      BY <1>1, <1>2, <2>1, <2>2, <3>1, RowsAppended
    <3>3. pgBuffer' \in Seq(Nat)
      BY <1>1, <2>3, <3>1, AppendProperties DEF PgTypes
    <3>4. ready' \in 0 .. MaxReady
      BY <1>1, <3>1, PostgresAssumption DEF PgTypeOK
    <3>5. PgTypeOK'
      BY <1>1, <1>3, <2>2, <2>3, <3>1, <3>3, <3>4 DEF PgTypeOK, PgTypes
    <3>6. lock # <<>> => Head(lock) # "close"
      BY <1>1, <1>2, QueueFacts DEF LockInv, PgTypeOK
    <3>7. LockInv'
      BY <1>1, <1>2, <2>2, <3>6 DEF LockInv
    <3> QED BY <3>2, <3>5, <3>7 DEF PgInv
  <2> QED BY <2>4, <2>5
<1> QED BY <1>4, <1>5

(* Steps in which the writer itself does not move.                           *)
LEMMA PgSame ==
  ASSUME PgInv, UNCHANGED <<pgVars, writtenOn, accepted>>,
         \/ phase' = phase \/ phase' = "exited"
         \/ phase = "up" /\ phase' \in {"abandoned"}
  PROVE  PgInv'
<1>1. PgTypeOK /\ LockInv /\ RowsInv /\ PgTypes
  BY DEF PgInv, PgTypeOK
<1>2. RowsInv'
  BY <1>1, RowsSame DEF pgVars
<1>3. PgTypeOK' /\ LockInv'
  BY <1>1 DEF PgTypeOK, PgTypes, LockInv, pgVars
<1> QED BY <1>2, <1>3 DEF PgInv

LEMMA StopKeeps ==
  ASSUME PgInv, Stop
  PROVE  PgInv'
<1>1. PgTypeOK /\ LockInv /\ RowsInv /\ PgTypes
  BY DEF PgInv, PgTypeOK
<1>2. /\ UNCHANGED <<enabled, pool, pgBuffer, ready, lock, stage, batch, table, dropped>>
      /\ UNCHANGED <<writtenOn, accepted>>
      /\ connecting' = "over" /\ phase = "up" /\ phase' = "stopping"
  BY DEF Stop, ConnectCancelled
<1>3. RowsInv'
  BY <1>1, <1>2, RowsSame
<1>4. PgTypeOK' /\ LockInv'
  BY <1>1, <1>2 DEF PgTypeOK, PgTypes, LockInv
<1> QED BY <1>3, <1>4 DEF PgInv

LEMMA CloseKeeps ==
  ASSUME PgInv, NEW fault \in Faults, CloseAsync(fault)
  PROVE  PgInv'
<1>1. PgTypeOK /\ LockInv /\ RowsInv /\ PgTypes
  BY DEF PgInv, PgTypeOK
<1>2. phase = "stopping" /\ UNCHANGED <<writtenOn, accepted>>
  BY DEF CloseAsync
<1>3. CASE parquet'.raised
  BY <1>2, <1>3, PgSame DEF CloseAsync
<1>4. CASE ~parquet'.raised
  <2>1. phase' = "closing" /\ PgClose
    BY <1>4 DEF CloseAsync
  <2>2. UNCHANGED <<enabled, connecting, ready, table, dropped>>
    BY <2>1 DEF PgClose
  <2>3. CASE MayFlush
    <3>1. Arrive("close") /\ pool' = pool
      BY <2>1, <2>3 DEF PgClose
    <3>2. ready' \in 0 .. MaxReady
      BY <1>1, <2>2 DEF PgTypeOK
    <3> QED BY <1>2, <2>1, <2>2, <2>3, <3>1, <3>2, ArriveKeeps DEF Callers
  <2>4. CASE ~MayFlush
    <3>1. /\ pool' = IF pool = "open" THEN "closing" ELSE pool
          /\ UNCHANGED <<pgBuffer, lock, stage, batch>>
      BY <2>1, <2>4 DEF PgClose
    <3>2. pool = "open" => pgBuffer = <<>> /\ enabled
      BY <1>1, <2>4 DEF MayFlush, LockInv
    <3>3. RowsInv'
      BY <1>1, <1>2, <2>2, <3>1, RowsSame
    <3>4. PgTypeOK'
      BY <1>1, <1>2, <2>2, <3>1 DEF PgTypeOK, PgTypes
    <3>5. LockInv'
      BY <1>1, <1>2, <2>1, <2>2, <3>1, <3>2 DEF LockInv
    <3> QED BY <3>3, <3>4, <3>5 DEF PgInv
  <2> QED BY <2>3, <2>4
<1> QED BY <1>3, <1>4

LEMMA RestartKeeps ==
  ASSUME PgInv, Restart
  PROVE  PgInv'
<1>1. PgTypeOK /\ RowsInv /\ PgTypes
  BY DEF PgInv, PgTypeOK
<1>2. /\ enabled' = TRUE /\ connecting' = "pool" /\ pool' = "none"
      /\ pgBuffer' = <<>> /\ ready' = 0
      /\ lock' = <<>> /\ stage' = "none" /\ batch' = <<>>
      /\ dropped' = {} /\ table' = table /\ accepted' = {}
      /\ writtenOn' = writtenOn /\ phase' = "up"
  BY DEF Restart, PgRestart
<1>3. /\ batch' \o pgBuffer' = <<>> /\ Elements(<<>>) = {} /\ Rising(<<>>)
      /\ <<>> \in Seq(Nat) /\ <<>> \in Seq(Callers)
  BY <1>2, EmptyRows DEF Rising
<1>4. BatchesInOrder'
  BY <1>2, <1>3 DEF BatchesInOrder
<1>5. RowsInv'
  BY <1>1, <1>2, <1>3, <1>4 DEF RowsInv
<1>6. PgTypeOK'
  BY <1>1, <1>2, <1>3, PostgresAssumption DEF PgTypeOK, PgTypes
<1>7. LockInv'
  BY <1>2, <1>3 DEF LockInv
<1> QED BY <1>5, <1>6, <1>7 DEF PgInv

-----------------------------------------------------------------------------
(* The run: its phase, the date and the faults so far.                       *)
RunTypeOK ==
  /\ phase \in {"up", "abandoned", "stopping", "closing", "exited"}
  /\ today \in Days
  /\ restarts \in 0 .. MaxRestarts /\ diskErrors \in 0 .. MaxDiskErrors
  /\ unopened \subseteq Days

LEMMA ErrorsCounted ==
  ASSUME TypeOK, NEW fault \in Faults, DiskMay(fault), parquet'.raised => fault # "none"
  PROVE  diskErrors' \in 0 .. MaxDiskErrors
BY StorageAssumption DEF DiskMay, TypeOK

LEMMA RunTypes ==
  ASSUME TypeOK, FilesInv, [Next]_storageVars
  PROVE  RunTypeOK'
<1>1. RunTypeOK /\ writtenOn \in Seq(Days \cup {0})
  BY DEF TypeOK, RunTypeOK
<1>2. ASSUME NEW fault \in Faults, HandleTrade(fault) PROVE RunTypeOK'
  <2>1. /\ Filed(parquet, writtenOn, unopened) /\ parquet.date <= today /\ today \in Days
        /\ Tracked(parquet, unopened) /\ unopened \subseteq Days
    BY <1>1, <1>2 DEF FilesInv, HandleTrade, Collecting, RunTypeOK
  <2>2. parquet'.raised => fault # "none"
    BY <1>1, <1>2, <2>1, WriteSound DEF HandleTrade
  <2>3. diskErrors' \in 0 .. MaxDiskErrors
    BY <1>2, <2>2, ErrorsCounted DEF HandleTrade
  <2> QED BY <1>1, <1>2, <2>3 DEF HandleTrade, RunTypeOK
<1>3. ASSUME NEW fault \in Faults, Heartbeat(fault) PROVE RunTypeOK'
  <2>1. Filed(Called(parquet), writtenOn, unopened) /\ ~Called(parquet).raised
    BY CalledSound DEF FilesInv
  <2>2. parquet' = FlushBuffer(Called(parquet), fault)
    BY <1>3 DEF Heartbeat, FlushNow, Called
  <2>3. parquet'.raised => fault # "none"
    BY <2>1, <2>2, FlushSound
  <2>4. diskErrors' \in 0 .. MaxDiskErrors
    BY <1>3, <2>3, ErrorsCounted DEF Heartbeat
  <2> QED BY <1>1, <1>3, <2>4 DEF Heartbeat, RunTypeOK
<1>4. ASSUME NEW fault \in Faults, CloseAsync(fault) PROVE RunTypeOK'
  <2>1. Filed(Called(parquet), writtenOn, unopened) /\ ~Called(parquet).raised
    BY CalledSound DEF FilesInv
  <2>2. parquet' = CloseWriter(Called(parquet), fault)
    BY <1>4 DEF CloseAsync, Close, Called
  <2>3. parquet'.raised => fault # "none"
    BY <2>1, <2>2, CloseSound
  <2>4. diskErrors' \in 0 .. MaxDiskErrors
    BY <1>4, <2>3, ErrorsCounted DEF CloseAsync
  <2> QED BY <1>1, <1>4, <2>4 DEF CloseAsync, RunTypeOK
<1>5. CASE Midnight
  BY <1>1, <1>5, ParquetAssumption DEF Midnight, RunTypeOK, Days
<1>6. CASE Stop \/ Exit \/ Die
  BY <1>1, <1>6 DEF Stop, Exit, Die, RunTypeOK
<1>7. CASE Restart
  BY <1>1, <1>7, StorageAssumption DEF Restart, RunTypeOK
<1>8. CASE PgMoves \/ UNCHANGED storageVars
  BY <1>1, <1>8 DEF PgMoves, storageVars, runVars, RunTypeOK
<1> QED BY <1>2, <1>3, <1>4, <1>5, <1>6, <1>7, <1>8 DEF Next

LEMMA FilesKeep ==
  ASSUME TypeOK, FilesInv, [Next]_storageVars
  PROVE  FilesInv'
<1>1. ASSUME NEW fault \in Faults, HandleTrade(fault) \/ Heartbeat(fault) \/ CloseAsync(fault)
      PROVE  FilesInv'
  BY <1>1, TradeFiles, HeartbeatFiles, CloseFiles
<1>2. CASE Restart
  BY <1>2, RestartFiles
<1>3. CASE Midnight \/ Stop \/ Exit \/ Die
  BY <1>3, FilesSame DEF Midnight, Stop, Exit, Die
<1>4. CASE PgMoves \/ UNCHANGED storageVars
  BY <1>4, FilesSame DEF PgMoves, storageVars, runVars
<1> QED BY <1>1, <1>2, <1>3, <1>4 DEF Next

LEMMA PgKeeps ==
  ASSUME TypeOK, PgInv, [Next]_storageVars
  PROVE  PgInv'
<1>1. ASSUME NEW fault \in Faults, HandleTrade(fault) PROVE PgInv'
  BY <1>1, TradeKeeps
<1>2. ASSUME NEW fault \in Faults, Heartbeat(fault) PROVE PgInv'
  BY <1>2, PgSame DEF Heartbeat
<1>3. ASSUME NEW fault \in Faults, CloseAsync(fault) PROVE PgInv'
  BY <1>3, CloseKeeps
<1>4. CASE Stop
  BY <1>4, StopKeeps
<1>5. CASE Restart
  BY <1>5, RestartKeeps
<1>6. CASE Midnight \/ Exit \/ Die
  BY <1>6, PgSame DEF Midnight, Exit, Die
<1>7. CASE PgMoves
  BY <1>7, PgStepKeeps
<1>8. CASE UNCHANGED storageVars
  BY <1>8, PgSame DEF storageVars, runVars
<1> QED BY <1>1, <1>2, <1>3, <1>4, <1>5, <1>6, <1>7, <1>8 DEF Next

LEMMA Initially == Init => IInv
<1> SUFFICES ASSUME Init PROVE IInv
  OBVIOUS
<1> DEFINE files == [d \in Days |-> EmptyFile]
<1>1. /\ files \in [Days -> Files]
      /\ \A d \in Days : files[d] = EmptyFile /\ DayRows(files[d].rows, d, writtenOn, unopened)
  <2>1. EmptyFile \in Files /\ EmptyFile.rows = <<>>
    BY EmptyFileFields
  <2>2. files \in [Days -> Files] /\ \A d \in Days : files[d] = EmptyFile
    BY <2>1
  <2> QED BY <2>1, <2>2, EmptyRows
<1>2. parquet = NewWriter(files)
  BY DEF Init
<1> HIDE DEF files
<1>3. Filed(parquet, writtenOn, unopened) /\ parquet.date = 0 /\ parquet.files = files /\ ~parquet.open
  BY <1>1, <1>2, NewWriterSound
<1>4. /\ enabled = TRUE /\ connecting = "pool" /\ pool = "none"
      /\ pgBuffer = <<>> /\ ready = 0
      /\ lock = <<>> /\ stage = "none" /\ batch = <<>>
      /\ table = {} /\ dropped = {} /\ accepted = {}
      /\ phase = "up" /\ today = 1 /\ writtenOn = <<>>
      /\ restarts = 0 /\ diskErrors = 0 /\ unopened = {}
  BY DEF Init, PgInit
<1>5. 1 \in Days /\ \A d \in Days : d >= 1
  BY ParquetAssumption DEF Days
<1>6. DOMAIN writtenOn = {} /\ writtenOn \in Seq(Days \cup {0})
  BY <1>4, EmptySeq
<1>7. FilesInv
  BY <1>1, <1>3, <1>4, <1>5, <1>6 DEF FilesInv, Fresh, Complete, Tracked
<1>8. LockInv
  BY <1>4, EmptyRows DEF LockInv
<1>9. batch \o pgBuffer = <<>> /\ Elements(<<>>) = {} /\ Rising(<<>>)
  BY <1>4, EmptyRows DEF Rising
<1>10. RowsInv
  BY <1>4, <1>9 DEF RowsInv, BatchesInOrder
<1>11. <<>> \in Seq(Nat) /\ <<>> \in Seq({"task", "close"})
  BY EmptySeq
<1>12. TypeOK
  BY <1>3, <1>4, <1>5, <1>6, <1>11, PostgresAssumption, StorageAssumption
     DEF TypeOK, Filed
<1> QED BY <1>7, <1>8, <1>10, <1>12 DEF IInv

LEMMA Inductive == IInv /\ [Next]_storageVars => IInv'
<1> SUFFICES ASSUME IInv, [Next]_storageVars PROVE IInv'
  OBVIOUS
<1>1. TypeOK /\ FilesInv /\ PgInv
  BY PgOfTypes DEF IInv, PgInv
<1>2. FilesInv' /\ PgInv' /\ RunTypeOK'
  BY <1>1, FilesKeep, PgKeeps, RunTypes
<1>3. TypeOK'
  BY <1>2 DEF PgInv, PgTypeOK, PgTypes, RunTypeOK, FilesInv, Filed, TypeOK, Callers
<1> QED BY <1>2, <1>3 DEF IInv, PgInv

LEMMA Invariance == Spec => []IInv
BY Initially, Inductive, PTL DEF Spec

(* Writer, pool, lock and run keep their types: no flush task runs that      *)
(* write did not start, no disk error is counted that the disk did not make. *)
THEOREM TypeCorrect == Spec => []TypeOK
<1>1. IInv => TypeOK
  BY DEF IInv
<1> QED BY <1>1, Invariance, PTL

(* Across any number of midnights, flushes, disk errors and restarts, the    *)
(* rows of a day's file are in order and were taken on that day, but for     *)
(* those of an earlier day whose own file could not be opened; with no such  *)
(* day, each row is in its day's file (parquet_writer.py:172-191).           *)
THEOREM RowsFiledByDay == Spec => []RowsOnTheirDay
<1>1. IInv => RowsOnTheirDay
  <2> SUFFICES ASSUME IInv PROVE RowsOnTheirDay
    OBVIOUS
  <2>1. Filed(parquet, writtenOn, unopened)
    BY DEF IInv, FilesInv
  <2>2. ASSUME NEW rows, NEW d, DayRows(rows, d, writtenOn, unopened)
        PROVE  /\ Rising(rows)
               /\ \A row \in Elements(rows) :
                    writtenOn[row] = d \/ (writtenOn[row] < d /\ writtenOn[row] \in unopened)
    BY <2>2 DEF DayRows, Elements
  <2>3. ~parquet.open => \A row \in Elements(parquet.buffer) : writtenOn[row] \in unopened
    BY <2>1 DEF Filed, Elements
  <2> QED BY <2>1, <2>2, <2>3 DEF Filed, RowsOnTheirDay
<1> QED BY <1>1, Invariance, PTL

(* A clean close, with no disk error and no process before, leaves every     *)
(* trade in the readable file of its day (parquet_writer.py:116-121).        *)
THEOREM CleanCloseComplete == Spec => []CleanCloseKeepsAll
<1>1. IInv => CleanCloseKeepsAll
  <2> SUFFICES ASSUME IInv, phase = "closing", diskErrors = 0, restarts = 0,
                      NEW row \in DOMAIN writtenOn
               PROVE  row \in ReadableRows(writtenOn[row])
    BY DEF CleanCloseKeepsAll
  <2>1. Complete(parquet, writtenOn) /\ ~parquet.open
    BY DEF IInv, FilesInv
  <2>2. /\ row \in Elements(parquet.files[writtenOn[row]].rows)
        /\ parquet.files[writtenOn[row]].readable
    BY <2>1 DEF Complete
  <2> QED BY <2>2 DEF ReadableRows, Elements
<1> QED BY <1>1, Invariance, PTL

(* Batches reach the server in the order of the trades, and no row is in two *)
(* places, however many flush tasks wait at the lock, whichever inserts fail *)
(* (postgres_writer.py:145-172).                                             *)
THEOREM BatchesOrdered == Spec => []BatchesInOrder
<1>1. IInv => BatchesInOrder
  BY DEF IInv, RowsInv
<1> QED BY <1>1, Invariance, PTL

(* Once the pool is closed every accepted row is in the table, given up, or  *)
(* in one batch still without a connection (postgres_writer.py:174-182).     *)
THEOREM ClosedPoolAccounted == Spec => []ClosedPoolLeavesNothing
<1>1. IInv => ClosedPoolLeavesNothing
  <2> SUFFICES ASSUME IInv, pool = "closed" PROVE ClosedPoolLeavesNothing
    BY DEF ClosedPoolLeavesNothing
  <2>1. pgBuffer = <<>> /\ Elements(pgBuffer) = {}
    BY EmptyRows DEF IInv, LockInv
  <2>2. accepted = (table \cap accepted) \cup dropped \cup Elements(batch)
    BY <2>1 DEF IInv, RowsInv
  <2>3. batch # <<>> => stage = "acquire"
    BY DEF IInv, LockInv, TypeOK
  <2> QED BY <2>1, <2>2, <2>3 DEF ClosedPoolLeavesNothing
<1> QED BY <1>1, Invariance, PTL

(* A readable file loses rows only to a process started later on its day     *)
(* (parquet_writer.py:182-191).                                              *)
THEOREM OnlyRestartTruncates == Spec => ReadableRowsStay
<1> DEFINE Stays == \A d \in Days :
       parquet.files[d].readable /\ parquet'.files[d] # parquet.files[d]
         => d = today /\ restarts > 0 /\ parquet.date # d
<1>1. ASSUME IInv, [Next]_storageVars PROVE [Stays]_storageVars
  <2> SUFFICES ASSUME NEW d \in Days, parquet.files[d].readable,
                      parquet'.files[d] # parquet.files[d]
               PROVE  d = today /\ restarts > 0 /\ parquet.date # d
    OBVIOUS
  <2>1. FilesInv /\ Filed(parquet, writtenOn, unopened) /\ writtenOn \in Seq(Days \cup {0})
    BY <1>1 DEF IInv, FilesInv, TypeOK
  <2>2. /\ Filed(Called(parquet), writtenOn, unopened) /\ ~Called(parquet).raised
        /\ Called(parquet).files = parquet.files
    BY <2>1, CalledSound
  <2>3. ASSUME NEW fault \in Faults, HandleTrade(fault)
        PROVE  d = today /\ restarts > 0 /\ parquet.date # d
    <3>1. /\ parquet.date <= today /\ Tracked(parquet, unopened)
          /\ today \in Days /\ unopened \subseteq Days
      BY <1>1, <2>1, <2>3 DEF IInv, TypeOK, FilesInv, HandleTrade, Collecting
    <3>2. WriteWell(parquet, parquet', writtenOn, unopened, today)
      BY <2>1, <2>3, <3>1, WriteSound DEF HandleTrade
    <3>3. d = today /\ parquet.date # d /\ ~Fresh(parquet)
      BY <3>2 DEF WriteWell
    <3>4. restarts # 0 /\ restarts \in Nat
      BY <1>1, <2>1, <3>3, StorageAssumption DEF FilesInv, IInv, TypeOK
    <3> QED BY <3>3, <3>4
  <2>4. ASSUME NEW fault \in Faults, Heartbeat(fault) PROVE FALSE
    <3>1. parquet' = FlushBuffer(Called(parquet), fault)
      BY <2>4 DEF Heartbeat, FlushNow, Called
    <3> QED BY <2>2, <3>1, FlushSound
  <2>5. ASSUME NEW fault \in Faults, CloseAsync(fault) PROVE FALSE
    <3>1. parquet' = CloseWriter(Called(parquet), fault)
      BY <2>5 DEF CloseAsync, Close, Called
    <3> QED BY <2>2, <3>1, CloseSound
  <2>6. parquet.files \in [Days -> Files]
    BY <2>1, WriterFields DEF Filed
  <2>7. CASE Restart
    BY <2>7, <2>6 DEF Restart, NewWriter
  <2>8. CASE Midnight \/ Stop \/ Exit \/ Die \/ PgMoves \/ UNCHANGED storageVars
    BY <2>8 DEF Midnight, Stop, Exit, Die, PgMoves, storageVars
  <2> QED BY <1>1, <2>3, <2>4, <2>5, <2>7, <2>8 DEF Next
<1> QED BY <1>1, Invariance, PTL DEF Spec, ReadableRowsStay
=============================================================================
