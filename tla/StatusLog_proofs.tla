-------------------------- MODULE StatusLog_proofs --------------------------
(***************************************************************************)
(* Proofs about StatusLog, for any number of processes and any columns.    *)
(*                                                                         *)
(* Of the pieces of the file alone nothing inductive can be said, since a  *)
(* record may be there in part.  What is always complete is the file with  *)
(* what the process inside the lock has still to write after it.           *)
(***************************************************************************)
EXTENDS StatusLog, SequenceTheorems, TLAPS

Columns == (SUBSET Keys) \ {{}}
Piece   == [line : {"header", "row"}, columns : Columns, part : 1..2]
Places  == {"down", "refused", "idle", "open", "stat", "write", "unlock"}
Writer  == [pc : Places, columns : SUBSET Keys, out : Seq(Piece)]

-----------------------------------------------------------------------------
(* The invariant. *)

\* Inside the lock.
Inside(p) == proc[p].pc \in {"stat", "write", "unlock"}
Writes(p) == proc[p].pc = "write"

TypesInv ==
    /\ file \in Seq(Piece)
    /\ lock \in Processes \cup {Nobody}
    /\ proc \in [Processes -> Writer]
    /\ \A p \in Processes :
          proc[p].pc \in {"open", "stat"} =>
             proc[p].columns # {} /\ proc[p].out = Line("row", proc[p].columns)

LockInv == \A p \in Processes : Inside(p) <=> lock = p

\* Every first piece is followed by its second one.
Complete(f) ==
    \A i \in 1..Len(f) :
       /\ f[i].part = 1 => i < Len(f) /\ f[i + 1].part = 2
       /\ f[i].part = 2 => i > 1 /\ f[i - 1] = [f[i] EXCEPT !.part = 1]

\* A header is at the beginning and nowhere else.
Headed(f) == \A i \in 1..Len(f) : f[i].line = "header" <=> i \in 1..2

Good(f) == Complete(f) /\ Headed(f)

FileInv ==
    /\ \A p \in Processes : Writes(p) => Good(file \o proc[p].out)
    /\ (\A p \in Processes : ~Writes(p)) => Good(file)

LogInv == TypesInv /\ LockInv /\ (setting.faults = {} => FileInv)

-----------------------------------------------------------------------------
(* Lines *)

LEMMA LineFacts ==
  ASSUME NEW kind \in {"header", "row"}, NEW columns \in Columns
  PROVE  /\ Line(kind, columns) \in Seq(Piece)
         /\ Len(Line(kind, columns)) = 2
         /\ \A i \in 1..2 : Line(kind, columns)[i] = [line |-> kind, columns |-> columns, part |-> i]
  <1>1. \A i \in 1..2 : [line |-> kind, columns |-> columns, part |-> i] \in Piece
    BY DEF Piece
  <1>2. Line(kind, columns) \in [1..2 -> Piece]
    BY <1>1 DEF Line
  <1>3. Line(kind, columns) \in Seq(Piece)
    <2>1. 2 \in Nat
      OBVIOUS
    <2>2. Line(kind, columns) \in UNION {[1..n -> Piece] : n \in Nat}
      BY <1>2, <2>1, Zenon
    <2> QED BY <2>2, SeqDef, Zenon
  <1>4. DOMAIN Line(kind, columns) = 1..2
    BY DEF Line
  <1>5. Len(Line(kind, columns)) = 2
    BY <1>3, <1>4, LenProperties
  <1> QED BY <1>3, <1>5 DEF Line

LEMMA ConcatFacts ==
  ASSUME NEW f \in Seq(Piece), NEW g \in Seq(Piece)
  PROVE  /\ f \o g \in Seq(Piece)
         /\ Len(f \o g) = Len(f) + Len(g)
         /\ \A i \in 1..Len(f) : (f \o g)[i] = f[i]
         /\ \A i \in 1..Len(g) : (f \o g)[Len(f) + i] = g[i]
  BY ConcatProperties

LEMMA LineComplete ==
  ASSUME NEW kind \in {"header", "row"}, NEW columns \in Columns
  PROVE  Complete(Line(kind, columns))
  <1> DEFINE l == Line(kind, columns)
             first == [line |-> kind, columns |-> columns, part |-> 1]
             second == [line |-> kind, columns |-> columns, part |-> 2]
  <1>1. Len(l) = 2 /\ l[1] = first /\ l[2] = second
    BY LineFacts
  <1>2. first = [second EXCEPT !.part = 1] /\ first.part = 1 /\ second.part = 2
    OBVIOUS
  <1> HIDE DEF l, first, second
  <1>3. l[1] = [l[2] EXCEPT !.part = 1]
    BY <1>1, <1>2
  <1>4. l[1].part = 1 /\ l[2].part = 2
    BY <1>1, <1>2
  <1>5. ASSUME NEW i \in 1..Len(l)
        PROVE  /\ l[i].part = 1 => i < Len(l) /\ l[i + 1].part = 2
               /\ l[i].part = 2 => i > 1 /\ l[i - 1] = [l[i] EXCEPT !.part = 1]
    <2>1. CASE i = 1
      BY <1>1, <1>4, <2>1
    <2>2. CASE i = 2
      BY <1>1, <1>3, <1>4, <2>2
    <2> QED BY <1>1, <2>1, <2>2
  <1> QED BY <1>5 DEF Complete, l

LEMMA ConcatComplete ==
  ASSUME NEW f \in Seq(Piece), NEW g \in Seq(Piece), Complete(f), Complete(g)
  PROVE  Complete(f \o g)
  <1> DEFINE h == f \o g
  <1>1. /\ h \in Seq(Piece) /\ Len(h) = Len(f) + Len(g)
        /\ \A i \in 1..Len(f) : h[i] = f[i]
        /\ \A i \in 1..Len(g) : h[Len(f) + i] = g[i]
    BY ConcatFacts
  <1> HIDE DEF h
  <1> SUFFICES ASSUME NEW i \in 1..Len(h)
               PROVE  /\ h[i].part = 1 => i < Len(h) /\ h[i + 1].part = 2
                      /\ h[i].part = 2 => i > 1 /\ h[i - 1] = [h[i] EXCEPT !.part = 1]
    BY DEF Complete, h
  <1>2. CASE i <= Len(f)
    <2>1. i \in 1..Len(f) /\ h[i] = f[i]
      BY <1>1, <1>2
    <2>2. f[i].part = 1 => i < Len(f) /\ f[i + 1].part = 2
      BY <2>1 DEF Complete
    <2>3. f[i].part = 2 => i > 1 /\ f[i - 1] = [f[i] EXCEPT !.part = 1]
      BY <2>1 DEF Complete
    <2>4. i < Len(f) => i + 1 \in 1..Len(f) /\ h[i + 1] = f[i + 1]
      BY <1>1, <2>1
    <2>5. i > 1 => i - 1 \in 1..Len(f) /\ h[i - 1] = f[i - 1]
      <3> SUFFICES ASSUME i > 1 PROVE i - 1 \in 1..Len(f) /\ h[i - 1] = f[i - 1]
        OBVIOUS
      <3>1. i - 1 \in 1..Len(f)
        BY <2>1, LenProperties
      <3> QED BY <1>1, <3>1
    <2> QED BY <1>1, <2>1, <2>2, <2>3, <2>4, <2>5
  <1>3. CASE i > Len(f)
    <2> DEFINE j == i - Len(f)
    <2>1. j \in 1..Len(g) /\ h[i] = g[j]
      <3>1. j \in 1..Len(g) /\ Len(f) + j = i
        BY <1>1, <1>3, LenProperties
      <3> HIDE DEF j
      <3>2. h[Len(f) + j] = g[j]
        BY <1>1, <3>1
      <3> QED BY <3>1, <3>2
    <2>2. g[j].part = 1 => j < Len(g) /\ g[j + 1].part = 2
      BY <2>1 DEF Complete
    <2>3. g[j].part = 2 => j > 1 /\ g[j - 1] = [g[j] EXCEPT !.part = 1]
      BY <2>1 DEF Complete
    <2>4. j < Len(g) => h[i + 1] = g[j + 1]
      <3> SUFFICES ASSUME j < Len(g) PROVE h[i + 1] = g[j + 1]
        OBVIOUS
      <3>1. j + 1 \in 1..Len(g) /\ Len(f) + (j + 1) = i + 1
        BY <2>1, LenProperties
      <3>2. h[Len(f) + (j + 1)] = g[j + 1]
        BY <1>1, <3>1, Zenon
      <3> QED BY <3>1, <3>2
    <2>5. j > 1 => h[i - 1] = g[j - 1]
      <3> SUFFICES ASSUME j > 1 PROVE h[i - 1] = g[j - 1]
        OBVIOUS
      <3>1. j - 1 \in 1..Len(g) /\ Len(f) + (j - 1) = i - 1
        BY <2>1, LenProperties
      <3>2. h[Len(f) + (j - 1)] = g[j - 1]
        BY <1>1, <3>1, Zenon
      <3> QED BY <3>1, <3>2
    <2>6. h[i].part = 1 => i < Len(h) /\ h[i + 1].part = 2
      BY <1>1, <2>1, <2>2, <2>4
    <2>7. h[i].part = 2 => i > 1 /\ h[i - 1] = [h[i] EXCEPT !.part = 1]
      <3> SUFFICES ASSUME h[i].part = 2 PROVE i > 1 /\ h[i - 1] = [h[i] EXCEPT !.part = 1]
        OBVIOUS
      <3>1. j > 1 /\ g[j - 1] = [g[j] EXCEPT !.part = 1]
        BY <2>1, <2>3
      <3>2. i > 1
        BY <1>3, <3>1, LenProperties
      <3> QED BY <2>1, <2>5, <3>1, <3>2
    <2> QED BY <2>6, <2>7
  <1> QED BY <1>1, <1>2, <1>3

\* The first row brings its header with it, the others follow one.
LEMMA RowGood ==
  ASSUME NEW f \in Seq(Piece), Good(f), NEW columns \in Columns
  PROVE  LET out == (IF f = <<>> THEN Line("header", columns) ELSE <<>>) \o Line("row", columns)
         IN  out \in Seq(Piece) /\ out # <<>> /\ Good(f \o out)
  <1> DEFINE row == Line("row", columns)
             header == Line("header", columns)
  <1>1. /\ row \in Seq(Piece) /\ Len(row) = 2 /\ Complete(row)
        /\ \A i \in 1..2 : row[i].line = "row"
    <2>1. "row" \in {"header", "row"}
      OBVIOUS
    <2>2. \A i \in 1..2 : row[i] = [line |-> "row", columns |-> columns, part |-> i]
      BY <2>1, LineFacts
    <2>3. row \in Seq(Piece) /\ Len(row) = 2 /\ Complete(row)
      BY <2>1, LineFacts, LineComplete
    <2> HIDE DEF row
    <2> QED BY <2>2, <2>3
  <1>2. /\ header \in Seq(Piece) /\ Len(header) = 2 /\ Complete(header)
        /\ \A i \in 1..2 : header[i].line = "header"
    <2>1. "header" \in {"header", "row"}
      OBVIOUS
    <2>2. \A i \in 1..2 : header[i] = [line |-> "header", columns |-> columns, part |-> i]
      BY <2>1, LineFacts
    <2>3. header \in Seq(Piece) /\ Len(header) = 2 /\ Complete(header)
      BY <2>1, LineFacts, LineComplete
    <2> HIDE DEF header
    <2> QED BY <2>2, <2>3
  <1> HIDE DEF row, header
  <1>3. CASE f = <<>>
    <2> DEFINE out == header \o row
    <2>1. /\ out \in Seq(Piece) /\ Len(out) = Len(header) + Len(row)
          /\ \A i \in 1..Len(header) : out[i] = header[i]
          /\ \A i \in 1..Len(row) : out[Len(header) + i] = row[i]
      <3>1. header \in Seq(Piece) /\ row \in Seq(Piece)
        BY <1>1, <1>2
      <3> QED BY <3>1, ConcatFacts
    <2>2. Complete(out)
      BY <1>1, <1>2, ConcatComplete
    <2> HIDE DEF out
    <2>3. Len(out) = 4 /\ \A i \in 1..2 : out[i].line = "header" /\ out[2 + i].line = "row"
      BY <1>1, <1>2, <2>1
    <2>4. out # <<>> /\ f \o out = out
      BY <1>3, <2>1, <2>3
    <2>5. Headed(out)
      <3>1. \A i \in 3..4 : i - 2 \in 1..2 /\ i = 2 + (i - 2)
        OBVIOUS
      <3>2. \A i \in 3..4 : out[i].line = "row"
        BY <2>3, <3>1
      <3> QED BY <2>3, <3>2 DEF Headed
    <2> QED BY <1>3, <2>1, <2>2, <2>4, <2>5 DEF Good, out, row, header
  <1>4. CASE f # <<>>
    <2>1. <<>> \o row = row
      BY <1>1
    <2>2. Len(f) >= 2
      <3>1. Len(f) >= 1 /\ 1 \in 1..Len(f) /\ f[1] \in Piece
        BY <1>4, LenProperties
      <3>2. f[1].part = 1 => 1 < Len(f)
        BY <3>1 DEF Good, Complete
      <3>3. f[1].part # 2
        <4>1. f[1].part = 2 => 1 > 1
          BY <3>1, Zenon DEF Good, Complete
        <4> QED BY <4>1
      <3> QED BY <3>1, <3>2, <3>3, LenProperties DEF Piece
    <2> DEFINE g == f \o row
    <2>3. /\ g \in Seq(Piece) /\ Complete(g) /\ Len(g) = Len(f) + 2
          /\ \A i \in 1..Len(f) : g[i] = f[i]
          /\ \A i \in 1..2 : g[Len(f) + i] = row[i]
      BY <1>1, ConcatComplete, ConcatFacts DEF Good
    <2> HIDE DEF g
    <2>4. Headed(g)
      <3> SUFFICES ASSUME NEW i \in 1..Len(g) PROVE g[i].line = "header" <=> i \in 1..2
        BY DEF Headed
      <3>1. CASE i <= Len(f)
        BY <2>3, <3>1 DEF Good, Headed
      <3>2. CASE i > Len(f)
        <4>1. i - Len(f) \in 1..2 /\ g[i] = row[i - Len(f)]
          BY <2>3, <3>2
        <4> QED BY <1>1, <2>2, <3>2, <4>1
      <3> QED BY <3>1, <3>2, <2>3
    <2> QED BY <1>1, <1>4, <2>1, <2>3, <2>4 DEF Good, g, row
  <1> QED BY <1>3, <1>4

-----------------------------------------------------------------------------
(* A call of write *)

LEMMA SplitFacts ==
  ASSUME NEW f \in Seq(Piece), NEW g \in Seq(Piece), NEW n \in 1..Len(g)
  PROVE  /\ SubSeq(g, 1, n) \in Seq(Piece)
         /\ SubSeq(g, n + 1, Len(g)) \in Seq(Piece)
         /\ n < Len(g) => SubSeq(g, n + 1, Len(g)) # <<>>
         /\ (f \o SubSeq(g, 1, n)) \o SubSeq(g, n + 1, Len(g)) = f \o g
         /\ n = Len(g) => f \o SubSeq(g, 1, n) = f \o g
  <1> DEFINE a == SubSeq(g, 1, n)
             b == SubSeq(g, n + 1, Len(g))
             c == f \o a
  <1>1. /\ Len(g) \in Nat /\ Len(f) \in Nat /\ n \in Nat
        /\ \A i \in 1..Len(g) : g[i] \in Piece
    BY LenProperties
  <1>2. /\ a \in Seq(Piece) /\ Len(a) = n
        /\ \A i \in 1..n : a[i] = g[i]
    BY <1>1, SubSeqProperties
  <1>3. b \in Seq(Piece) /\ Len(b) = Len(g) - n
    BY <1>1, SubSeqProperties
  <1>4. \A i \in 1..(Len(g) - n) : b[i] = g[n + i]
    BY <1>1, SubSeqProperties
  <1> HIDE DEF a, b
  <1>5. /\ c \in Seq(Piece) /\ Len(c) = Len(f) + n
        /\ \A i \in 1..Len(f) : c[i] = f[i]
        /\ \A i \in 1..n : c[Len(f) + i] = g[i]
    BY <1>2, ConcatFacts
  <1> HIDE DEF c
  <1>6. c \o b = f \o g
    <2> DEFINE d == c \o b
               e == f \o g
    <2>1. /\ d \in Seq(Piece) /\ Len(d) = Len(c) + Len(b)
          /\ \A i \in 1..Len(c) : d[i] = c[i]
          /\ \A i \in 1..Len(b) : d[Len(c) + i] = b[i]
      BY <1>3, <1>5, ConcatFacts
    <2>2. /\ e \in Seq(Piece) /\ Len(e) = Len(f) + Len(g)
          /\ \A i \in 1..Len(f) : e[i] = f[i]
          /\ \A i \in 1..Len(g) : e[Len(f) + i] = g[i]
      BY ConcatFacts
    <2> HIDE DEF d, e
    <2>3. Len(d) = Len(e)
      BY <1>1, <1>3, <1>5, <2>1, <2>2
    <2>4. ASSUME NEW i \in 1..Len(d) PROVE d[i] = e[i]
      <3>1. i \in 1..(Len(f) + Len(g))
        BY <2>2, <2>3
      <3>2. CASE i <= Len(f)
        <4>1. i \in 1..Len(f) /\ i \in 1..Len(c)
          BY <1>1, <1>5, <3>1, <3>2
        <4> QED BY <1>5, <2>1, <2>2, <4>1
      <3>3. CASE i > Len(f) /\ i <= Len(f) + n
        <4>1. /\ i \in 1..Len(c) /\ i - Len(f) \in 1..n /\ i - Len(f) \in 1..Len(g)
              /\ Len(f) + (i - Len(f)) = i
          BY <1>1, <1>5, <3>1, <3>3
        <4>2. d[i] = c[i]
          BY <2>1, <4>1
        <4>3. c[Len(f) + (i - Len(f))] = g[i - Len(f)] /\ e[Len(f) + (i - Len(f))] = g[i - Len(f)]
          BY <1>5, <2>2, <4>1, Zenon
        <4> QED BY <4>1, <4>2, <4>3
      <3>4. CASE i > Len(f) + n
        <4> DEFINE k == i - (Len(f) + n)
        <4>1. /\ k \in 1..(Len(g) - n) /\ k \in 1..Len(b) /\ Len(c) + k = i
              /\ n + k \in 1..Len(g) /\ Len(f) + (n + k) = i
          BY <1>1, <1>3, <1>5, <3>1, <3>4
        <4> HIDE DEF k
        <4>2. d[Len(c) + k] = b[k] /\ b[k] = g[n + k] /\ e[Len(f) + (n + k)] = g[n + k]
          BY <1>4, <2>1, <2>2, <4>1, Zenon
        <4> QED BY <4>1, <4>2
      <3> QED BY <1>1, <3>1, <3>2, <3>3, <3>4
    <2>5. d = e
      BY <2>1, <2>2, <2>3, <2>4, SeqEqual
    <2> QED BY <2>5 DEF d, e
  <1>7. n < Len(g) => b # <<>>
    BY <1>1, <1>3
  <1>8. n = Len(g) => a = g
    BY <1>1, <1>2, SeqEqual
  <1> QED BY <1>2, <1>3, <1>6, <1>7, <1>8 DEF a, b, c

-----------------------------------------------------------------------------
(* Types and lock, whatever may fail.  An action of p changes its entry of *)
(* proc and leaves the others alone.                                       *)

Only(p) == \A q \in Processes \ {p} : proc'[q] = proc[q]

\* What the types say of one process.
FitsWriter(w) ==
    /\ w \in Writer
    /\ w.pc \in {"open", "stat"} => w.columns # {} /\ w.out = Line("row", w.columns)

LEMMA TypesFromWriters ==
  ASSUME TypesInv, NEW p \in Processes, NEW w, FitsWriter(w), proc' = [proc EXCEPT ![p] = w],
         file' \in Seq(Piece), lock' \in Processes \cup {Nobody}
  PROVE  TypesInv' /\ proc'[p] = w /\ Only(p)
  <1>1. proc' \in [Processes -> Writer] /\ proc'[p] = w /\ Only(p)
    BY DEF TypesInv, FitsWriter, Only
  <1>2. ASSUME NEW q \in Processes, proc'[q].pc \in {"open", "stat"}
        PROVE  proc'[q].columns # {} /\ proc'[q].out = Line("row", proc'[q].columns)
    <2>1. CASE q = p
      BY <1>1, <1>2, <2>1 DEF FitsWriter
    <2>2. CASE q # p
      BY <1>1, <1>2, <2>2 DEF TypesInv, Only
    <2> QED BY <2>1, <2>2
  <1> QED BY <1>1, <1>2 DEF TypesInv, Line

LEMMA LockFromWriters ==
  ASSUME TypesInv, LockInv, Nobody \notin Processes, NEW p \in Processes, Only(p),
         \/ lock' = lock /\ (Inside(p)' <=> Inside(p))
         \/ lock = Nobody /\ lock' = p /\ Inside(p)'
         \/ lock' = (IF lock = p THEN Nobody ELSE lock) /\ ~Inside(p)'
  PROVE  LockInv'
  <1>1. \A q \in Processes \ {p} : Inside(q)' <=> Inside(q)
    BY DEF Only, Inside
  <1>2. \A q \in Processes : Inside(q) <=> lock = q
    BY DEF LockInv
  <1>3. lock \in Processes \cup {Nobody}
    BY DEF TypesInv
  <1> SUFFICES ASSUME NEW q \in Processes PROVE Inside(q)' <=> lock' = q
    BY DEF LockInv
  <1> HIDE DEF Inside
  <1>4. CASE lock' = lock /\ (Inside(p)' <=> Inside(p))
    BY <1>1, <1>2, <1>4
  <1>5. CASE lock = Nobody /\ lock' = p /\ Inside(p)'
    BY <1>1, <1>2, <1>5
  <1>6. CASE lock' = (IF lock = p THEN Nobody ELSE lock) /\ ~Inside(p)'
    BY <1>1, <1>2, <1>3, <1>6
  <1> QED BY <1>4, <1>5, <1>6

LEMMA WriterFacts ==
  ASSUME TypesInv, NEW p \in Processes
  PROVE  /\ proc[p] = [pc |-> proc[p].pc, columns |-> proc[p].columns, out |-> proc[p].out]
         /\ proc[p].pc \in Places /\ proc[p].columns \in SUBSET Keys /\ proc[p].out \in Seq(Piece)
  BY DEF TypesInv, Writer

LEMMA PcFacts ==
  ASSUME TypesInv, NEW p \in Processes, NEW pc
  PROVE  [proc EXCEPT ![p].pc = pc]
           = [proc EXCEPT ![p] = [pc |-> pc, columns |-> proc[p].columns, out |-> proc[p].out]]
  <1>1. proc[p] \in Writer /\ p \in DOMAIN proc
    BY DEF TypesInv
  <1>2. [proc[p] EXCEPT !.pc = pc] = [pc |-> pc, columns |-> proc[p].columns, out |-> proc[p].out]
    BY <1>1 DEF Writer
  <1> QED BY <1>1, <1>2

LEMMA PcAndOut ==
  ASSUME NEW r \in Writer, NEW pc, NEW out
  PROVE  /\ [r EXCEPT !.pc = pc, !.out = out] = [pc |-> pc, columns |-> r.columns, out |-> out]
         /\ [r EXCEPT !.out = out, !.pc = pc] = [pc |-> pc, columns |-> r.columns, out |-> out]
  <1> DEFINE written == [pc |-> r.pc, columns |-> r.columns, out |-> out]
             moved == [pc |-> pc, columns |-> r.columns, out |-> r.out]
             both == [pc |-> pc, columns |-> r.columns, out |-> out]
  <1>1. [r EXCEPT !.out = out] = written /\ [r EXCEPT !.pc = pc] = moved
    BY DEF Writer
  <1>2. [written EXCEPT !.pc = pc] = both /\ [moved EXCEPT !.out = out] = both
    OBVIOUS
  <1>3. /\ [r EXCEPT !.out = out, !.pc = pc] = [[r EXCEPT !.out = out] EXCEPT !.pc = pc]
        /\ [r EXCEPT !.pc = pc, !.out = out] = [[r EXCEPT !.pc = pc] EXCEPT !.out = out]
    OBVIOUS
  <1> HIDE DEF written, moved, both
  <1>4. /\ [r EXCEPT !.out = out, !.pc = pc] = both
        /\ [r EXCEPT !.pc = pc, !.out = out] = both
    BY <1>1, <1>2, <1>3
  <1> QED BY <1>4 DEF both

LEMMA InitializeStep ==
  ASSUME TypesInv, NEW p \in Processes, Initialize(p)
  PROVE  /\ TypesInv' /\ Only(p) /\ file' = file /\ lock' = lock
         /\ proc[p].pc = "down" /\ proc'[p].pc \in {"idle", "refused"} /\ proc'[p].out = <<>>
         /\ proc'[p].pc = "idle" => proc'[p].columns = IF file = <<>> THEN {} ELSE file[1].columns
  <1> DEFINE w == IF file = <<>> THEN [pc |-> "idle", columns |-> {}, out |-> <<>>]
                  ELSE IF Readable THEN [pc |-> "idle", columns |-> file[1].columns, out |-> <<>>]
                  ELSE [pc |-> "refused", columns |-> {}, out |-> <<>>]
  <1>1. proc' = [proc EXCEPT ![p] = w] /\ file' = file /\ lock' = lock /\ proc[p].pc = "down"
    BY DEF Initialize, At
  <1>2. file # <<>> => file[1].columns \in SUBSET Keys
    <2>1. file # <<>> => 1 \in 1..Len(file)
      BY LenProperties DEF TypesInv
    <2>2. \A i \in 1..Len(file) : file[i] \in Piece
      BY LenProperties DEF TypesInv
    <2> QED BY <2>1, <2>2 DEF Piece, Columns
  <1>3. /\ w.pc \in {"idle", "refused"} /\ w.out = <<>>
        /\ w.pc = "idle" => w.columns = IF file = <<>> THEN {} ELSE file[1].columns
    OBVIOUS
  <1>4. w \in Writer
    <2>1. <<>> \in Seq(Piece) /\ {} \in SUBSET Keys /\ {"idle", "refused"} \subseteq Places
      BY DEF Places
    <2> QED BY <1>2, <2>1 DEF Writer
  <1> HIDE DEF w
  <1>5. FitsWriter(w)
    BY <1>3, <1>4 DEF FitsWriter
  <1>6. TypesInv' /\ proc'[p] = w /\ Only(p)
    BY <1>1, <1>5, TypesFromWriters DEF TypesInv
  <1> QED BY <1>1, <1>3, <1>6

LEMMA BeginAppendStep ==
  ASSUME TypesInv, NEW p \in Processes, NEW status \in (SUBSET Keys) \ {{}}, BeginAppend(p, status)
  PROVE  /\ TypesInv' /\ Only(p) /\ file' = file /\ lock' = lock
         /\ proc[p].pc = "idle" /\ proc'[p].pc = "open"
         /\ proc'[p].columns = ColumnsFor(p, status)
  <1> DEFINE columns == ColumnsFor(p, status)
             w == [pc |-> "open", columns |-> columns, out |-> Line("row", columns)]
  <1>1. proc' = [proc EXCEPT ![p] = w] /\ file' = file /\ lock' = lock /\ proc[p].pc = "idle"
    BY DEF BeginAppend, At
  <1>2. columns \in Columns
    BY WriterFacts DEF ColumnsFor, Columns
  <1>3. Line("row", columns) \in Seq(Piece)
    <2>1. "row" \in {"header", "row"}
      OBVIOUS
    <2> QED BY <1>2, <2>1, LineFacts
  <1>4. w \in Writer /\ w.columns # {}
    BY <1>2, <1>3 DEF Writer, Places, Columns
  <1>5. FitsWriter(w)
    BY <1>4 DEF FitsWriter
  <1>6. w.pc = "open" /\ w.columns = columns
    OBVIOUS
  <1> HIDE DEF w
  <1>7. TypesInv' /\ proc'[p] = w /\ Only(p)
    BY <1>1, <1>5, TypesFromWriters DEF TypesInv
  <1> QED BY <1>1, <1>6, <1>7

LEMMA FlockStep ==
  ASSUME TypesInv, NEW p \in Processes, Flock(p)
  PROVE  /\ TypesInv' /\ Only(p) /\ file' = file /\ lock = Nobody /\ lock' = p
         /\ proc[p].pc = "open" /\ proc'[p].pc = "stat" /\ proc'[p].columns = proc[p].columns
  <1> DEFINE w == [pc |-> "stat", columns |-> proc[p].columns, out |-> proc[p].out]
  <1>1. /\ proc' = [proc EXCEPT ![p].pc = "stat"] /\ file' = file
        /\ lock = Nobody /\ lock' = p /\ proc[p].pc = "open"
    BY DEF Flock, At, Goes
  <1>2. proc' = [proc EXCEPT ![p] = w]
    BY <1>1, PcFacts
  <1>3. FitsWriter(w)
    BY <1>1, WriterFacts DEF FitsWriter, TypesInv, Writer, Places
  <1>4. w.pc = "stat" /\ w.columns = proc[p].columns
    OBVIOUS
  <1> HIDE DEF w
  <1>5. TypesInv' /\ proc'[p] = w /\ Only(p)
    BY <1>1, <1>2, <1>3, TypesFromWriters DEF TypesInv
  <1> QED BY <1>1, <1>4, <1>5

LEMMA FstatStep ==
  ASSUME TypesInv, NEW p \in Processes, Fstat(p)
  PROVE  /\ TypesInv' /\ Only(p) /\ file' = file /\ lock' = lock
         /\ proc[p].pc = "stat" /\ proc'[p].pc = "write"
         /\ proc[p].columns \in Columns /\ proc'[p].columns = proc[p].columns
         /\ proc'[p].out = (IF file = <<>> THEN Line("header", proc[p].columns) ELSE <<>>)
                             \o Line("row", proc[p].columns)
  <1> DEFINE head == IF file = <<>> THEN Line("header", proc[p].columns) ELSE <<>>
             w == [pc |-> "write", columns |-> proc[p].columns, out |-> head \o proc[p].out]
  <1>1. /\ proc' = [proc EXCEPT ![p].pc = "write", ![p].out = head \o @]
        /\ file' = file /\ lock' = lock /\ proc[p].pc = "stat"
    BY DEF Fstat, At
  <1>2. proc[p].columns \in Columns /\ proc[p].out = Line("row", proc[p].columns)
    BY <1>1, WriterFacts DEF TypesInv, Columns
  <1>3. head \in Seq(Piece)
    <2>1. "header" \in {"header", "row"} /\ <<>> \in Seq(Piece)
      OBVIOUS
    <2> QED BY <1>2, <2>1, LineFacts
  <1> HIDE DEF head
  <1>4. proc' = [proc EXCEPT ![p] = w]
    <2>1. proc[p] \in Writer /\ p \in DOMAIN proc
      BY DEF TypesInv
    <2>2. [proc[p] EXCEPT !.pc = "write", !.out = head \o @] = w
      BY <2>1, PcAndOut
    <2> QED BY <1>1, <2>1, <2>2
  <1>5. head \o proc[p].out \in Seq(Piece)
    BY <1>3, WriterFacts, ConcatFacts
  <1>6. FitsWriter(w)
    BY <1>5, WriterFacts DEF FitsWriter, Writer, Places
  <1>7. w.pc = "write" /\ w.columns = proc[p].columns /\ w.out = head \o proc[p].out
    OBVIOUS
  <1> HIDE DEF w
  <1>8. TypesInv' /\ proc'[p] = w /\ Only(p)
    BY <1>1, <1>4, <1>6, TypesFromWriters DEF TypesInv
  <1> QED BY <1>1, <1>2, <1>7, <1>8 DEF head

LEMMA WriteStep ==
  ASSUME TypesInv, NEW p \in Processes, NEW n, Write(p, n)
  PROVE  /\ TypesInv' /\ Only(p) /\ lock' = lock
         /\ n \in 1..Len(proc[p].out) /\ file' = file \o SubSeq(proc[p].out, 1, n)
         /\ proc[p].pc = "write" /\ proc'[p].columns = proc[p].columns
         /\ proc'[p].pc = IF n = Len(proc[p].out) THEN "unlock" ELSE "write"
         /\ proc'[p].out = SubSeq(proc[p].out, n + 1, Len(proc[p].out))
  <1> DEFINE pc == IF n = Len(proc[p].out) THEN "unlock" ELSE "write"
             out == SubSeq(proc[p].out, n + 1, Len(proc[p].out))
             w == [pc |-> pc, columns |-> proc[p].columns, out |-> out]
  <1>1. /\ proc' = [proc EXCEPT ![p].out = SubSeq(@, n + 1, Len(@)), ![p].pc = pc]
        /\ file' = file \o SubSeq(proc[p].out, 1, n) /\ lock' = lock
        /\ proc[p].pc = "write" /\ n \in 1..Len(proc[p].out)
    BY DEF Write, At
  <1>2. /\ out \in Seq(Piece) /\ SubSeq(proc[p].out, 1, n) \in Seq(Piece)
        /\ file' \in Seq(Piece)
    <2>1. proc[p].out \in Seq(Piece) /\ file \in Seq(Piece)
      BY WriterFacts DEF TypesInv
    <2>2. out \in Seq(Piece) /\ SubSeq(proc[p].out, 1, n) \in Seq(Piece)
      BY <1>1, <2>1, SplitFacts
    <2> QED BY <1>1, <2>1, <2>2, ConcatFacts
  <1>3. pc \in {"write", "unlock"}
    OBVIOUS
  <1> HIDE DEF pc
  <1>4. proc' = [proc EXCEPT ![p] = w]
    <2>1. proc[p] \in Writer /\ p \in DOMAIN proc
      BY DEF TypesInv
    <2>2. [proc[p] EXCEPT !.out = SubSeq(@, n + 1, Len(@)), !.pc = pc] = w
      BY <2>1, PcAndOut
    <2> QED BY <1>1, <2>1, <2>2
  <1> HIDE DEF out
  <1>5. FitsWriter(w)
    BY <1>2, <1>3, WriterFacts DEF FitsWriter, Writer, Places
  <1>6. w.pc = pc /\ w.columns = proc[p].columns /\ w.out = out
    OBVIOUS
  <1> HIDE DEF w
  <1>7. TypesInv' /\ proc'[p] = w /\ Only(p)
    BY <1>1, <1>2, <1>4, <1>5, TypesFromWriters DEF TypesInv
  <1> QED BY <1>1, <1>6, <1>7 DEF pc, out

LEMMA WriteFailsStep ==
  ASSUME TypesInv, NEW p \in Processes, WriteFails(p)
  PROVE  /\ TypesInv' /\ Only(p) /\ file' = file /\ lock' = lock /\ "full" \in setting.faults
         /\ proc[p].pc = "write" /\ proc'[p].pc = "unlock" /\ proc'[p].columns = proc[p].columns
  <1> DEFINE w == [pc |-> "unlock", columns |-> proc[p].columns, out |-> <<>>]
  <1>1. /\ proc' = [proc EXCEPT ![p].out = <<>>, ![p].pc = "unlock"]
        /\ file' = file /\ lock' = lock /\ proc[p].pc = "write" /\ "full" \in setting.faults
    BY DEF WriteFails, At
  <1>2. proc' = [proc EXCEPT ![p] = w]
    <2>1. proc[p] \in Writer /\ p \in DOMAIN proc
      BY DEF TypesInv
    <2>2. [proc[p] EXCEPT !.out = <<>>, !.pc = "unlock"] = w
      BY <2>1, PcAndOut
    <2> QED BY <1>1, <2>1, <2>2
  <1>3. FitsWriter(w)
    <2>1. <<>> \in Seq(Piece)
      OBVIOUS
    <2> QED BY <2>1, WriterFacts DEF FitsWriter, Writer, Places
  <1>4. w.pc = "unlock" /\ w.columns = proc[p].columns
    OBVIOUS
  <1> HIDE DEF w
  <1>5. TypesInv' /\ proc'[p] = w /\ Only(p)
    BY <1>1, <1>2, <1>3, TypesFromWriters DEF TypesInv
  <1> QED BY <1>1, <1>4, <1>5

LEMMA UnlockStep ==
  ASSUME TypesInv, NEW p \in Processes, Unlock(p)
  PROVE  /\ TypesInv' /\ Only(p) /\ file' = file
         /\ lock' = (IF lock = p THEN Nobody ELSE lock)
         /\ proc[p].pc = "unlock" /\ proc'[p].pc = "idle" /\ proc'[p].columns = proc[p].columns
  <1> DEFINE w == [pc |-> "idle", columns |-> proc[p].columns, out |-> proc[p].out]
  <1>1. /\ proc' = [proc EXCEPT ![p].pc = "idle"] /\ file' = file
        /\ lock' = (IF lock = p THEN Nobody ELSE lock) /\ proc[p].pc = "unlock"
    BY DEF Unlock, At, Goes
  <1>2. proc' = [proc EXCEPT ![p] = w]
    BY <1>1, PcFacts
  <1>3. FitsWriter(w)
    BY WriterFacts DEF FitsWriter, Writer, Places
  <1>4. w.pc = "idle" /\ w.columns = proc[p].columns
    OBVIOUS
  <1> HIDE DEF w
  <1>5. TypesInv' /\ proc'[p] = w /\ Only(p)
    BY <1>1, <1>2, <1>3, TypesFromWriters DEF TypesInv
  <1> QED BY <1>1, <1>4, <1>5

LEMMA ServerCrashStep ==
  ASSUME TypesInv, NEW p \in Processes, ServerCrash(p)
  PROVE  /\ TypesInv' /\ Only(p) /\ file' = file /\ "crash" \in setting.faults
         /\ lock' = (IF lock = p THEN Nobody ELSE lock) /\ proc'[p].pc = "down"
  <1> DEFINE w == [pc |-> "down", columns |-> {}, out |-> <<>>]
  <1>1. /\ proc' = [proc EXCEPT ![p] = w] /\ file' = file /\ "crash" \in setting.faults
        /\ lock' = (IF lock = p THEN Nobody ELSE lock)
    BY DEF ServerCrash
  <1>2. FitsWriter(w)
    <2>1. <<>> \in Seq(Piece)
      OBVIOUS
    <2> QED BY <2>1 DEF FitsWriter, Writer, Places
  <1>3. w.pc = "down"
    OBVIOUS
  <1> HIDE DEF w
  <1>4. TypesInv' /\ proc'[p] = w /\ Only(p)
    BY <1>1, <1>2, TypesFromWriters DEF TypesInv
  <1> QED BY <1>1, <1>3, <1>4

LEMMA TruncateStep ==
  ASSUME TypesInv, Truncate
  PROVE  TypesInv' /\ file' = <<>> /\ lock' = lock /\ proc' = proc /\ "truncate" \in setting.faults
  <1>1. file' = <<>> /\ lock' = lock /\ proc' = proc /\ "truncate" \in setting.faults
    BY DEF Truncate
  <1>2. <<>> \in Seq(Piece)
    OBVIOUS
  <1> QED BY <1>1, <1>2 DEF TypesInv, Line

LEMMA TypesInit ==
  ASSUME LogInit
  PROVE  TypesInv /\ LockInv
  <1>1. <<>> \in Seq(Piece) /\ {} \in SUBSET Keys /\ "down" \in Places
    BY DEF Places
  <1>2. [pc |-> "down", columns |-> {}, out |-> <<>>] \in Writer
    BY <1>1 DEF Writer
  <1>3. \A p \in Processes : proc[p].pc = "down"
    BY DEF LogInit
  <1>4. TypesInv
    BY <1>1, <1>2, <1>3 DEF LogInit, TypesInv
  <1>5. LockInv
    BY <1>3, LogAssumption DEF LockInv, Inside, LogInit
  <1> QED BY <1>4, <1>5

LEMMA TypesNext ==
  ASSUME TypesInv, LockInv, [LogNext]_logVars
  PROVE  TypesInv' /\ LockInv'
  <1>1. CASE UNCHANGED logVars
    BY <1>1 DEF logVars, TypesInv, LockInv, Inside, Line
  <1>2. CASE Truncate
    BY <1>2, TruncateStep DEF LockInv, Inside
  <1>3. ASSUME NEW p \in Processes, Initialize(p) PROVE TypesInv' /\ LockInv'
    <2>1. TypesInv' /\ Only(p) /\ lock' = lock /\ (Inside(p)' <=> Inside(p))
      BY <1>3, InitializeStep DEF Inside
    <2> QED BY <2>1, LockFromWriters, LogAssumption
  <1>4. ASSUME NEW p \in Processes, NEW status \in (SUBSET Keys) \ {{}}, BeginAppend(p, status)
        PROVE  TypesInv' /\ LockInv'
    <2>1. TypesInv' /\ Only(p) /\ lock' = lock /\ (Inside(p)' <=> Inside(p))
      BY <1>4, BeginAppendStep DEF Inside
    <2> QED BY <2>1, LockFromWriters, LogAssumption
  <1>5. ASSUME NEW p \in Processes, Flock(p) PROVE TypesInv' /\ LockInv'
    <2>1. TypesInv' /\ Only(p) /\ lock = Nobody /\ lock' = p /\ Inside(p)'
      BY <1>5, FlockStep DEF Inside
    <2> QED BY <2>1, LockFromWriters, LogAssumption
  <1>6. ASSUME NEW p \in Processes, Fstat(p) PROVE TypesInv' /\ LockInv'
    <2>1. TypesInv' /\ Only(p) /\ lock' = lock /\ (Inside(p)' <=> Inside(p))
      BY <1>6, FstatStep DEF Inside
    <2> QED BY <2>1, LockFromWriters, LogAssumption
  <1>7. ASSUME NEW p \in Processes, NEW n \in 1..4, Write(p, n) PROVE TypesInv' /\ LockInv'
    <2>1. TypesInv' /\ Only(p) /\ lock' = lock /\ (Inside(p)' <=> Inside(p))
      BY <1>7, WriteStep DEF Inside
    <2> QED BY <2>1, LockFromWriters, LogAssumption
  <1>8. ASSUME NEW p \in Processes, WriteFails(p) PROVE TypesInv' /\ LockInv'
    <2>1. TypesInv' /\ Only(p) /\ lock' = lock /\ (Inside(p)' <=> Inside(p))
      BY <1>8, WriteFailsStep DEF Inside
    <2> QED BY <2>1, LockFromWriters, LogAssumption
  <1>9. ASSUME NEW p \in Processes, Unlock(p) PROVE TypesInv' /\ LockInv'
    <2>1. TypesInv' /\ Only(p) /\ lock' = (IF lock = p THEN Nobody ELSE lock) /\ ~Inside(p)'
      BY <1>9, UnlockStep DEF Inside
    <2> QED BY <2>1, LockFromWriters, LogAssumption
  <1>10. ASSUME NEW p \in Processes, ServerCrash(p) PROVE TypesInv' /\ LockInv'
    <2>1. TypesInv' /\ Only(p) /\ lock' = (IF lock = p THEN Nobody ELSE lock) /\ ~Inside(p)'
      BY <1>10, ServerCrashStep DEF Inside
    <2> QED BY <2>1, LockFromWriters, LogAssumption
  <1> QED
    BY <1>1, <1>2, <1>3, <1>4, <1>5, <1>6, <1>7, <1>8, <1>9, <1>10, Zenon DEF LogNext

(* Whatever fails, the lock has one owner, every process is where append   *)
(* has a line, and no piece is without columns (StatusLog::append).        *)
THEOREM LogTypesCorrect ==
  LogSpec => []LogTypeOK
  <1>1. TypesInv => LogTypeOK
    <2> SUFFICES ASSUME TypesInv PROVE LogTypeOK
      OBVIOUS
    <2>1. \A p \in Processes : proc[p].pc \in Places
      BY WriterFacts
    <2>2. \A i \in 1..Len(file) : file[i] \in Piece
      BY LenProperties DEF TypesInv
    <2> QED BY <2>1, <2>2 DEF TypesInv, LogTypeOK, Places, Piece, Columns
  <1> QED BY <1>1, TypesInit, TypesNext, PTL DEF LogSpec

-----------------------------------------------------------------------------
(* The file *)

LEMMA Alone ==
  ASSUME LockInv, NEW p \in Processes, Inside(p)
  PROVE  lock = p /\ \A q \in Processes \ {p} : ~Inside(q) /\ ~Writes(q)
  BY DEF LockInv, Inside, Writes

LEMMA QuietFile ==
  ASSUME FileInv, NEW p \in Processes, Only(p), file' = file, ~Writes(p), ~Writes(p)'
  PROVE  FileInv'
  <1>1. \A q \in Processes : /\ Writes(q)' <=> Writes(q)
                             /\ Writes(q) => proc'[q] = proc[q]
    BY DEF Only, Writes
  <1>2. CASE \A q \in Processes : ~Writes(q)
    <2>1. Good(file) /\ \A q \in Processes : ~Writes(q)'
      BY <1>1, <1>2 DEF FileInv
    <2> QED BY <2>1 DEF FileInv, Good, Complete, Headed
  <1>3. CASE \E q \in Processes : Writes(q)
    <2>1. ASSUME NEW q \in Processes, Writes(q)' PROVE Good(file' \o proc'[q].out)
      <3>1. Writes(q) /\ proc'[q] = proc[q]
        BY <1>1, <2>1
      <3> QED BY <3>1 DEF FileInv
    <2>2. \E q \in Processes : Writes(q)'
      BY <1>1, <1>3
    <2> QED BY <2>1, <2>2 DEF FileInv, Good, Complete, Headed
  <1> QED BY <1>2, <1>3

LEMMA FileInit ==
  ASSUME LogInit
  PROVE  FileInv
  <1>1. Good(<<>>)
    BY DEF Good, Complete, Headed
  <1>2. file = <<>> /\ \A p \in Processes : ~Writes(p)
    BY DEF LogInit, Writes
  <1> QED BY <1>1, <1>2 DEF FileInv

LEMMA FileNext ==
  ASSUME setting.faults = {}, LogInv, [LogNext]_logVars
  PROVE  FileInv'
  <1>0. TypesInv /\ LockInv /\ FileInv
    BY DEF LogInv
  <1>1. CASE UNCHANGED logVars
    BY <1>0, <1>1 DEF logVars, FileInv, Writes, Good, Complete, Headed
  <1>2. CASE Truncate
    BY <1>0, <1>2, TruncateStep
  <1>3. ASSUME NEW p \in Processes, Initialize(p) PROVE FileInv'
    BY <1>0, <1>3, InitializeStep, QuietFile DEF Writes
  <1>4. ASSUME NEW p \in Processes, NEW status \in (SUBSET Keys) \ {{}}, BeginAppend(p, status)
        PROVE  FileInv'
    BY <1>0, <1>4, BeginAppendStep, QuietFile DEF Writes
  <1>5. ASSUME NEW p \in Processes, Flock(p) PROVE FileInv'
    BY <1>0, <1>5, FlockStep, QuietFile DEF Writes
  <1>6. ASSUME NEW p \in Processes, Fstat(p) PROVE FileInv'
    <2>1. /\ Only(p) /\ file' = file /\ proc[p].pc = "stat" /\ proc'[p].pc = "write"
          /\ proc[p].columns \in Columns
          /\ proc'[p].out = (IF file = <<>> THEN Line("header", proc[p].columns) ELSE <<>>)
                              \o Line("row", proc[p].columns)
      BY <1>0, <1>6, FstatStep
    <2>2. \A q \in Processes \ {p} : ~Writes(q) /\ ~Writes(q)'
      <3>1. Inside(p)
        BY <2>1 DEF Inside
      <3>2. \A q \in Processes \ {p} : ~Writes(q)
        BY <1>0, <3>1, Alone
      <3> QED BY <2>1, <3>2 DEF Only, Writes
    <2>3. Good(file)
      <3>1. ~Writes(p)
        BY <2>1 DEF Writes
      <3> QED BY <1>0, <2>2, <3>1 DEF FileInv
    <2>4. file \in Seq(Piece)
      BY <1>0 DEF TypesInv
    <2>5. Good(file' \o proc'[p].out)
      BY <2>1, <2>3, <2>4, RowGood
    <2>6. Writes(p)'
      BY <2>1 DEF Writes
    <2> QED BY <2>2, <2>5, <2>6 DEF FileInv, Good, Complete, Headed
  <1>7. ASSUME NEW p \in Processes, NEW n \in 1..4, Write(p, n) PROVE FileInv'
    <2> DEFINE out == proc[p].out
    <2>1. /\ Only(p) /\ n \in 1..Len(out) /\ file' = file \o SubSeq(out, 1, n)
          /\ proc[p].pc = "write" /\ proc'[p].pc = IF n = Len(out) THEN "unlock" ELSE "write"
          /\ proc'[p].out = SubSeq(out, n + 1, Len(out))
      BY <1>0, <1>7, WriteStep
    <2>2. \A q \in Processes \ {p} : ~Writes(q)'
      <3>1. Inside(p)
        BY <2>1 DEF Inside
      <3>2. \A q \in Processes \ {p} : ~Writes(q)
        BY <1>0, <3>1, Alone
      <3> QED BY <2>1, <3>2 DEF Only, Writes
    <2>3. file \in Seq(Piece) /\ out \in Seq(Piece)
      BY <1>0, WriterFacts DEF TypesInv
    <2>4. Good(file \o out)
      BY <1>0, <2>1 DEF FileInv, Writes
    <2>5. /\ file' \o proc'[p].out = file \o out
          /\ n = Len(out) => file' = file \o out
      <3> DEFINE rest == SubSeq(out, n + 1, Len(out))
                 part == SubSeq(out, 1, n)
      <3>1. /\ (file \o part) \o rest = file \o out
            /\ n = Len(out) => file \o part = file \o out
        BY <2>1, <2>3, SplitFacts
      <3>2. file' = file \o part /\ proc'[p].out = rest
        BY <2>1
      <3> HIDE DEF rest, part, out
      <3> QED BY <3>1, <3>2
    <2>6. CASE n = Len(out)
      <3>1. ~Writes(p)' /\ Good(file')
        BY <2>1, <2>4, <2>5, <2>6 DEF Writes
      <3> QED BY <2>2, <3>1 DEF FileInv, Good, Complete, Headed
    <2>7. CASE n # Len(out)
      <3>1. Writes(p)' /\ Good(file' \o proc'[p].out)
        BY <2>1, <2>4, <2>5, <2>7 DEF Writes
      <3> QED BY <2>2, <3>1 DEF FileInv, Good, Complete, Headed
    <2> QED BY <2>6, <2>7
  <1>8. ASSUME NEW p \in Processes, WriteFails(p) PROVE FileInv'
    BY <1>0, <1>8, WriteFailsStep
  <1>9. ASSUME NEW p \in Processes, Unlock(p) PROVE FileInv'
    BY <1>0, <1>9, UnlockStep, QuietFile DEF Writes
  <1>10. ASSUME NEW p \in Processes, ServerCrash(p) PROVE FileInv'
    BY <1>0, <1>10, ServerCrashStep
  <1> QED
    BY <1>1, <1>2, <1>3, <1>4, <1>5, <1>6, <1>7, <1>8, <1>9, <1>10, Zenon DEF LogNext

-----------------------------------------------------------------------------
(* What a reader of the log finds *)

LEMMA SettingStays == [LogNext]_logVars => setting' = setting
  BY DEF LogNext, logVars

LEMMA LogInvariant == LogSpec => []LogInv
  <1>1. LogInit => LogInv
    BY TypesInit, FileInit DEF LogInv
  <1>2. LogInv /\ [LogNext]_logVars => LogInv'
    <2> SUFFICES ASSUME LogInv, [LogNext]_logVars PROVE LogInv'
      OBVIOUS
    <2>1. TypesInv' /\ LockInv'
      BY TypesNext DEF LogInv
    <2>2. setting' = setting
      BY SettingStays
    <2>3. setting.faults = {} => FileInv'
      BY FileNext
    <2> QED BY <2>1, <2>2, <2>3 DEF LogInv
  <1> QED BY <1>1, <1>2, PTL DEF LogSpec

(* However many processes append, and wherever a call of write stops: the  *)
(* pieces of a record stand together, and only inside the lock the last    *)
(* one may be half (StatusLog::append, writeRecord, writeAll).             *)
LEMMA RecordsAreWhole ==
  ASSUME LogInv, setting.faults = {} PROVE WholeRecords
  <1>1. LogInv => WholeRecords
    <2> SUFFICES ASSUME LogInv, NEW i \in 1..Len(file)
                 PROVE  IF file[i].part = 2
                        THEN i > 1 /\ file[i - 1] = [file[i] EXCEPT !.part = 1]
                        ELSE IF i < Len(file) THEN file[i + 1].part = 2
                        ELSE lock # Nobody
      BY DEF WholeRecords
    <2>1. file \in Seq(Piece) /\ Len(file) \in Nat
      BY LenProperties DEF LogInv, TypesInv
    <2>2. file[i].part \in 1..2
      <3>1. file[i] \in Piece
        BY <2>1, LenProperties
      <3> QED BY <3>1 DEF Piece
    <2>3. CASE \A p \in Processes : ~Writes(p)
      <3>1. Complete(file)
        BY <2>3 DEF LogInv, FileInv, Good
      <3>2. file[i].part = 1 => i < Len(file) /\ file[i + 1].part = 2
        BY <3>1 DEF Complete
      <3>3. file[i].part = 2 => i > 1 /\ file[i - 1] = [file[i] EXCEPT !.part = 1]
        BY <3>1 DEF Complete
      <3> QED BY <2>2, <3>2, <3>3
    <2>4. ASSUME NEW p \in Processes, Writes(p)
          PROVE  /\ file[i].part = 2 => i > 1 /\ file[i - 1] = [file[i] EXCEPT !.part = 1]
                 /\ file[i].part = 1 /\ i < Len(file) => file[i + 1].part = 2
                 /\ lock = p
      <3> DEFINE h == file \o proc[p].out
      <3>1. Complete(h)
        BY <2>4 DEF LogInv, FileInv, Good
      <3>2. proc[p].out \in Seq(Piece)
        BY WriterFacts DEF LogInv
      <3>3. /\ Len(h) = Len(file) + Len(proc[p].out)
            /\ \A j \in 1..Len(file) : h[j] = file[j]
        BY <2>1, <3>2, ConcatFacts
      <3>4. i \in 1..Len(h) /\ h[i] = file[i]
        <4>1. Len(proc[p].out) \in Nat
          BY <3>2, LenProperties
        <4> QED BY <2>1, <3>3, <4>1
      <3>5. /\ i < Len(file) => h[i + 1] = file[i + 1]
            /\ i > 1 => h[i - 1] = file[i - 1]
        BY <2>1, <3>3
      <3> HIDE DEF h
      <3>6. h[i].part = 1 => i < Len(h) /\ h[i + 1].part = 2
        BY <3>1, <3>4 DEF Complete
      <3>7. h[i].part = 2 => i > 1 /\ h[i - 1] = [h[i] EXCEPT !.part = 1]
        BY <3>1, <3>4 DEF Complete
      <3>8. lock = p
        BY <2>4, Alone DEF LogInv, Inside, Writes
      <3> QED BY <3>4, <3>5, <3>6, <3>7, <3>8
    <2>5. CASE \E p \in Processes : Writes(p)
      <3>1. PICK p \in Processes : Writes(p)
        BY <2>5
      <3>2. lock # Nobody
        BY <2>4, <3>1, LogAssumption
      <3> QED BY <2>2, <2>4, <3>1, <3>2
    <2> QED BY <2>3, <2>5
  <1> QED BY <1>1

(* A log nobody is writing to has one header, at its beginning, whichever  *)
(* of the processes that found the file empty came first (append).         *)
LEMMA HeaderIsFirst ==
  ASSUME LogInv, setting.faults = {} PROVE HeaderFirst
  <1>1. LogInv => HeaderFirst
    <2> SUFFICES ASSUME LogInv, lock = Nobody
                 PROVE  \A i \in 1..Len(file) : file[i].line = "header" <=> i \in 1..2
      BY DEF HeaderFirst
    <2>1. \A p \in Processes : ~Writes(p)
      BY LogAssumption DEF LogInv, LockInv, Inside, Writes
    <2> QED BY <2>1 DEF LogInv, FileInv, Good, Headed
  <1> QED BY <1>1

-----------------------------------------------------------------------------
(* One writer: its columns, whatever fails. *)

Is(q, columns) == \A i \in 1..Len(q) : q[i].columns = columns

\* The columns of the file are those of the writer, from when it has them, and
\* of what it has still to write.
SchemaInv(p) ==
    /\ OneSchema
    /\ proc[p].pc \notin {"down", "refused"} => Is(file, proc[p].columns)
    /\ proc[p].pc \in {"open", "stat", "write"} => Is(proc[p].out, proc[p].columns)

LEMMA SameColumns ==
  ASSUME NEW q \in Seq(Piece), NEW columns, Is(q, columns)
  PROVE  \A i, j \in 1..Len(q) : q[i].columns = q[j].columns
  BY DEF Is

LEMMA ConcatColumns ==
  ASSUME NEW f \in Seq(Piece), NEW g \in Seq(Piece), NEW columns,
         Is(f, columns), Is(g, columns)
  PROVE  Is(f \o g, columns)
  <1> DEFINE h == f \o g
  <1>1. /\ Len(h) = Len(f) + Len(g) /\ Len(f) \in Nat /\ Len(g) \in Nat
        /\ \A i \in 1..Len(f) : h[i] = f[i]
        /\ \A i \in 1..Len(g) : h[Len(f) + i] = g[i]
    BY ConcatFacts, LenProperties
  <1> HIDE DEF h
  <1>2. ASSUME NEW i \in 1..Len(h) PROVE h[i].columns = columns
    <2>1. CASE i <= Len(f)
      BY <1>1, <2>1 DEF Is
    <2>2. CASE i > Len(f)
      <3>1. i - Len(f) \in 1..Len(g) /\ Len(f) + (i - Len(f)) = i
        BY <1>1, <2>2
      <3>2. h[i] = g[i - Len(f)]
        BY <1>1, <3>1
      <3> QED BY <3>1, <3>2 DEF Is
    <2> QED BY <1>1, <2>1, <2>2
  <1> QED BY <1>2 DEF Is, h

LEMMA LineColumns ==
  ASSUME NEW kind \in {"header", "row"}, NEW columns \in Columns
  PROVE  Is(Line(kind, columns), columns)
  <1>1. \A i \in 1..2 : Line(kind, columns)[i].columns = columns
    <2> DEFINE l == Line(kind, columns)
               piece(i) == [line |-> kind, columns |-> columns, part |-> i]
    <2>1. \A i \in 1..2 : l[i] = piece(i)
      BY LineFacts
    <2>2. \A i : piece(i).columns = columns
      OBVIOUS
    <2> HIDE DEF l, piece
    <2>3. \A i \in 1..2 : l[i].columns = columns
      BY <2>1, <2>2
    <2> QED BY <2>3 DEF l
  <1> QED BY <1>1, LineFacts DEF Is

LEMMA PartColumns ==
  ASSUME NEW g \in Seq(Piece), NEW columns, Is(g, columns), NEW n \in 1..Len(g)
  PROVE  Is(SubSeq(g, 1, n), columns) /\ Is(SubSeq(g, n + 1, Len(g)), columns)
  <1> DEFINE a == SubSeq(g, 1, n)
             b == SubSeq(g, n + 1, Len(g))
  <1>1. /\ Len(g) \in Nat /\ n \in Nat
        /\ \A i \in 1..Len(g) : g[i] \in Piece
    BY LenProperties
  <1>2. Len(a) = n /\ \A i \in 1..n : a[i] = g[i]
    BY <1>1, SubSeqProperties
  <1>3. Len(b) = Len(g) - n
    BY <1>1, SubSeqProperties
  <1>4. \A i \in 1..(Len(g) - n) : b[i] = g[n + i]
    BY <1>1, SubSeqProperties
  <1> HIDE DEF a, b
  <1>5. Is(a, columns)
    BY <1>1, <1>2 DEF Is
  <1>6. Is(b, columns)
    <2>1. \A i \in 1..(Len(g) - n) : n + i \in 1..Len(g)
      BY <1>1
    <2> QED BY <1>3, <1>4, <2>1 DEF Is
  <1> QED BY <1>5, <1>6 DEF a, b

Down(p) == \A q \in Processes \ {p} : proc[q].pc = "down"

LEMMA OthersStayDown ==
  ASSUME NEW p \in Processes, setting.servers = {p}, TypesInv, Down(p), [LogNext]_logVars
  PROVE  /\ Down(p)'
         /\ \/ UNCHANGED logVars \/ Truncate
            \/ Initialize(p) \/ Flock(p) \/ Fstat(p) \/ WriteFails(p) \/ Unlock(p) \/ ServerCrash(p)
            \/ \E status \in (SUBSET Keys) \ {{}} : BeginAppend(p, status)
            \/ \E n \in 1..4 : Write(p, n)
  <1>1. ASSUME NEW q \in Processes, q # p
        PROVE  /\ ~Initialize(q) /\ ~Flock(q) /\ ~Fstat(q) /\ ~WriteFails(q) /\ ~Unlock(q)
               /\ ~ServerCrash(q)
               /\ \A status \in (SUBSET Keys) \ {{}} : ~BeginAppend(q, status)
               /\ \A n \in 1..4 : ~Write(q, n)
    <2>1. proc[q].pc = "down" /\ q \notin setting.servers
      BY <1>1 DEF Down
    <2> QED BY <2>1 DEF At, Initialize, Flock, Fstat, WriteFails, Unlock, ServerCrash, BeginAppend, Write
  <1>2. \/ UNCHANGED logVars \/ Truncate
        \/ Initialize(p) \/ Flock(p) \/ Fstat(p) \/ WriteFails(p) \/ Unlock(p) \/ ServerCrash(p)
        \/ \E status \in (SUBSET Keys) \ {{}} : BeginAppend(p, status)
        \/ \E n \in 1..4 : Write(p, n)
    BY <1>1, Zenon DEF LogNext
  <1>3. Only(p) => Down(p)'
    BY DEF Only, Down
  <1>4. UNCHANGED proc => Down(p)'
    BY DEF Down
  <1>5. UNCHANGED logVars \/ Truncate => UNCHANGED proc
    BY DEF logVars, Truncate
  <1>6. Initialize(p) \/ Flock(p) \/ Fstat(p) \/ WriteFails(p) \/ Unlock(p) \/ ServerCrash(p) => Only(p)
    BY InitializeStep, FlockStep, FstatStep, WriteFailsStep, UnlockStep, ServerCrashStep
  <1>7. \A status \in (SUBSET Keys) \ {{}} : BeginAppend(p, status) => Only(p)
    BY BeginAppendStep
  <1>8. \A n \in 1..4 : Write(p, n) => Only(p)
    BY WriteStep
  <1> QED BY <1>2, <1>3, <1>4, <1>5, <1>6, <1>7, <1>8

LEMMA SchemaNext ==
  ASSUME NEW p \in Processes, setting.servers = {p}, TypesInv, Down(p), SchemaInv(p),
         [LogNext]_logVars
  PROVE  SchemaInv(p)'
  <1>0. p \in Processes /\ file \in Seq(Piece) /\ proc[p].out \in Seq(Piece)
    BY WriterFacts DEF TypesInv
  <1>1. CASE UNCHANGED logVars
    BY <1>1 DEF logVars, SchemaInv, OneSchema, Is
  <1>2. CASE Truncate
    <2>1. file' = <<>> /\ proc' = proc
      BY <1>2, TruncateStep
    <2> QED BY <2>1 DEF SchemaInv, OneSchema, Is
  <1>3. CASE Initialize(p)
    <2>1. /\ file' = file /\ proc'[p].pc \in {"idle", "refused"}
          /\ proc'[p].pc = "idle" => proc'[p].columns = IF file = <<>> THEN {} ELSE file[1].columns
      BY <1>0, <1>3, InitializeStep
    <2>2. file # <<>> => Is(file, file[1].columns)
      <3>1. file # <<>> => 1 \in 1..Len(file)
        BY <1>0, LenProperties
      <3> QED BY <3>1 DEF SchemaInv, OneSchema, Is
    <2>3. file = <<>> => Is(file, {})
      BY DEF Is
    <2> QED BY <2>1, <2>2, <2>3 DEF SchemaInv, OneSchema, Is
  <1>4. ASSUME NEW status \in (SUBSET Keys) \ {{}}, BeginAppend(p, status)
        PROVE  SchemaInv(p)'
    <2>1. /\ TypesInv' /\ file' = file /\ proc[p].pc = "idle" /\ proc'[p].pc = "open"
          /\ proc'[p].columns = ColumnsFor(p, status)
      BY <1>0, <1>4, BeginAppendStep
    <2>2. Is(file, ColumnsFor(p, status))
      <3>1. CASE proc[p].columns = {}
        <4>1. \A i \in 1..Len(file) : file[i] \in Piece
          BY <1>0, LenProperties
        <4>2. \A i \in 1..Len(file) : file[i].columns # {}
          BY <4>1 DEF Piece, Columns
        <4>3. \A i \in 1..Len(file) : file[i].columns = {}
          BY <2>1, <3>1 DEF SchemaInv, Is
        <4> QED BY <4>2, <4>3 DEF Is
      <3>2. CASE proc[p].columns # {}
        BY <2>1, <3>2 DEF ColumnsFor, SchemaInv
      <3> QED BY <3>1, <3>2
    <2>3. proc'[p].columns \in Columns /\ proc'[p].out = Line("row", proc'[p].columns)
      <3>1. proc' \in [Processes -> Writer]
        BY <2>1 DEF TypesInv
      <3>2. proc'[p].columns # {} /\ proc'[p].out = Line("row", proc'[p].columns)
        BY <1>0, <2>1 DEF TypesInv, Line
      <3> QED BY <1>0, <3>1, <3>2 DEF Writer, Columns
    <2>4. Is(proc'[p].out, proc'[p].columns)
      <3>1. "row" \in {"header", "row"}
        OBVIOUS
      <3> QED BY <2>3, <3>1, LineColumns
    <2> QED BY <2>1, <2>2, <2>4 DEF SchemaInv, OneSchema, Is
  <1>5. CASE Flock(p)
    <2>1. /\ TypesInv' /\ file' = file /\ proc[p].pc = "open" /\ proc'[p].pc = "stat"
          /\ proc'[p].columns = proc[p].columns
      BY <1>0, <1>5, FlockStep
    <2>2. proc[p].out = Line("row", proc[p].columns)
      BY <1>0, <2>1 DEF TypesInv
    <2>3. proc'[p].out = Line("row", proc'[p].columns)
      BY <1>0, <2>1 DEF TypesInv, Line
    <2> QED BY <2>1, <2>2, <2>3 DEF SchemaInv, OneSchema, Is
  <1>6. CASE Fstat(p)
    <2>1. /\ file' = file /\ proc[p].pc = "stat" /\ proc'[p].pc = "write"
          /\ proc[p].columns \in Columns /\ proc'[p].columns = proc[p].columns
          /\ proc'[p].out = (IF file = <<>> THEN Line("header", proc[p].columns) ELSE <<>>)
                              \o Line("row", proc[p].columns)
      BY <1>0, <1>6, FstatStep
    <2>2. "row" \in {"header", "row"} /\ "header" \in {"header", "row"}
      OBVIOUS
    <2>3. /\ Line("row", proc[p].columns) \in Seq(Piece)
          /\ Line("header", proc[p].columns) \in Seq(Piece)
          /\ Is(Line("row", proc[p].columns), proc[p].columns)
          /\ Is(Line("header", proc[p].columns), proc[p].columns)
      BY <2>1, <2>2, LineFacts, LineColumns
    <2>4. <<>> \in Seq(Piece) /\ Is(<<>>, proc[p].columns)
      BY DEF Is
    <2>5. Is(proc'[p].out, proc[p].columns)
      BY <2>1, <2>3, <2>4, ConcatColumns
    <2> QED BY <2>1, <2>5 DEF SchemaInv, OneSchema, Is
  <1>7. ASSUME NEW n \in 1..4, Write(p, n) PROVE SchemaInv(p)'
    <2> DEFINE out == proc[p].out
    <2>1. /\ n \in 1..Len(out) /\ file' = file \o SubSeq(out, 1, n)
          /\ proc[p].pc = "write" /\ proc'[p].columns = proc[p].columns
          /\ proc'[p].pc \in {"unlock", "write"}
          /\ proc'[p].out = SubSeq(out, n + 1, Len(out))
      BY <1>0, <1>7, WriteStep
    <2>2. Is(file, proc[p].columns) /\ Is(out, proc[p].columns)
      BY <2>1 DEF SchemaInv
    <2>3. /\ Is(SubSeq(out, 1, n), proc[p].columns) /\ Is(SubSeq(out, n + 1, Len(out)), proc[p].columns)
          /\ SubSeq(out, 1, n) \in Seq(Piece)
      BY <1>0, <2>1, <2>2, PartColumns, SplitFacts
    <2>4. Is(file', proc[p].columns) /\ file' \in Seq(Piece)
      BY <1>0, <2>1, <2>2, <2>3, ConcatColumns, ConcatFacts
    <2>5. OneSchema'
      BY <2>4, SameColumns DEF OneSchema
    <2> QED BY <2>1, <2>3, <2>4, <2>5 DEF SchemaInv, Is
  <1>8. CASE WriteFails(p)
    <2>1. /\ file' = file /\ proc[p].pc = "write" /\ proc'[p].pc = "unlock"
          /\ proc'[p].columns = proc[p].columns
      BY <1>0, <1>8, WriteFailsStep
    <2> QED BY <2>1 DEF SchemaInv, OneSchema, Is
  <1>9. CASE Unlock(p)
    <2>1. /\ file' = file /\ proc[p].pc = "unlock" /\ proc'[p].pc = "idle"
          /\ proc'[p].columns = proc[p].columns
      BY <1>0, <1>9, UnlockStep
    <2> QED BY <2>1 DEF SchemaInv, OneSchema, Is
  <1>10. CASE ServerCrash(p)
    <2>1. file' = file /\ proc'[p].pc = "down"
      BY <1>0, <1>10, ServerCrashStep
    <2> QED BY <2>1 DEF SchemaInv, OneSchema, Is
  <1> QED
    BY <1>1, <1>2, <1>3, <1>4, <1>5, <1>6, <1>7, <1>8, <1>9, <1>10, OthersStayDown

SoloInv == \A p \in Processes : setting.servers = {p} => SchemaInv(p) /\ Down(p)

\* With one server on a log, the columns never change while it holds any row: over
\* truncation by logrotate, failed writes, crashes and restarts (initialize,
\* loadHeader, append).
LEMMA ColumnsStay == LogSpec => []SoloInv
  <1>1. LogInit => SoloInv
    <2> SUFFICES ASSUME LogInit PROVE SoloInv
      OBVIOUS
    <2>1. file = <<>> /\ \A p \in Processes : proc[p].pc = "down"
      BY DEF LogInit
    <2> QED BY <2>1 DEF SoloInv, Down, SchemaInv, OneSchema, Is
  <1>2. LogInv /\ SoloInv /\ [LogNext]_logVars => SoloInv'
    <2> SUFFICES ASSUME LogInv, SoloInv, [LogNext]_logVars,
                        NEW p \in Processes, setting'.servers = {p}
                 PROVE  SchemaInv(p)' /\ Down(p)'
      BY DEF SoloInv
    <2>1. setting.servers = {p}
      BY SettingStays
    <2>2. SchemaInv(p) /\ Down(p) /\ TypesInv
      BY <2>1 DEF SoloInv, LogInv
    <2> QED BY <2>1, <2>2, SchemaNext, OthersStayDown
  <1> QED BY <1>1, <1>2, LogInvariant, PTL DEF LogSpec

(* Whoever reads the log can read it.  However many processes append and   *)
(* wherever a call of write stops, the pieces of a record stand together,  *)
(* only inside the lock the last one may be half, and the one header is at *)
(* the beginning, whichever of the processes that found the file empty     *)
(* came first.  With one server the columns stay, whatever fails           *)
(* (StatusLog::append, writeRecord, writeAll, initialize, loadHeader).     *)
THEOREM LogReadable == LogSpec => []LogIsReadable
  <1>1. LogInv /\ SoloInv => LogIsReadable
    BY RecordsAreWhole, HeaderIsFirst DEF LogIsReadable, SoloInv, SchemaInv
  <1> QED BY <1>1, LogInvariant, ColumnsStay, PTL
=============================================================================
