----------------------------- MODULE StatusLog ------------------------------
(***************************************************************************)
(* The status log: a CSV file to which every status is appended by the     *)
(* server (src/src/server/statuslog.cpp), and which other processes share  *)
(* with it: a second server, or logrotate with copytruncate.               *)
(*                                                                         *)
(* A line reaches the file in two pieces, of which the second ends it: a   *)
(* call of write may take one of them only.  Of a line only its columns    *)
(* are kept; a row has a field for each, and what is left in the last one. *)
(***************************************************************************)
EXTENDS Naturals, Sequences

CONSTANTS
    Processes,  \* servers that may be given the same log
    Nobody,
    Keys,       \* keys of a status
    Settings,   \* who is given the log, and what may go wrong there
    MaxPieces   \* bound: pieces of the file

ASSUME LogAssumption ==
    /\ Nobody \notin Processes /\ MaxPieces \in Nat
    /\ Settings \subseteq [servers : SUBSET Processes,
                           faults : SUBSET {"truncate", "full", "crash"}]

VARIABLES
    file,       \* the pieces, in their order
    lock,       \* who holds flock
    proc,       \* per process: where it is, its columns, what it has still to write
    setting     \* does not change

logVars == <<file, lock, proc, setting>>

Line(kind, columns) ==
    [part \in 1..2 |-> [line |-> kind, columns |-> columns, part |-> part]]

At(p, pc) == proc[p].pc = pc
Goes(p, pc) == proc' = [proc EXCEPT ![p].pc = pc]

-----------------------------------------------------------------------------
\* initialize and loadHeader.  An empty file has no columns yet; what does not
\* end with a line end or does not begin with a header is refused.
Readable ==
    /\ file[Len(file)].part = 2
    /\ file[1].line = "header" /\ file[1].part = 1

Initialize(p) ==
    /\ p \in setting.servers /\ At(p, "down")
    /\ proc' = [proc EXCEPT
          ![p] = IF file = <<>> THEN [pc |-> "idle", columns |-> {}, out |-> <<>>]
                 ELSE IF Readable THEN [pc |-> "idle", columns |-> file[1].columns, out |-> <<>>]
                 ELSE [pc |-> "refused", columns |-> {}, out |-> <<>>]]
    /\ UNCHANGED <<file, lock>>

\* append: the first status of a new log names the columns.
ColumnsFor(p, status) == IF proc[p].columns = {} THEN status ELSE proc[p].columns

BeginAppend(p, status) ==
    /\ At(p, "idle") /\ Len(file) + 4 <= MaxPieces
    /\ LET columns == ColumnsFor(p, status)
       IN  proc' = [proc EXCEPT ![p] = [pc |-> "open", columns |-> columns,
                                        out |-> Line("row", columns)]]
    /\ UNCHANGED <<file, lock>>

\* writeRecord.  MUTANT: nobody is waited for.
FlockIgnored(p) == At(p, "open") /\ lock' = p /\ Goes(p, "stat") /\ UNCHANGED file
Flock(p) == At(p, "open") /\ lock = Nobody /\ lock' = p /\ Goes(p, "stat") /\ UNCHANGED file

Fstat(p) ==
    /\ At(p, "stat")
    /\ proc' = [proc EXCEPT ![p].pc = "write",
                            ![p].out = (IF file = <<>> THEN Line("header", proc[p].columns)
                                        ELSE <<>>) \o @]
    /\ UNCHANGED <<file, lock>>

\* writeAll: one call of write.
Write(p, n) ==
    /\ At(p, "write") /\ n \in 1..Len(proc[p].out)
    /\ file' = file \o SubSeq(proc[p].out, 1, n)
    /\ proc' = [proc EXCEPT ![p].out = SubSeq(@, n + 1, Len(@)),
                            ![p].pc = IF n = Len(proc[p].out) THEN "unlock" ELSE "write"]
    /\ UNCHANGED lock

WriteFails(p) ==
    /\ "full" \in setting.faults /\ At(p, "write")
    /\ proc' = [proc EXCEPT ![p].out = <<>>, ![p].pc = "unlock"]
    /\ UNCHANGED <<file, lock>>

Unlock(p) ==
    /\ At(p, "unlock")
    /\ lock' = (IF lock = p THEN Nobody ELSE lock)
    /\ Goes(p, "idle") /\ UNCHANGED file

-----------------------------------------------------------------------------
(* The surroundings.                                                       *)

ServerCrash(p) ==
    /\ "crash" \in setting.faults /\ ~At(p, "down")
    /\ proc' = [proc EXCEPT ![p] = [pc |-> "down", columns |-> {}, out |-> <<>>]]
    /\ lock' = (IF lock = p THEN Nobody ELSE lock)
    /\ UNCHANGED file

\* copytruncate takes no lock.
Truncate == "truncate" \in setting.faults /\ file # <<>> /\ file' = <<>> /\ UNCHANGED <<lock, proc>>

LogInit ==
    /\ setting \in Settings
    /\ file = <<>> /\ lock = Nobody
    /\ proc = [p \in Processes |-> [pc |-> "down", columns |-> {}, out |-> <<>>]]

LogNext ==
    /\ UNCHANGED setting
    /\ \/ Truncate
       \/ \E p \in Processes :
             \/ Initialize(p) \/ Flock(p) \/ Fstat(p) \/ WriteFails(p) \/ Unlock(p) \/ ServerCrash(p)
             \/ \E status \in (SUBSET Keys) \ {{}} : BeginAppend(p, status)
             \/ \E n \in 1..4 : Write(p, n)

LogSpec == LogInit /\ [][LogNext]_logVars

-----------------------------------------------------------------------------
LogTypeOK ==
    /\ lock \in Processes \cup {Nobody}
    /\ \A p \in Processes :
          proc[p].pc \in {"down", "refused", "idle", "open", "stat", "write", "unlock"}
    /\ \A i \in 1..Len(file) : file[i].columns \in (SUBSET Keys) \ {{}}

(* The pieces of a line stand together, however many processes write: a    *)
(* reader that takes the lock sees whole records                           *)
(* (docs/ARCHITECTURE.md:60, "Ein Prozess-Lock und O_APPEND schuetzen      *)
(* vollstaendige Datensaetze").                                            *)
WholeRecords ==
    \A i \in 1..Len(file) :
       IF file[i].part = 2 THEN i > 1 /\ file[i - 1] = [file[i] EXCEPT !.part = 1]
       ELSE IF i < Len(file) THEN file[i + 1].part = 2
       ELSE lock # Nobody

(* A log nobody writes to begins with its header and has no other          *)
(* (docs/ARCHITECTURE.md:61, "die Kopfzeile wird nach copytruncate selbst  *)
(* wiederhergestellt").                                                    *)
HeaderFirst ==
    lock = Nobody => \A i \in 1..Len(file) : file[i].line = "header" <=> i \in 1..2

(* A row is read with the columns of the header: the columns of a log do   *)
(* not change while it is in use, over truncation, failed writes and       *)
(* restarts (docs/USER_GUIDE.de.md:315, "damit sich die Anzahl und         *)
(* Bedeutung der bestehenden CSV-Spalten nicht aendert").                  *)
OneSchema == \A i, j \in 1..Len(file) : file[i].columns = file[j].columns

(* Records are whole and follow one header, however many processes share   *)
(* the log, as long as nothing fails; the columns of a log of one server   *)
(* stay the same, whatever fails.                                          *)
LogIsReadable ==
    /\ setting.faults = {} => WholeRecords /\ HeaderFirst
    /\ (\E p \in Processes : setting.servers = {p}) => OneSchema
=============================================================================
