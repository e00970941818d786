------------------------------- MODULE Journal -------------------------------
(***************************************************************************)
(* The event journal of one job as bytes on disk: append_jsonl and         *)
(* iter_jsonl of storage/json_io.py, under the transitions of              *)
(* core/job_service.py that write it before job.json and the replay of     *)
(* core/recovery.py that reads it back.                                    *)
(*                                                                         *)
(* An append that is cut off, because the process dies or the disk is      *)
(* full, leaves the first part of its line without a newline, and the next *)
(* append goes on from there.  So a physical line is a sequence of pieces, *)
(* and parses only when it is one whole record.  Text is written as UTF-8  *)
(* without escapes, so a cut may also fall inside a character, and then    *)
(* the file is no text at all.                                             *)
(*                                                                         *)
(* stage counts the transitions of the job; it stands for its status.      *)
(***************************************************************************)
EXTENDS Naturals, SequencesExt

CONSTANTS NoJob,        \* no call has a job in memory
          Unreadable,   \* what a read that raises returns
          MaxEvents,    \* bound: appends that have returned
          MaxCuts       \* bound: appends that are cut off

ASSUME JournalAssumption ==
    /\ MaxEvents \in Nat /\ MaxCuts \in Nat
    /\ NoJob \notin [seq : Nat, stage : Nat]
    /\ Unreadable \notin Seq([seq : Nat, stage : Nat])

Event == [seq : Nat, stage : Nat]
JobRecord == [seq : Nat, stage : Nat]

\* "whole" lacks at most its newline; "cut" ends between two characters and
\* "split" inside one.
Parts == {"whole", "cut", "split"}

Piece == [event : Event, part : Parts]

VARIABLES
    lines,    \* events.jsonl
    ended,    \* whether the file ends with a newline
    job,      \* job.json
    mem,      \* the job of the call in progress, its event journalled
    cuts,     \* appends cut off so far
    acked     \* history: the events whose append has returned, in order

journalVars == <<lines, ended, job, mem, cuts, acked>>

JournalTypeOK ==
    /\ lines \in Seq(Seq(Piece))
    /\ ended \in BOOLEAN
    /\ job \in JobRecord
    /\ mem \in JobRecord \union {NoJob}
    /\ cuts \in 0 .. MaxCuts
    /\ acked \in Seq(Event)

Created == [seq |-> 0, stage |-> 0]

\* create_job has returned.
JournalInit ==
    /\ lines = << <<[event |-> Created, part |-> "whole"]>> >>
    /\ ended = TRUE
    /\ job = Created
    /\ mem = NoJob
    /\ cuts = 0
    /\ acked = <<Created>>

-----------------------------------------------------------------------------
\* The file after writing a piece at its end.
Extend(piece) ==
    IF ended THEN Append(lines, <<piece>>)
    ELSE Append(Front(lines), Append(Last(lines), piece))

\* _transition_job up to the save: _emit_event, with the next sequence.
Transition == [seq |-> job.seq + 1, stage |-> job.stage + 1]

Emit ==
    /\ mem = NoJob
    /\ Len(acked) < MaxEvents
    /\ lines' = Extend([event |-> Transition, part |-> "whole"])
    /\ ended' = TRUE
    /\ mem' = Transition
    /\ acked' = Append(acked, Transition)
    /\ UNCHANGED <<job, cuts>>

\* The append is cut off; the call ends, and what it had in memory is gone.
EmitCut(part) ==
    /\ mem = NoJob
    /\ Len(acked) < MaxEvents
    /\ cuts < MaxCuts
    /\ lines' = Extend([event |-> Transition, part |-> part])
    /\ ended' = FALSE
    /\ cuts' = cuts + 1
    /\ UNCHANGED <<job, mem, acked>>

\* Faulty variant: the call saves once more, what it no longer has.
Save_Again ==
    /\ job' = mem
    /\ mem' = NoJob
    /\ UNCHANGED <<lines, ended, cuts, acked>>

\* save_job by write_json_atomic: a complete temporary file replaces the old one.
Save ==
    /\ mem # NoJob
    /\ job' = mem
    /\ mem' = NoJob
    /\ UNCHANGED <<lines, ended, cuts, acked>>

\* The process dies between the two writes, or the temporary file cannot be
\* written or put in place, and is removed.
SaveLost ==
    /\ mem # NoJob
    /\ mem' = NoJob
    /\ UNCHANGED <<lines, ended, job, cuts, acked>>

-----------------------------------------------------------------------------
Parses(line) == Len(line) = 1 /\ line[1].part = "whole"

Records(ls) == [i \in DOMAIN ls |-> ls[i][1].event]

\* Faulty variant: lines that do not parse are passed over, wherever they are.
Read_PassingOver ==
    IF \E i \in DOMAIN lines : \E k \in DOMAIN lines[i] : lines[i][k].part = "split"
    THEN Unreadable
    ELSE Records(SelectSeq(lines, Parses))

\* Faulty variant: the final line is never trusted.
Read_BarFinal ==
    IF \A i \in DOMAIN Front(lines) : Parses(lines[i]) THEN Records(Front(lines))
    ELSE Unreadable

\* read_events: a split character anywhere raises UnicodeDecodeError, a bad line
\* that is not the last JsonlCorruptionError; a bad last line ends the iteration.
Read ==
    IF \E i \in DOMAIN lines : \E k \in DOMAIN lines[i] : lines[i][k].part = "split"
    THEN Unreadable
    ELSE IF \A i \in DOMAIN lines : Parses(lines[i]) THEN Records(lines)
    ELSE IF \A i \in DOMAIN Front(lines) : Parses(lines[i]) THEN Records(Front(lines))
    ELSE Unreadable

Contiguous(events) == \A i \in DOMAIN events : events[i].seq = i - 1

\* reconcile_job_events, of a job that is not in a terminal status.  job.created
\* names no status, so a journal of that event alone leaves the status as it is.
Reconciled(events) ==
    [seq   |-> IF job.seq < Last(events).seq THEN Last(events).seq ELSE job.seq,
     stage |-> IF Last(events) = Created THEN job.stage ELSE Last(events).stage]

\* scan_and_reconcile: what cannot be read or has a gap raises, and ends the scan.
Scan ==
    /\ mem = NoJob
    /\ Read # Unreadable
    /\ Read # <<>>
    /\ Contiguous(Read)
    /\ job' = Reconciled(Read)
    /\ UNCHANGED <<lines, ended, mem, cuts, acked>>

JournalNext ==
    \/ Emit
    \/ \E part \in Parts : EmitCut(part)
    \/ Save
    \/ SaveLost
    \/ Scan

JournalSpec == JournalInit /\ [][JournalNext]_journalVars

-----------------------------------------------------------------------------
(***************************************************************************)
(* Properties.                                                             *)
(***************************************************************************)

\* A read that succeeds returns the events whose append has returned, in their
\* order, and at most one more that was not acknowledged; or all but the last of
\* them, which went onto the line of one cut off (json_io.py:82 does not look for
\* a newline).  No number of cuts makes a read lose more without raising.
ReadLosesAtMostTheLast ==
    Read # Unreadable =>
        \/ IsPrefix(acked, Read) /\ Len(Read) <= Len(acked) + 1
        \/ Read = Front(acked)

\* An append has gone onto the line of one that was cut off.
Merged == \E i \in DOMAIN lines : Len(lines[i]) > 1

\* "All transitions append monotonic events [...] prior to atomic job.json
\* updates" (docs/ARCHITECTURE.md:101), and the scan sets the status to the one
\* the journal ends with: over any crashes, cuts and scans that can take a job
\* back to an earlier status only if an append has gone onto a line cut off.
StatusMovesForward ==
    [][job'.stage < job.stage => Merged]_journalVars
=============================================================================
