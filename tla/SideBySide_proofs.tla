-------------------------- MODULE SideBySide_proofs --------------------------
(***************************************************************************)
(* Theorems about the machines that share nothing: the journal as bytes,   *)
(* the manual quota, the retention of checkpoints, the binding of          *)
(* artefacts to jobs and the diagnosis of a scene.                         *)
(***************************************************************************)
EXTENDS Journal, Quota, JobBinding, SceneDiagnosis, Retention, SequenceTheorems,
        FiniteSetTheorems, WellFoundedInduction, TLAPS

-----------------------------------------------------------------------------
(***************************************************************************)
(* The journal.  Every line but an unended last one was finished by an      *)
(* append that returned, so the k-th line ends with the k-th event          *)
(* acknowledged, whatever was cut off before it on the same line.           *)
(***************************************************************************)

Acknowledged ==
    /\ Len(acked) > 0
    /\ Len(lines) = IF ended THEN Len(acked) ELSE Len(acked) + 1
    /\ \A i \in 1 .. Len(lines) : Len(lines[i]) > 0
    /\ \A i \in 1 .. Len(acked) : Last(lines[i]) = [event |-> acked[i], part |-> "whole"]

\* Between the append and the save nothing else moves the job or the journal.
CallInProgress ==
    mem # NoJob => ended /\ mem = Transition /\ mem = Last(acked)

\* The last append was cut off at its newline only: a read takes it for whole.
Unended == ~ended /\ Parses(Last(lines))

\* As long as no line is spoilt, the journal is as far as job.json.
StatusBehind ==
    ~Merged =>
        /\ Unended \/ job.stage <= Last(acked).stage
        /\ Unended => job.stage <= Last(lines)[1].event.stage

JournalInv == JournalTypeOK /\ Acknowledged /\ CallInProgress /\ StatusBehind

\* What an append does to the lines.
LEMMA ExtendProperties ==
    ASSUME JournalTypeOK, Acknowledged, NEW piece \in Piece
    PROVE  LET new == Extend(piece) IN
           /\ new \in Seq(Seq(Piece))
           /\ Len(new) = Len(acked) + 1
           /\ \A i \in 1 .. Len(acked) : new[i] = lines[i]
           /\ \A i \in 1 .. Len(new) : Len(new[i]) > 0
           /\ Last(new[Len(new)]) = piece
           /\ ended => new[Len(new)] = <<piece>>
           /\ ~ended => Len(new[Len(new)]) > 1
<1> DEFINE n == Len(lines)
           last == lines[n]
<1> USE DEF JournalTypeOK
<1>1. n \in Nat /\ n > 0 /\ lines \in [1 .. n -> Seq(Piece)] /\ Len(acked) \in Nat
  BY LenProperties DEF Acknowledged
<1>2. CASE ended
  <2>1. n = Len(acked) /\ Extend(piece) = Append(lines, <<piece>>)
    BY <1>2 DEF Acknowledged, Extend
  <2>2. <<piece>> \in Seq(Piece) /\ Len(<<piece>>) = 1 /\ Last(<<piece>>) = piece
    BY DEF Last
  <2> QED BY <1>1, <1>2, <2>1, <2>2, AppendProperties DEF Acknowledged
<1>3. CASE ~ended
  <2>1. n = Len(acked) + 1
    BY <1>3 DEF Acknowledged
  <2>2. last \in Seq(Piece) /\ Len(last) > 0 /\ Len(last) \in Nat
    <3>1. last \in Seq(Piece)
      BY <1>1
    <3>2. \A i \in 1 .. Len(lines) : Len(lines[i]) > 0
      BY DEF Acknowledged
    <3> QED BY <1>1, <3>1, <3>2, LenProperties
  <2> DEFINE longer == Append(last, piece)
             before == SubSeq(lines, 1, n - 1)
  <2>3. /\ longer \in Seq(Piece) /\ Len(longer) = Len(last) + 1
        /\ longer[Len(last) + 1] = piece
    BY <2>2, AppendProperties
  <2>4. \A i \in 1 .. n - 1 : lines[i] \in Seq(Piece)
    BY <1>1
  <2>5. /\ before \in Seq(Seq(Piece)) /\ Len(before) = n - 1
        /\ \A i \in 1 .. n - 1 : before[i] = lines[i]
    BY <1>1, <2>1, <2>4, SubSeqProperties
  <2>6. Extend(piece) = Append(before, longer)
    BY <1>3 DEF Extend, Front, Last
  <2> HIDE DEF longer, before, last
  <2> DEFINE new == Append(before, longer)
  <2>7. /\ new \in Seq(Seq(Piece)) /\ Len(new) = n
        /\ \A i \in 1 .. n - 1 : new[i] = lines[i]
        /\ new[n] = longer
    BY <1>1, <2>1, <2>3, <2>5, AppendProperties
  <2>8. Last(longer) = piece /\ Len(longer) > 1
    BY <2>2, <2>3 DEF Last
  <2>0. \A i \in 1 .. n : Len(lines[i]) > 0
      BY DEF Acknowledged
  <2> HIDE DEF new, n
  <2>9. \A i \in 1 .. n : Len(new[i]) > 0
    <3>1. \A i \in 1 .. n : i # n => i \in 1 .. n - 1
      BY <1>1
    <3>2. \A i \in 1 .. n - 1 : i \in 1 .. n /\ new[i] = lines[i]
      BY <1>1, <2>7
    <3>3. ASSUME NEW i \in 1 .. n PROVE Len(new[i]) > 0
      <4>1. CASE i = n
        <5>1. new[i] = longer
          BY <2>7, <4>1
        <5> QED BY <5>1, <2>8, <2>2, <2>3
      <4>2. CASE i # n
        <5>1. new[i] = lines[i]
          BY <3>1, <3>2, <4>2
        <5> QED BY <2>0, <5>1
      <4> QED BY <4>1, <4>2
    <3> QED BY <3>3
  <2> QED BY <1>3, <2>1, <2>6, <2>7, <2>8, <2>9 DEF new
<1> QED BY <1>2, <1>3

\* What a read that succeeds returns: the events of the lines, of all of them or
\* of all but a last one that does not parse.
LEMMA ReadProperties ==
    ASSUME JournalTypeOK, Acknowledged, Read # Unreadable
    PROVE  /\ Read \in Seq(Event)
           /\ \/ Len(Read) = Len(lines)
              \/ Len(Read) = Len(lines) - 1 /\ ~Parses(Last(lines))
           /\ \A i \in 1 .. Len(Read) : Parses(lines[i]) /\ Read[i] = lines[i][1].event
<1> DEFINE n == Len(lines)
           events(m) == [i \in 1 .. m |-> lines[i][1].event]
<1>1. n \in Nat /\ n > 0 /\ lines \in [1 .. n -> Seq(Piece)] /\ DOMAIN lines = 1 .. n
  BY LenProperties DEF Acknowledged, JournalTypeOK
<1>2. ASSUME NEW m \in 0 .. n, \A i \in 1 .. m : Parses(lines[i])
      PROVE  events(m) \in Seq(Event) /\ Len(events(m)) = m
  <2>1. ASSUME NEW i \in 1 .. m PROVE lines[i][1].event \in Event
    <3>1. lines[i] \in Seq(Piece) /\ Len(lines[i]) = 1
      BY <1>1, <1>2 DEF Parses
    <3>2. lines[i][1] \in Piece
      BY <3>1, ElementOfSeq
    <3> QED BY <3>2 DEF Piece
  <2>2. events(m) \in [1 .. m -> Event]
    BY <2>1
  <2>3. m \in Nat
    BY <1>1
  <2> HIDE DEF events
  <2> QED BY <2>2, <2>3, SeqDef, LenProperties
<1>3. CASE \A i \in DOMAIN lines : Parses(lines[i])
  <2>1. Read = events(n)
    BY <1>1, <1>3 DEF Read, Records
  <2>2. n \in 0 .. n
    BY <1>1
  <2>3. events(n) \in Seq(Event) /\ Len(events(n)) = n
    BY <1>1, <1>2, <1>3, <2>2
  <2> QED BY <1>1, <1>3, <2>1, <2>3
<1>4. CASE ~ \A i \in DOMAIN lines : Parses(lines[i])
  <2> DEFINE front == SubSeq(lines, 1, n - 1)
  <2>1. /\ Len(front) = n - 1 /\ DOMAIN front = 1 .. n - 1
        /\ \A i \in 1 .. n - 1 : front[i] = lines[i]
    <3>1. \A i \in 1 .. n - 1 : lines[i] \in Seq(Piece)
      BY <1>1
    <3>2. front \in Seq(Seq(Piece)) /\ Len(front) = IF 1 <= n - 1 THEN n - 1 ELSE 0
      BY <1>1, <3>1, SubSeqProperties
    <3>3. \A i \in 1 .. n - 1 : front[i] = lines[i]
      BY <1>1, <3>1, SubSeqProperties
    <3> HIDE DEF front, n
    <3>4. Len(front) = n - 1
      BY <1>1, <3>2
    <3>5. DOMAIN front = 1 .. Len(front)
      BY <3>2, LenProperties
    <3> QED BY <3>3, <3>4, <3>5
  <2>2. Front(lines) = front
    BY DEF Front
  <2> HIDE DEF front
  <2>3. /\ \A i \in DOMAIN front : Parses(lines[i])
        /\ Read = Records(front)
    BY <1>4, <2>2 DEF Read
  <2>4. Read = events(n - 1)
    BY <2>1, <2>3 DEF Records
  <2>5. n - 1 \in 0 .. n
    BY <1>1
  <2>6. \A i \in 1 .. n - 1 : Parses(lines[i])
    BY <2>1, <2>3
  <2>7. events(n - 1) \in Seq(Event) /\ Len(events(n - 1)) = n - 1
    BY <1>2, <2>5, <2>6
  <2>8. ~Parses(lines[n])
    BY <1>1, <1>4, <2>6
  <2> QED BY <1>1, <2>4, <2>6, <2>7, <2>8 DEF Last
<1> QED BY <1>3, <1>4

\* The k-th line that parses is the k-th event acknowledged.
LEMMA ReadIsAcknowledged ==
    ASSUME JournalTypeOK, Acknowledged, Read # Unreadable,
           NEW i \in 1 .. Len(Read), i <= Len(acked)
    PROVE  Read[i] = acked[i]
<1>1. Len(Read) \in Nat /\ Len(acked) \in Nat
  BY ReadProperties, LenProperties DEF JournalTypeOK
<1>2. Last(lines[i]) = [event |-> acked[i], part |-> "whole"]
  BY <1>1 DEF Acknowledged
<1>3. Parses(lines[i]) /\ Read[i] = lines[i][1].event
  BY ReadProperties
<1> QED BY <1>2, <1>3 DEF Last, Parses

\* A read loses the last acknowledged event only when that event went onto a line
\* cut off.
LEMMA ReadLength ==
    ASSUME JournalTypeOK, Acknowledged, Read # Unreadable
    PROVE  /\ Len(Read) \in Len(acked) - 1 .. Len(acked) + 1
           /\ Len(Read) = Len(acked) + 1 => Unended
           /\ Len(Read) = Len(acked) - 1 => Merged
           /\ Len(Read) = Len(acked) => ~Unended
<1>1. /\ Len(Read) \in Nat /\ Len(acked) \in Nat /\ Len(lines) \in Nat
      /\ DOMAIN lines = 1 .. Len(lines)
  BY ReadProperties, LenProperties DEF JournalTypeOK
<1>2. CASE Len(Read) = Len(lines)
  <2>1. Parses(lines[Len(lines)])
    BY <1>1, <1>2, ReadProperties DEF Acknowledged
  <2> QED BY <1>1, <1>2, <2>1 DEF Acknowledged, Unended, Last
<1>3. CASE Len(Read) = Len(lines) - 1 /\ ~Parses(Last(lines))
  <2>1. CASE ~ended
    BY <1>1, <1>3, <2>1 DEF Acknowledged, Unended
  <2>2. CASE ended
    <3> DEFINE last == lines[Len(lines)]
    <3>0. Len(lines) = Len(acked) /\ Len(lines) \in 1 .. Len(acked)
      BY <1>1, <2>2 DEF Acknowledged
    <3>1. last[Len(last)].part = "whole" /\ Len(last) > 0
      <4>1. Last(last) = [event |-> acked[Len(lines)], part |-> "whole"]
        BY <3>0 DEF Acknowledged
      <4>2. \A i \in 1 .. Len(lines) : Len(lines[i]) > 0
        BY DEF Acknowledged
      <4>3. Len(lines) \in 1 .. Len(lines)
        BY <3>0
      <4> QED BY <4>1, <4>2, <4>3 DEF Last
    <3>2. ~(Len(last) = 1 /\ last[1].part = "whole")
      BY <1>3 DEF Parses, Last
    <3>3. last \in Seq(Piece)
      BY <3>0, ElementOfSeq DEF JournalTypeOK
    <3>4. Len(last) \in Nat
      BY <3>3, LenProperties
    <3> HIDE DEF last
    <3>5. Len(last) > 1
      BY <3>1, <3>2, <3>4
    <3>6. Len(lines) \in DOMAIN lines
      BY <1>1, <3>0
    <3> QED BY <1>1, <1>3, <2>2, <3>0, <3>5, <3>6 DEF Merged, Unended, last
  <2> QED BY <2>1, <2>2
<1> QED BY <1>2, <1>3, ReadProperties

\* An append puts its line at the end of the file, or spoils the line cut off.
LEMMA AppendStep ==
    ASSUME JournalTypeOK, Acknowledged, NEW part \in Parts,
           lines' = Extend([event |-> Transition, part |-> part])
    PROVE  /\ lines' \in Seq(Seq(Piece))
           /\ Len(lines') = Len(acked) + 1
           /\ \A i \in 1 .. Len(lines') : Len(lines'[i]) > 0
           /\ \A i \in 1 .. Len(acked) :
                 Last(lines'[i]) = [event |-> acked[i], part |-> "whole"]
           /\ Last(lines'[Len(lines')]) = [event |-> Transition, part |-> part]
           /\ ended => lines'[Len(lines')] = <<[event |-> Transition, part |-> part]>>
           /\ ~Merged' => ended /\ ~Merged
<1> DEFINE piece == [event |-> Transition, part |-> part]
<1>1. piece \in Piece
  BY DEF JournalTypeOK, Transition, Piece, Event, JobRecord
<1>2. /\ lines' \in Seq(Seq(Piece))
      /\ Len(lines') = Len(acked) + 1
      /\ \A i \in 1 .. Len(acked) : lines'[i] = lines[i]
      /\ \A i \in 1 .. Len(lines') : Len(lines'[i]) > 0
      /\ Last(lines'[Len(lines')]) = piece
      /\ ended => lines'[Len(lines')] = <<piece>>
      /\ ~ended => Len(lines'[Len(lines')]) > 1
  <2> HIDE DEF piece
  <2> QED BY <1>1, ExtendProperties DEF piece
<1>3. \A i \in 1 .. Len(acked) : Last(lines'[i]) = [event |-> acked[i], part |-> "whole"]
  BY <1>2 DEF Acknowledged
<1>4. /\ Len(acked) \in Nat /\ Len(lines) \in Nat
      /\ DOMAIN lines = 1 .. Len(lines) /\ DOMAIN lines' = 1 .. Len(lines')
  BY <1>2, LenProperties DEF JournalTypeOK
<1>5. Len(lines') \in DOMAIN lines'
  BY <1>2, <1>4
<1>6. CASE ~ended
  BY <1>2, <1>3, <1>5, <1>6 DEF Merged
<1>7. CASE ended
  <2>1. DOMAIN lines = 1 .. Len(acked)
    BY <1>4, <1>7 DEF Acknowledged
  <2>2. \A i \in DOMAIN lines : i \in DOMAIN lines' /\ lines'[i] = lines[i]
    BY <1>2, <1>4, <2>1
  <2>3. Merged => Merged'
    BY <2>2 DEF Merged
  <2> QED BY <1>2, <1>3, <1>7, <2>3
<1> QED BY <1>6, <1>7

LEMMA EmitStep ==
    ASSUME JournalInv, Emit
    PROVE  JournalInv'
<1>1. /\ lines' = Extend([event |-> Transition, part |-> "whole"])
      /\ ended' /\ mem' = Transition /\ acked' = Append(acked, Transition)
      /\ job' = job /\ cuts' = cuts /\ "whole" \in Parts
  BY DEF Emit, Parts
<1>2. /\ lines' \in Seq(Seq(Piece))
      /\ Len(lines') = Len(acked) + 1
      /\ \A i \in 1 .. Len(lines') : Len(lines'[i]) > 0
      /\ \A i \in 1 .. Len(acked) :
            Last(lines'[i]) = [event |-> acked[i], part |-> "whole"]
      /\ Last(lines'[Len(lines')]) = [event |-> Transition, part |-> "whole"]
  BY <1>1, AppendStep DEF JournalInv
<1>3. Transition \in Event /\ Transition \in JobRecord /\ Transition' = Transition
  BY <1>1 DEF JournalInv, JournalTypeOK, Transition, Event, JobRecord
<1>4. /\ acked \in Seq(Event) /\ Len(acked) \in Nat
      /\ acked' \in Seq(Event) /\ Len(acked') = Len(acked) + 1
      /\ \A i \in 1 .. Len(acked) : acked'[i] = acked[i]
      /\ acked'[Len(acked) + 1] = Transition
  BY <1>1, <1>3, AppendProperties, LenProperties DEF JournalInv, JournalTypeOK
<1>5. JournalTypeOK'
  BY <1>1, <1>2, <1>3, <1>4 DEF JournalInv, JournalTypeOK
<1>6. Acknowledged'
  <2>1. ASSUME NEW i \in 1 .. Len(acked')
        PROVE  Last(lines'[i]) = [event |-> acked'[i], part |-> "whole"]
    <3>1. CASE i \in 1 .. Len(acked)
      BY <1>2, <1>4, <3>1
    <3>2. CASE i = Len(acked) + 1
      BY <1>2, <1>4, <3>2
    <3> QED BY <1>4, <3>1, <3>2
  <2> QED BY <1>1, <1>2, <1>4, <2>1 DEF Acknowledged
<1>7. CallInProgress'
  BY <1>1, <1>3, <1>4 DEF CallInProgress, Last
<1>8. StatusBehind'
  BY <1>1, <1>4 DEF StatusBehind, Unended, Last, Transition, JournalInv, JournalTypeOK, JobRecord
<1> QED BY <1>5, <1>6, <1>7, <1>8 DEF JournalInv

LEMMA EmitCutStep ==
    ASSUME JournalInv, NEW part \in Parts, EmitCut(part)
    PROVE  JournalInv'
<1>1. /\ lines' = Extend([event |-> Transition, part |-> part])
      /\ ended' = FALSE /\ mem = NoJob /\ mem' = mem /\ acked' = acked
      /\ job' = job /\ cuts < MaxCuts /\ cuts' = cuts + 1
  BY DEF EmitCut
<1>2. /\ lines' \in Seq(Seq(Piece))
      /\ Len(lines') = Len(acked) + 1
      /\ \A i \in 1 .. Len(lines') : Len(lines'[i]) > 0
      /\ \A i \in 1 .. Len(acked) :
            Last(lines'[i]) = [event |-> acked[i], part |-> "whole"]
      /\ ended => lines'[Len(lines')] = <<[event |-> Transition, part |-> part]>>
      /\ ~Merged' => ended /\ ~Merged
  BY <1>1, AppendStep DEF JournalInv
<1>3. JournalTypeOK'
  <2>1. MaxCuts \in Nat /\ cuts \in 0 .. MaxCuts
    BY JournalAssumption DEF JournalAssumption, JournalInv, JournalTypeOK
  <2>2. cuts' \in 0 .. MaxCuts
    BY <1>1, <2>1
  <2> QED BY <1>1, <1>2, <2>2 DEF JournalInv, JournalTypeOK
<1>4. Acknowledged' /\ CallInProgress'
  BY <1>1, <1>2 DEF JournalInv, Acknowledged, CallInProgress
<1>5. StatusBehind'
  <2> SUFFICES ASSUME ~Merged'
               PROVE  /\ job'.stage <= Last(acked').stage
                      /\ job'.stage <= Last(lines')[1].event.stage
    BY DEF StatusBehind
  <2>1. ended /\ ~Merged /\ ~Unended
    BY <1>2 DEF Unended
  <2>2. Last(lines')[1].event = Transition
    BY <1>2, <2>1 DEF Last
  <2> QED BY <1>1, <2>1, <2>2 DEF JournalInv, StatusBehind, Transition, JournalTypeOK, JobRecord
<1> QED BY <1>3, <1>4, <1>5 DEF JournalInv

LEMMA SaveStep ==
    ASSUME JournalInv, Save \/ SaveLost
    PROVE  JournalInv'
<1>1. /\ UNCHANGED <<lines, ended, cuts, acked>> /\ mem # NoJob /\ mem' = NoJob
      /\ job' \in {job, mem}
  BY DEF Save, SaveLost
<1>2. /\ JournalTypeOK' /\ Acknowledged' /\ CallInProgress'
  BY <1>1 DEF JournalInv, JournalTypeOK, Acknowledged, CallInProgress
<1>3. ended /\ mem = Last(acked) /\ mem = Transition
  BY <1>1 DEF JournalInv, CallInProgress
<1>4. job'.stage <= Last(acked).stage
  BY <1>1, <1>3 DEF JournalInv, JournalTypeOK, JobRecord, Transition
<1>5. StatusBehind'
  BY <1>1, <1>3, <1>4 DEF StatusBehind, Unended
<1> QED BY <1>2, <1>5 DEF JournalInv

\* Unless a line is spoilt, a scan takes the job forward, to the last event read.
LEMMA ScanForward ==
    ASSUME JournalInv, Scan
    PROVE  /\ job' \in JobRecord
           /\ ~Merged => /\ job.stage <= job'.stage
                         /\ Unended \/ job'.stage <= Last(acked).stage
                         /\ Unended => job'.stage <= Last(lines)[1].event.stage
<1>1. Read # Unreadable /\ Read # <<>> /\ job' = Reconciled(Read)
  BY DEF Scan
<1>2. JournalTypeOK /\ Acknowledged /\ StatusBehind /\ job \in JobRecord
  BY DEF JournalInv, JournalTypeOK
<1>3. Read \in Seq(Event) /\ Len(Read) \in Nat /\ Len(Read) > 0
  BY <1>1, <1>2, ReadProperties, LenProperties, EmptySeq
<1>4. Len(acked) \in Nat /\ Len(acked) > 0 /\ Len(lines) \in Nat
  BY <1>2, LenProperties DEF JournalTypeOK, Acknowledged
<1> DEFINE event == Last(Read)
<1>5. event \in Event
  BY <1>3, ElementOfSeq DEF Last
<1>6. job' \in JobRecord /\ job'.stage \in {job.stage, event.stage}
  <2> HIDE DEF event
  <2> QED BY <1>1, <1>2, <1>5 DEF Reconciled, event, Event, JobRecord
<1>7. ASSUME ~Merged
      PROVE  /\ job.stage <= event.stage
             /\ Unended \/ event = Last(acked)
             /\ Unended => event = Last(lines)[1].event
  <2>1. CASE Len(Read) = Len(acked)
    <3>1. ~Unended
      BY <1>1, <1>2, <2>1, ReadLength
    <3>2. event = Last(acked)
      BY <1>1, <1>2, <1>3, <2>1, ReadIsAcknowledged DEF Last
    <3> QED BY <1>2, <1>7, <3>1, <3>2 DEF StatusBehind
  <2>2. CASE Len(Read) = Len(acked) + 1
    <3>1. Unended
      BY <1>1, <1>2, <2>2, ReadLength
    <3>2. Len(Read) = Len(lines)
      BY <1>2, <2>2, <3>1 DEF Acknowledged, Unended
    <3>3. event = Last(lines)[1].event
      BY <1>1, <1>2, <1>3, <3>2, ReadProperties DEF Last
    <3> QED BY <1>2, <1>7, <3>1, <3>3 DEF StatusBehind
  <2>3. Len(Read) \in {Len(acked), Len(acked) + 1}
    <3>1. Len(Read) \in Len(acked) - 1 .. Len(acked) + 1 /\ Len(Read) # Len(acked) - 1
      BY <1>1, <1>2, <1>7, ReadLength
    <3> QED BY <1>4, <3>1
  <2> QED BY <2>1, <2>2, <2>3
<1> HIDE DEF event
<1>8. job.stage \in Nat /\ event.stage \in Nat
  BY <1>2, <1>5 DEF Event, JobRecord
<1> QED BY <1>2, <1>6, <1>7, <1>8 DEF StatusBehind

LEMMA ScanStep ==
    ASSUME JournalInv, Scan
    PROVE  JournalInv'
<1>1. UNCHANGED <<lines, ended, mem, cuts, acked>> /\ mem = NoJob
  BY DEF Scan
<1>2. JournalTypeOK' /\ Acknowledged' /\ CallInProgress'
  BY <1>1, ScanForward DEF JournalInv, JournalTypeOK, Acknowledged, CallInProgress
<1>3. StatusBehind'
  BY <1>1, ScanForward DEF StatusBehind, Merged, Unended
<1> QED BY <1>2, <1>3 DEF JournalInv

LEMMA JournalStart == JournalInit => JournalInv
<1> SUFFICES ASSUME JournalInit PROVE JournalInv
  OBVIOUS
<1> DEFINE first == <<[event |-> Created, part |-> "whole"]>>
<1>1. Created \in Event /\ Created \in JobRecord /\ [event |-> Created, part |-> "whole"] \in Piece
  BY DEF Created, Event, JobRecord, Piece, Parts
<1>2. first \in Seq(Piece) /\ Len(first) = 1 /\ Last(first) = [event |-> Created, part |-> "whole"]
  BY <1>1 DEF Last
<1> HIDE DEF first
<1>3. lines = <<first>> /\ ended /\ job = Created /\ mem = NoJob /\ cuts = 0 /\ acked = <<Created>>
  BY DEF JournalInit, first
<1>4. <<first>> \in Seq(Seq(Piece)) /\ Len(<<first>>) = 1 /\ <<first>>[1] = first
  BY <1>2
<1>5. <<Created>> \in Seq(Event) /\ Len(<<Created>>) = 1 /\ Last(<<Created>>) = Created
  BY <1>1 DEF Last
<1>6. JournalTypeOK
  BY <1>1, <1>3, <1>4, <1>5, JournalAssumption DEF JournalTypeOK, JournalAssumption
<1>7. Acknowledged
  BY <1>2, <1>3, <1>4, <1>5 DEF Acknowledged, Last
<1>8. CallInProgress /\ StatusBehind
  BY <1>3, <1>5 DEF CallInProgress, StatusBehind, Unended, Created
<1> QED BY <1>6, <1>7, <1>8 DEF JournalInv

LEMMA JournalStep == JournalInv /\ [JournalNext]_journalVars => JournalInv'
<1>1. ASSUME JournalInv, UNCHANGED journalVars PROVE JournalInv'
  BY <1>1 DEF journalVars, JournalInv, JournalTypeOK, Acknowledged, CallInProgress,
     StatusBehind, Unended, Merged, Transition
<1> QED BY <1>1, EmitStep, EmitCutStep, SaveStep, ScanStep DEF JournalNext

-----------------------------------------------------------------------------
\* Whatever is cut off, merged, saved, lost and scanned, the journal and the job
\* hold records of their types (storage/json_io.py, core/jobs.py).
THEOREM JournalTypeCorrect == JournalSpec => []JournalTypeOK
<1>1. JournalInv => JournalTypeOK
  BY DEF JournalInv
<1> QED BY <1>1, JournalStart, JournalStep, PTL DEF JournalSpec

\* However many appends are cut off, a read that does not raise returns what was
\* acknowledged, with at most one event too many or one too few, at the end
\* (storage/json_io.py:60-105).
THEOREM ReadsLoseLittle == JournalSpec => []ReadLosesAtMostTheLast
<1>1. ASSUME JournalInv PROVE ReadLosesAtMostTheLast
  <2> SUFFICES ASSUME Read # Unreadable
               PROVE  \/ IsPrefix(acked, Read) /\ Len(Read) <= Len(acked) + 1
                      \/ Read = Front(acked)
    BY DEF ReadLosesAtMostTheLast
  <2> DEFINE n == Len(acked)
  <2>1. JournalTypeOK /\ Acknowledged /\ acked \in Seq(Event)
    BY <1>1 DEF JournalInv, JournalTypeOK
  <2>2. /\ n \in Nat /\ n > 0 /\ acked \in [1 .. n -> Event]
        /\ Read \in Seq(Event) /\ Len(Read) \in Nat
        /\ Read \in [1 .. Len(Read) -> Event]
    BY <2>1, ReadProperties, LenProperties DEF Acknowledged
  <2>3. \A i \in 1 .. Len(Read) : i <= n => Read[i] = acked[i]
    BY <2>1, ReadIsAcknowledged
  <2>4. Len(Read) \in n - 1 .. n + 1
    BY <2>1, ReadLength
  <2> HIDE DEF n
  <2>5. CASE Len(Read) = n - 1
    <3> DEFINE front == SubSeq(acked, 1, n - 1)
    <3>1. /\ front \in Seq(Event) /\ Len(front) = n - 1
          /\ \A i \in 1 .. n - 1 : front[i] = acked[i]
      <4>1. \A i \in 1 .. n - 1 : acked[i] \in Event
        BY <2>2
      <4>2. /\ front \in Seq(Event) /\ Len(front) = IF 1 <= n - 1 THEN n - 1 ELSE 0
            /\ \A i \in 1 .. n - 1 : front[i] = acked[i]
        BY <2>2, <4>1, SubSeqProperties
      <4> HIDE DEF front
      <4> QED BY <2>2, <4>2
    <3> HIDE DEF front
    <3>2. \A i \in 1 .. Len(Read) : Read[i] = front[i]
      BY <2>2, <2>3, <2>5, <3>1
    <3>3. Read = front
      BY <2>2, <2>5, <3>1, <3>2, SeqEqual
    <3> QED BY <3>3 DEF Front, front, n
  <2>6. CASE Len(Read) \in n .. n + 1
    <3> DEFINE a == SubSeq(acked, 1, n)
               r == SubSeq(Read, 1, n)
    <3>1. /\ \A i \in 1 .. n : acked[i] \in Event /\ Read[i] \in Event
      BY <2>2, <2>6
    <3>2. /\ a \in Seq(Event) /\ Len(a) = n /\ \A i \in 1 .. n : a[i] = acked[i]
      BY <2>2, <3>1, SubSeqProperties
    <3>3. /\ r \in Seq(Event) /\ Len(r) = n /\ \A i \in 1 .. n : r[i] = Read[i]
      BY <2>2, <3>1, SubSeqProperties
    <3> HIDE DEF a, r
    <3>4. \A i \in 1 .. n : a[i] = r[i]
      BY <2>2, <2>3, <2>6, <3>2, <3>3
    <3>5. a = r
      BY <3>2, <3>3, <3>4, SeqEqual
    <3> QED BY <2>2, <2>6, <3>5 DEF IsPrefix, a, r, n
  <2> QED BY <2>2, <2>4, <2>5, <2>6
<1> QED BY <1>1, JournalStart, JournalStep, PTL DEF JournalSpec

\* Over any crashes, cut appends and scans, a job goes back to an earlier status
\* only when an append has gone onto a line cut off (core/recovery.py, replay;
\* docs/ARCHITECTURE.md:101).
THEOREM StatusOnlyForward == JournalSpec => StatusMovesForward
<1>1. ASSUME JournalInv, [JournalNext]_journalVars
      PROVE  [job'.stage < job.stage => Merged]_journalVars
  <2> SUFFICES ASSUME JournalNext, ~Merged PROVE ~(job'.stage < job.stage)
    BY <1>1
  <2>1. job.stage \in Nat
    BY <1>1 DEF JournalInv, JournalTypeOK, JobRecord
  <2>2. CASE Scan
    <3>1. job'.stage \in Nat /\ job.stage <= job'.stage
      BY <1>1, <2>2, ScanForward DEF JobRecord
    <3> QED BY <2>1, <3>1
  <2>3. CASE Save
    BY <1>1, <2>1, <2>3 DEF Save, JournalInv, CallInProgress, Transition
  <2>4. CASE SaveLost \/ Emit \/ \E part \in Parts : EmitCut(part)
    <3>1. job' = job
      BY <2>4 DEF SaveLost, Emit, EmitCut
    <3> QED BY <2>1, <3>1
  <2> QED BY <2>2, <2>3, <2>4 DEF JournalNext
<1> QED BY <1>1, JournalStart, JournalStep, PTL DEF JournalSpec, StatusMovesForward

-----------------------------------------------------------------------------
(***************************************************************************)
(* The manual quota.  What the file says when it is read is, for each       *)
(* account without a colon in its names, the newest entry made for it,      *)
(* unless that was signed out or spoilt; and the last answer, which any     *)
(* change of either takes with it, was made of that.  The key of such an    *)
(* account is no other account's, and only two profiles begin it.           *)
(***************************************************************************)

\* What the file should say of an account.
Standing(a) ==
    IF \/ entries.newest[a] = None \/ a \in entries.spoilt
       \/ entries.signedOut[a] \cap TakenBy(a) # {}
    THEN None ELSE entries.newest[a]

QuotaInv ==
    /\ bridge \in Bridges \cup {None}
    /\ panel \in Bridges \cup {Unchecked}
    /\ entries.count \in Nat
    /\ entries = [count |-> entries.count, newest |-> entries.newest,
                  spoilt |-> entries.spoilt, signedOut |-> entries.signedOut]
    /\ DOMAIN entries.newest = Accounts
    /\ \A a \in Accounts : entries.newest[a] \in Nat \cup {None}
    /\ DOMAIN entries.signedOut = Accounts
    /\ DOMAIN file = Keys
    /\ \A a \in Accounts : Plain(a) => ReadFile[Key(a)] = Standing(a)
    /\ AnswerIsTheAccounts

LEMMA NamesAreText ==
    /\ \A a \in Accounts : a.profile \in Text /\ a.provider \in Text /\ a.model \in Text
    /\ \A p \in Profiles : p \in Text
    /\ \A a \in Accounts : a = [profile |-> a.profile, provider |-> a.provider,
                                model |-> a.model]
    /\ \A p \in Profiles, s \in Bridges \cup {Unchecked} : Account(p, s) \in Accounts
    /\ <<"default">> \in Profiles
<1>1. \A p \in Profiles : p \in Text
  BY QuotaAssumption DEF QuotaAssumption
<1>2. \A a \in Named : a \in [profile : Text, provider : Text, model : Text]
  BY QuotaAssumption DEF QuotaAssumption
<1>3. ASSUME NEW p \in STRING, NEW m \in STRING
      PROVE  Service(p, m).provider \in Text /\ Service(p, m).model \in Text
  <2>1. \A x \in STRING : <<x>> \in Seq(STRING) /\ <<x>> # <<>>
    <3>1. ASSUME NEW S, NEW x \in S PROVE <<x>> \in Seq(S)
      OBVIOUS
    <3> QED BY <3>1
  <2>2. Service(p, m).provider = <<p>> /\ Service(p, m).model = <<m>>
    BY DEF Service
  <2> QED BY <2>1, <2>2 DEF Text
<1>4. \A s \in Bridges \cup {Unchecked} : s.provider \in Text /\ s.model \in Text
  <2>0. /\ "mock" \in STRING /\ "mock-model" \in STRING /\ "antigravity" \in STRING
        /\ "gemini" \in STRING /\ "mock-hunyuan-assistant" \in STRING
    BY QuotaAssumption DEF QuotaAssumption
  <2>1. /\ Service("mock", "mock-model").provider \in Text
        /\ Service("mock", "mock-model").model \in Text
    BY <1>3, <2>0, Zenon
  <2>2. /\ Service("antigravity", "gemini").provider \in Text
        /\ Service("antigravity", "gemini").model \in Text
    BY <1>3, <2>0, Zenon
  <2>3. /\ Service("mock", "mock-hunyuan-assistant").provider \in Text
        /\ Service("mock", "mock-hunyuan-assistant").model \in Text
    BY <1>3, <2>0, Zenon
  <2> QED BY <2>1, <2>2, <2>3 DEF Bridges, Unchecked
<1>5. \A p \in Profiles, s \in Bridges \cup {Unchecked} :
         Account(p, s) \in [profile : Text, provider : Text, model : Text]
  BY <1>1, <1>4 DEF Account
<1>6. \A a \in Accounts : a \in [profile : Text, provider : Text, model : Text]
  BY <1>2, <1>5 DEF Accounts
<1>7. \A p \in Profiles, s \in Bridges \cup {Unchecked} : Account(p, s) \in Accounts
  BY DEF Accounts
<1>8. <<"default">> \in Profiles
  BY QuotaAssumption DEF QuotaAssumption
<1> QED BY <1>1, <1>6, <1>7, <1>8

\* Two names of one part each, joined.
LEMMA TwoJoined ==
    ASSUME NEW s \in Seq(STRING), NEW u \in Seq(STRING), Len(s) = 1, Len(u) = 1
    PROVE  /\ s \o u \in Seq(STRING) /\ Len(s \o u) = 2
           /\ (s \o u)[1] = s[1] /\ (s \o u)[2] = u[1]
<1> DEFINE w == s \o u
<1>1. /\ w \in Seq(STRING) /\ Len(w) = Len(s) + Len(u)
      /\ \A i \in 1 .. Len(s) + Len(u) : w[i] = IF i <= Len(s) THEN s[i] ELSE u[i - Len(s)]
  BY ConcatProperties
<1> HIDE DEF w
<1>2. Len(w) = 2 /\ \A i \in 1 .. 2 : w[i] = IF i <= 1 THEN s[i] ELSE u[i - 1]
  BY <1>1
<1>3. w[1] = s[1] BY <1>2
<1>4. w[2] = u[2 - 1] BY <1>2
<1> QED BY <1>1, <1>2, <1>3, <1>4 DEF w

\* Names of three parts in all have one part each.
LEMMA ThreeParts ==
    ASSUME NEW s \in Seq(STRING), NEW u \in Seq(STRING), NEW v \in Seq(STRING),
           s # <<>>, u # <<>>, v # <<>>, Len(s \o u \o v) = 3
    PROVE  Len(s) = 1 /\ Len(u) = 1 /\ Len(v) = 1
<1>1. Len(s) + Len(u) + Len(v) = 3
  OBVIOUS
<1>2. Len(s) \in Nat \ {0} /\ Len(u) \in Nat \ {0} /\ Len(v) \in Nat \ {0}
  BY EmptySeq
<1>3. \A x, y, z \in Nat \ {0} : x + y + z = 3 => x = 1 /\ y = 1 /\ z = 1
  OBVIOUS
<1> QED BY <1>1, <1>2, <1>3, Zenon

\* Joined names without a colon are joined once.
LEMMA KeyOfThree ==
    ASSUME NEW a, a.profile \in Seq(STRING), a.provider \in Seq(STRING),
           a.model \in Seq(STRING), Plain(a)
    PROVE  /\ Len(Key(a)) = 3 /\ Key(a)[1] = a.profile[1]
           /\ Key(a)[2] = a.provider[1] /\ Key(a)[3] = a.model[1]
<1> DEFINE s == a.profile
           u == a.provider
           v == a.model
           w == s \o u
           z == w \o v
<1>1. Len(s) = 1 /\ Len(u) = 1 /\ Len(v) = 1
  BY DEF Plain
<1>2. Key(a) = z
  BY DEF Key
<1>3. s \in Seq(STRING) /\ u \in Seq(STRING) /\ v \in Seq(STRING)
  OBVIOUS
<1> HIDE DEF s, u, v
<1>4. w \in Seq(STRING) /\ Len(w) = 2 /\ w[1] = s[1] /\ w[2] = u[1]
  BY <1>1, <1>3, TwoJoined
<1> HIDE DEF w
<1>5. /\ Len(z) = Len(w) + Len(v)
      /\ \A i \in 1 .. Len(w) + Len(v) : z[i] = IF i <= Len(w) THEN w[i] ELSE v[i - Len(w)]
  BY <1>3, <1>4, ConcatProperties
<1> HIDE DEF z
<1>6. Len(w) = 2 /\ Len(v) = 1
  BY <1>1, <1>4
<1>7. Len(z) = 3 /\ \A i \in 1 .. 3 : z[i] = IF i <= 2 THEN w[i] ELSE v[i - 2]
  BY <1>5, <1>6
<1>8. z[1] = w[1] /\ z[2] = w[2] BY <1>7
<1>9. z[3] = v[1] BY <1>7
<1>10. z[1] = s[1] /\ z[2] = u[1]
  BY <1>4, <1>8
<1> QED BY <1>2, <1>7, <1>9, <1>10 DEF s, u, v

LEMMA PlainKeys ==
    ASSUME NEW a \in Accounts, NEW b \in Accounts, Plain(a), Key(a) = Key(b)
    PROVE  a = b
<1>1. /\ a.profile \in Seq(STRING) /\ a.provider \in Seq(STRING) /\ a.model \in Seq(STRING)
      /\ b.profile \in Seq(STRING) /\ b.provider \in Seq(STRING) /\ b.model \in Seq(STRING)
      /\ b.profile # <<>> /\ b.provider # <<>> /\ b.model # <<>>
  BY NamesAreText DEF Text
<1>2. Len(a.profile) = 1 /\ Len(a.provider) = 1 /\ Len(a.model) = 1
  BY DEF Plain
<1>3. /\ Len(Key(a)) = 3
      /\ Key(a)[1] = a.profile[1] /\ Key(a)[2] = a.provider[1] /\ Key(a)[3] = a.model[1]
  <2>1. a.profile \in Seq(STRING) /\ a.provider \in Seq(STRING) /\ a.model \in Seq(STRING)
    BY <1>1
  <2> QED BY <2>1, KeyOfThree
<1>4. Len(b.profile) = 1 /\ Len(b.provider) = 1 /\ Len(b.model) = 1
  <2>1. Len(b.profile \o b.provider \o b.model) = 3
    BY <1>3 DEF Key
  <2> QED BY <1>1, <2>1, ThreeParts, Zenon
<1>5. Key(b)[1] = b.profile[1] /\ Key(b)[2] = b.provider[1] /\ Key(b)[3] = b.model[1]
  <2>1. b.profile \in Seq(STRING) /\ b.provider \in Seq(STRING) /\ b.model \in Seq(STRING)
    BY <1>1
  <2>2. Plain(b)
    BY <1>4 DEF Plain
  <2> QED BY <2>1, <2>2, KeyOfThree
<1>6. ASSUME NEW s \in Seq(STRING), NEW u \in Seq(STRING), Len(s) = 1, Len(u) = 1, s[1] = u[1]
      PROVE  s = u
  BY <1>6, SeqEqual
<1>7. a.profile[1] = b.profile[1] /\ a.provider[1] = b.provider[1] /\ a.model[1] = b.model[1]
  BY <1>3, <1>5
<1>8. a.profile = b.profile /\ a.provider = b.provider /\ a.model = b.model
  BY <1>1, <1>2, <1>4, <1>6, <1>7, Zenon
<1> QED BY <1>8, NamesAreText

\* The sign-outs that take a key made of three names are those of its first name and
\* of its first two names.
LEMMA PlainTaken ==
    ASSUME NEW a \in Accounts, Plain(a), NEW p \in Profiles
    PROVE  StartsWith(Key(a), p) <=> p \in TakenBy(a)
<1>1. /\ a.profile \in Seq(STRING) /\ a.provider \in Seq(STRING) /\ a.model \in Seq(STRING)
      /\ p \in Seq(STRING) /\ p # <<>>
  BY NamesAreText DEF Text
<1>2. Len(a.profile) = 1 /\ Len(a.provider) = 1 /\ Len(a.model) = 1
  BY DEF Plain
<1> DEFINE k == Key(a)
           two == a.profile \o a.provider
<1>3. Len(k) = 3 /\ k[1] = a.profile[1] /\ k[2] = a.provider[1]
  <2>1. a.profile \in Seq(STRING) /\ a.provider \in Seq(STRING) /\ a.model \in Seq(STRING)
    BY <1>1
  <2> QED BY <2>1, KeyOfThree
<1>4. two \in Seq(STRING) /\ Len(two) = 2 /\ two[1] = a.profile[1] /\ two[2] = a.provider[1]
  BY <1>1, <1>2, TwoJoined, Zenon
<1>5. Len(p) \in Nat /\ Len(p) >= 1
  BY <1>1, EmptySeq
<1> HIDE DEF k, two
<1>6. p = a.profile <=> Len(p) = 1 /\ p[1] = a.profile[1]
  <2>1. ASSUME Len(p) = 1, p[1] = a.profile[1] PROVE p = a.profile
    BY <1>1, <1>2, <2>1, SeqEqual
  <2> QED BY <1>2, <2>1
<1>7. p = two <=> Len(p) = 2 /\ p[1] = a.profile[1] /\ p[2] = a.provider[1]
  <2>1. ASSUME Len(p) = 2, p[1] = two[1], p[2] = two[2] PROVE p = two
    <3>1. \A i \in 1 .. 2 : p[i] = two[i]
      BY <2>1
    <3> QED BY <1>1, <1>4, <2>1, <3>1, SeqEqual
  <2> QED BY <1>4, <2>1
<1>8. p \in TakenBy(a) <=> p = a.profile \/ p = two
  BY DEF TakenBy, two
<1>9. StartsWith(k, p) <=>
         \/ Len(p) = 1 /\ p[1] = a.profile[1]
         \/ Len(p) = 2 /\ p[1] = a.profile[1] /\ p[2] = a.provider[1]
  <2>1. StartsWith(k, p) <=> Len(p) < 3 /\ \A i \in 1 .. Len(p) : k[i] = p[i]
    BY <1>3 DEF StartsWith
  <2>2. ASSUME Len(p) = 1
        PROVE  (\A i \in 1 .. Len(p) : k[i] = p[i]) <=> k[1] = p[1]
    BY <2>2
  <2>3. ASSUME Len(p) = 2
        PROVE  (\A i \in 1 .. Len(p) : k[i] = p[i]) <=> k[1] = p[1] /\ k[2] = p[2]
    BY <2>3
  <2>4. \A n \in Nat : n >= 1 => n < 3 <=> n = 1 \/ n = 2
    OBVIOUS
  <2>5. Len(p) < 3 <=> Len(p) = 1 \/ Len(p) = 2
    BY <1>5, <2>4
  <2> QED BY <1>3, <2>1, <2>2, <2>3, <2>4, <2>5
<1> QED BY <1>6, <1>7, <1>8, <1>9 DEF k

LEMMA EntryStep ==
    ASSUME QuotaInv, NEW b \in Accounts, update_manual_quota(b)
    PROVE  QuotaInv'
<1> DEFINE entry == entries.count + 1
<1>1. /\ file' = [ReadFile EXCEPT ![Key(b)] = entry] /\ damaged' = FALSE
      /\ entries' = [count |-> entry, newest |-> [entries.newest EXCEPT ![b] = entry],
                     spoilt |-> entries.spoilt \ {b},
                     signedOut |-> [entries.signedOut EXCEPT ![b] = {}]]
      /\ quotaAnswer' = Unanswered /\ bridge' = bridge /\ panel' = panel
  BY DEF update_manual_quota, save_quota_snapshot, WriteFile
<1>2. DOMAIN ReadFile = Keys /\ entry \in Nat /\ entry # None
  BY QuotaAssumption DEF QuotaInv, ReadFile, NoFile, QuotaAssumption
<1>3. ReadFile' = file'
  BY <1>1 DEF ReadFile
<1>4. ASSUME NEW a \in Accounts, Plain(a)
      PROVE  ReadFile'[Key(a)] = Standing(a)'
  <2>1. Key(a) \in Keys /\ Key(b) \in Keys
    BY DEF Keys
  <2>2. CASE a = b
    <3>1. /\ entries'.newest[a] = entry /\ a \notin entries'.spoilt
          /\ entries'.signedOut[a] = {}
      BY <1>1, <2>2 DEF QuotaInv
    <3>2. file'[Key(a)] = entry
      BY <1>1, <1>2, <2>1, <2>2
    <3> QED BY <1>2, <1>3, <3>1, <3>2 DEF Standing
  <2>3. CASE a # b
    <3>1. Key(a) # Key(b)
      BY <1>4, <2>3, PlainKeys
    <3>2. file'[Key(a)] = ReadFile[Key(a)]
      BY <1>1, <1>2, <2>1, <3>1
    <3>3. /\ entries'.newest[a] = entries.newest[a]
          /\ a \in entries'.spoilt <=> a \in entries.spoilt
          /\ entries'.signedOut[a] = entries.signedOut[a]
      BY <1>1, <2>3 DEF QuotaInv
    <3>4. Standing(a)' = Standing(a)
      BY <3>3 DEF Standing
    <3> QED BY <1>3, <1>4, <3>2, <3>4 DEF QuotaInv
  <2> QED BY <2>2, <2>3
<1>5. AnswerIsTheAccounts'
  BY <1>1 DEF AnswerIsTheAccounts, Unanswered
<1>6. /\ entries'.count \in Nat
      /\ entries' = [count |-> entries'.count, newest |-> entries'.newest,
                     spoilt |-> entries'.spoilt, signedOut |-> entries'.signedOut]
      /\ DOMAIN entries'.newest = Accounts /\ DOMAIN entries'.signedOut = Accounts
      /\ \A a \in Accounts : entries'.newest[a] \in Nat \cup {None}
      /\ DOMAIN file' = Keys
  BY <1>1, <1>2 DEF QuotaInv
<1>7. \A a \in Accounts : Plain(a)' => ReadFile'[Key(a)] = Standing(a)'
  BY <1>4 DEF Plain
<1> QED BY <1>1, <1>5, <1>6, <1>7 DEF QuotaInv

LEMMA SignOutStep ==
    ASSUME QuotaInv, SignOut
    PROVE  QuotaInv'
<1>1. PICK profile \in Profiles :
          /\ file' = [k \in Keys |-> IF StartsWith(k, profile) THEN None ELSE ReadFile[k]]
          /\ damaged' = FALSE
          /\ entries' = [entries EXCEPT !.signedOut = [a \in Accounts |->
                            IF entries.newest[a] = None THEN {} ELSE @[a] \cup {profile}]]
          /\ quotaAnswer' = Unanswered
          /\ UNCHANGED <<bridge, panel>>
  BY DEF SignOut, invalidate_snapshots_for_profile, WriteFile
<1>2. entries' = [count |-> entries.count, newest |-> entries.newest,
                  spoilt |-> entries.spoilt,
                  signedOut |-> [a \in Accounts |->
                     IF entries.newest[a] = None THEN {}
                     ELSE entries.signedOut[a] \cup {profile}]]
  BY <1>1 DEF QuotaInv
<1>3. ReadFile' = file'
  BY <1>1 DEF ReadFile
<1>4. ASSUME NEW a \in Accounts, Plain(a)
      PROVE  ReadFile'[Key(a)] = Standing(a)'
  <2>1. Key(a) \in Keys
    BY DEF Keys
  <2>2. file'[Key(a)] = IF profile \in TakenBy(a) THEN None ELSE ReadFile[Key(a)]
    BY <1>1, <1>4, <2>1, PlainTaken
  <2>3. ReadFile[Key(a)] = Standing(a)
    BY <1>4 DEF QuotaInv
  <2>4. /\ entries'.newest[a] = entries.newest[a]
        /\ a \in entries'.spoilt <=> a \in entries.spoilt
        /\ entries'.signedOut[a] = IF entries.newest[a] = None THEN {}
                                   ELSE entries.signedOut[a] \cup {profile}
    BY <1>2
  <2>5. CASE entries.newest[a] = None
    BY <1>3, <2>2, <2>3, <2>4, <2>5 DEF Standing
  <2>6. CASE entries.newest[a] # None
    <3>1. entries'.signedOut[a] \cap TakenBy(a) # {} <=>
              profile \in TakenBy(a) \/ entries.signedOut[a] \cap TakenBy(a) # {}
      BY <2>4, <2>6
    <3> QED BY <1>3, <2>2, <2>3, <2>4, <2>6, <3>1 DEF Standing, TakenBy
  <2> QED BY <2>5, <2>6
<1>5. AnswerIsTheAccounts'
  BY <1>1 DEF AnswerIsTheAccounts, Unanswered
<1>6. /\ entries'.count \in Nat
      /\ entries' = [count |-> entries'.count, newest |-> entries'.newest,
                     spoilt |-> entries'.spoilt, signedOut |-> entries'.signedOut]
      /\ DOMAIN entries'.newest = Accounts /\ DOMAIN entries'.signedOut = Accounts
      /\ \A a \in Accounts : entries'.newest[a] \in Nat \cup {None}
      /\ DOMAIN file' = Keys
  BY <1>1, <1>2 DEF QuotaInv
<1>7. \A a \in Accounts : Plain(a)' => ReadFile'[Key(a)] = Standing(a)'
  BY <1>4 DEF Plain
<1> QED BY <1>1, <1>5, <1>6, <1>7 DEF QuotaInv

LEMMA AnswerStep ==
    ASSUME QuotaInv, GetQuota
    PROVE  QuotaInv'
<1>1. PICK profile \in Profiles :
          LET account == Account(profile, bridge)
              saved == load_quota_snapshot(account)
              demo == bridge.provider = <<"mock">>
          IN  quotaAnswer' =
                 [of |-> account,
                  source |-> CASE demo                  -> "DEMO"
                               [] ~demo /\ saved # None -> "MANUAL"
                               [] OTHER                 -> "UNKNOWN",
                  entry |-> IF demo THEN None ELSE saved]
  BY DEF GetQuota
<1>2. bridge \in Bridges /\ UNCHANGED <<bridge, panel, file, damaged, entries>>
  BY DEF GetQuota, QuotaInv
<1> DEFINE account == Account(profile, bridge)
           demo == bridge.provider = <<"mock">>
           saved == ReadFile[Key(account)]
<1>3. account \in Accounts /\ account.provider = bridge.provider
  BY <1>2, NamesAreText DEF Account
<1>4. quotaAnswer'.of = account
  BY <1>1
<1>5. quotaAnswer'.source = "MANUAL" <=> ~demo /\ saved # None
  <2>1. CASE demo
    BY <1>1, <2>1
  <2>2. CASE ~demo /\ saved # None
    BY <1>1, <2>2 DEF load_quota_snapshot
  <2>3. CASE ~demo /\ saved = None
    BY <1>1, <2>3 DEF load_quota_snapshot
  <2> QED BY <2>1, <2>2, <2>3
<1>6. ~demo => quotaAnswer'.entry = saved
  BY <1>1 DEF load_quota_snapshot
<1>7. Plain(account) => saved = Standing(account)
  BY <1>3 DEF QuotaInv
<1> HIDE DEF account, saved
<1>8. AnswerIsTheAccounts'
  <2> SUFFICES ASSUME Plain(account)
               PROVE  /\ quotaAnswer'.source = "MANUAL" <=>
                            /\ account.provider # <<"mock">>
                            /\ entries.newest[account] # None
                            /\ account \notin entries.spoilt
                            /\ entries.signedOut[account] \cap TakenBy(account) = {}
                      /\ quotaAnswer'.source = "MANUAL" =>
                            quotaAnswer'.entry = entries.newest[account]
    BY <1>2, <1>4 DEF AnswerIsTheAccounts, Plain, TakenBy
  <2> QED BY <1>3, <1>5, <1>6, <1>7 DEF Standing
<1> QED BY <1>2, <1>8 DEF QuotaInv, ReadFile, Standing, Plain, TakenBy

LEMMA QuotaStep == QuotaInv /\ [QuotaNext]_quotaVars => QuotaInv'
<1> SUFFICES ASSUME QuotaInv, [QuotaNext]_quotaVars PROVE QuotaInv'
  OBVIOUS
<1>1. ASSUME quotaAnswer' = Unanswered PROVE AnswerIsTheAccounts'
  BY <1>1 DEF AnswerIsTheAccounts, Unanswered
<1>2. ASSUME UNCHANGED <<file, damaged, entries>>
      PROVE  \A a \in Accounts : Plain(a)' => ReadFile'[Key(a)] = Standing(a)'
  BY <1>2 DEF QuotaInv, ReadFile, Standing, Plain, TakenBy
<1>3. CASE Enter
  <2>1. Account(<<"default">>, panel) \in Accounts
    BY NamesAreText DEF QuotaInv
  <2> QED BY <1>3, <2>1, EntryStep DEF Enter
<1>4. CASE PostManual
  BY <1>4, EntryStep DEF PostManual
<1>5. CASE SignOut
  BY <1>5, SignOutStep
<1>6. CASE Restart
  BY <1>1, <1>2, <1>6 DEF Restart, QuotaInv
<1>7. CASE CheckConnection
  <2>1. AnswerIsTheAccounts'
    BY <1>7 DEF CheckConnection, QuotaInv, AnswerIsTheAccounts
  <2> QED BY <1>2, <1>7, <2>1 DEF CheckConnection, QuotaInv
<1>8. CASE GetQuota
  BY <1>8, AnswerStep
<1>9. CASE SpoilFile
  <2>1. /\ damaged' = TRUE /\ quotaAnswer' = Unanswered
        /\ entries' = [count |-> entries.count, newest |-> entries.newest,
                       spoilt |-> {a \in Accounts : entries.newest[a] # None},
                       signedOut |-> entries.signedOut]
        /\ UNCHANGED <<bridge, panel, file>>
    BY <1>9 DEF SpoilFile, QuotaInv
  <2>2. ASSUME NEW a \in Accounts PROVE ReadFile'[Key(a)] = Standing(a)'
    <3>1. ReadFile'[Key(a)] = None
      BY <2>1 DEF ReadFile, NoFile, Keys
    <3>2. entries'.newest[a] = None \/ a \in entries'.spoilt
      BY <2>1
    <3> QED BY <3>1, <3>2 DEF Standing
  <2> QED BY <1>1, <2>1, <2>2 DEF QuotaInv
<1>10. CASE UNCHANGED quotaVars
  <2>1. AnswerIsTheAccounts'
    BY <1>10 DEF quotaVars, QuotaInv, AnswerIsTheAccounts
  <2> QED BY <1>2, <1>10, <2>1 DEF quotaVars, QuotaInv
<1> QED BY <1>3, <1>4, <1>5, <1>6, <1>7, <1>8, <1>9, <1>10 DEF QuotaNext

LEMMA QuotaStart == QuotaInit => QuotaInv
BY DEF QuotaInit, QuotaInv, ReadFile, NoFile, Standing, Keys, AnswerIsTheAccounts, Unanswered

\* Whatever names clients post for, through restarts, sign-outs and damage to the
\* file, GET /quota answers about an account without a colon in its names with that
\* account's own newest entry, unless it was spoilt or signed out
\* (storage/manager.py:94-127, bridge/server.py:116-126).
THEOREM AnswersAreTheAccounts == QuotaSpec => []AnswerIsTheAccounts
<1>1. QuotaInv => AnswerIsTheAccounts
  BY DEF QuotaInv
<1> QED BY <1>1, QuotaStart, QuotaStep, PTL DEF QuotaSpec

-----------------------------------------------------------------------------
(***************************************************************************)
(* Retention.  calculate_retention and TotalBytes go through the            *)
(* checkpoints one by one, so what they return is shown by going along:     *)
(* what holds at the start and after each turn holds at the end (UpTo).     *)
(***************************************************************************)

\* A set of numbers that is not empty has a least one.
LEMMA LeastNumber ==
    ASSUME NEW T \in SUBSET Nat, T # {}
    PROVE  \E n \in T : \A m \in T : n <= m
<1> DEFINE R == {ss \in Nat \X Nat : ss[1] < ss[2]}
<1>1. IsWellFoundedOn(R, Nat)
  BY NatLessThanWellFounded DEF OpToRel
<1>2. \A x, y \in Nat : y < x => <<y, x>> \in R
  <2> SUFFICES ASSUME NEW x \in Nat, NEW y \in Nat, y < x PROVE <<y, x>> \in R
    OBVIOUS
  <2>1. <<y, x>> \in Nat \X Nat OBVIOUS
  <2>2. <<y, x>>[1] = y /\ <<y, x>>[2] = x OBVIOUS
  <2> QED BY <2>1, <2>2
<1> HIDE DEF R
<1>3. \E x \in T : \A y \in T : ~ (<<y, x>> \in R)
  BY <1>1, WFMin
<1>4. PICK x \in T : \A y \in T : ~ (<<y, x>> \in R) BY <1>3
<1>5. ASSUME NEW y \in T PROVE x <= y
  <2>1. ~(y < x) BY <1>2, <1>4
  <2> QED BY <2>1
<1> QED BY <1>5

\* What holds of zero and passes from each number to the next holds up to any bound.
LEMMA UpTo ==
    ASSUME NEW M \in Nat, NEW G, 0 \in G, \A n \in 1..M : n - 1 \in G => n \in G
    PROVE  \A n \in 0..M : n \in G
<1> DEFINE Bad == {n \in 0..M : n \notin G}
<1> SUFFICES ASSUME Bad # {} PROVE FALSE
  OBVIOUS
<1>1. Bad \in SUBSET Nat OBVIOUS
<1>2. PICK n \in Bad : \A m \in Bad : n <= m BY <1>1, LeastNumber
<1>3. n # 0 BY <1>2
<1>4. n - 1 \in 0..M /\ n - 1 \notin Bad BY <1>2, <1>3
<1> QED BY <1>2, <1>3, <1>4

\* f is what `step` makes of `base`, one number after the other.
Computes(f, M, V, base, step) ==
    /\ f \in [0..M -> V] /\ f[0] = base
    /\ \A n \in 1..M : f[n] = step[n][f[n - 1]]

\* A computation that goes from one number to the next has a result.
LEMMA Recursion ==
    ASSUME NEW M \in Nat, NEW V, NEW base \in V, NEW step \in [Nat -> [V -> V]]
    PROVE  \E f : Computes(f, M, V, base, step)
<1> DEFINE Solves(m, f) == f[0] = base /\ \A n \in 1..m : f[n] = step[n][f[n - 1]]
           Good(m) == \E f \in [0..M -> V] : Solves(m, f)
           Bad == {m \in 0..M : ~Good(m)}
<1>1. Good(0)
  <2> DEFINE f == [n \in 0..M |-> base]
  <2>1. f \in [0..M -> V] /\ f[0] = base OBVIOUS
  <2> HIDE DEF f
  <2>2. Solves(0, f) BY <2>1
  <2> QED BY <2>1, <2>2
<1>2. ASSUME NEW m \in 1..M, Good(m - 1) PROVE Good(m)
  <2>1. PICK f \in [0..M -> V] : Solves(m - 1, f) BY <1>2
  <2> DEFINE g == [n \in 0..M |-> IF n = m THEN step[m][f[m - 1]] ELSE f[n]]
  <2>2. f[m - 1] \in V OBVIOUS
  <2>3. step[m][f[m - 1]] \in V BY <2>2
  <2>4. g \in [0..M -> V] BY <2>3
  <2>5. g[0] = base BY <2>1
  <2>6. ASSUME NEW n \in 1..m PROVE g[n] = step[n][g[n - 1]]
    <3>1. g[n - 1] = f[n - 1] OBVIOUS
    <3>2. CASE n = m BY <3>1, <3>2
    <3>3. CASE n # m
      <4>1. n \in 1..m - 1 BY <3>3
      <4>2. g[n] = f[n] BY <3>3
      <4> HIDE DEF g
      <4> QED BY <4>1, <4>2, <2>1, <3>1
    <3> QED BY <3>2, <3>3
  <2> HIDE DEF g
  <2> QED BY <2>4, <2>5, <2>6
<1>3. Bad = {}
  <2> HIDE DEF Good
  <2> SUFFICES ASSUME Bad # {} PROVE FALSE
    OBVIOUS
  <2>1. Bad \in SUBSET Nat OBVIOUS
  <2>2. PICK n \in Bad : \A m \in Bad : n <= m BY <2>1, LeastNumber
  <2>3. n # 0 BY <2>2, <1>1
  <2>4. n - 1 \in 0..M /\ n - 1 \notin Bad BY <2>2, <2>3
  <2> QED BY <2>2, <2>3, <2>4, <1>2
<1>4. Good(M)
  <2> HIDE DEF Good
  <2> QED BY <1>3
<1> QED BY <1>4 DEF Computes

\* Manifests, no two of them with the same id.
Shelf(cps) ==
    /\ cps \in SUBSET Manifests
    /\ \A c, d \in cps : c.id = d.id => c = d

LEMMA SubShelf ==
    ASSUME NEW cps, Shelf(cps), NEW sub \in SUBSET cps
    PROVE  Shelf(sub)
BY DEF Shelf

LEMMA ManifestParts ==
    ASSUME NEW c \in Manifests
    PROVE  c.id \in 1..MaxTaken /\ c.size \in Sizes /\ c.size \in Nat
BY RetentionAssumption DEF Manifests

\* A shelf has no more manifests than there are ids.
LEMMA ShelfFinite ==
    ASSUME NEW cps, Shelf(cps)
    PROVE  IsFiniteSet(cps) /\ Cardinality(cps) \in Nat
<1> DEFINE f == [c \in cps |-> c.id]
<1>1. f \in [cps -> 1..MaxTaken] BY ManifestParts DEF Shelf
<1>2. f \in Injection(cps, 1..MaxTaken) BY <1>1 DEF Injection, IsInjective, Shelf
<1>3. IsFiniteSet(1..MaxTaken) BY FS_Interval, RetentionAssumption
<1> HIDE DEF f
<1>4. IsFiniteSet(cps) BY <1>2, <1>3, FS_Injection
<1> QED BY <1>4, FS_CardinalityType

\* The n-th size is that of the manifest with this id, or zero.
LEMMA Sizing ==
    ASSUME NEW cps, Shelf(cps), NEW n \in Nat
    PROVE  /\ SizeOf(cps, n) \in Nat
           /\ \A c \in cps : c.id = n => SizeOf(cps, n) = c.size
           /\ (\A c \in cps : c.id # n) => SizeOf(cps, n) = 0
<1>1. CASE \E c \in cps : c.id = n
  <2>1. PICK c \in cps : c.id = n BY <1>1
  <2>2. (CHOOSE d \in cps : d.id = n) = c BY <2>1 DEF Shelf
  <2>3. SizeOf(cps, n) = c.size BY <1>1, <2>2 DEF SizeOf
  <2>4. c.size \in Nat BY ManifestParts DEF Shelf
  <2> QED BY <2>1, <2>3, <2>4 DEF Shelf
<1>2. CASE ~ \E c \in cps : c.id = n BY <1>2 DEF SizeOf
<1> QED BY <1>1, <1>2

\* f[n] is what the checkpoints up to the n-th weigh together.
Sums(cps, f) ==
    /\ f \in [0..MaxTaken -> Nat] /\ f[0] = 0
    /\ \A n \in 1..MaxTaken : f[n] = f[n - 1] + SizeOf(cps, n)

\* TotalBytes is the last of these sums.
LEMMA TotalIsASum ==
    ASSUME NEW cps, Shelf(cps)
    PROVE  \E f : Sums(cps, f) /\ TotalBytes(cps) = f[MaxTaken]
<1> DEFINE step == [n \in Nat |-> [b \in Nat |-> b + SizeOf(cps, n)]]
           Eq(f) == f = [n \in 0..MaxTaken |-> IF n = 0 THEN 0 ELSE f[n - 1] + SizeOf(cps, n)]
           Sol == CHOOSE f : Eq(f)
<1>1. step \in [Nat -> [Nat -> Nat]] BY Sizing
<1>2. PICK f : Computes(f, MaxTaken, Nat, 0, step)
  <2> HIDE DEF step
  <2> QED BY <1>1, Recursion, RetentionAssumption
<1>3. \A n \in 1..MaxTaken : step[n][f[n - 1]] = f[n - 1] + SizeOf(cps, n)
  BY <1>2, RetentionAssumption DEF Computes
<1>4. Eq(f)
  <2> HIDE DEF step
  <2> QED BY <1>2, <1>3 DEF Computes
<1>5. Eq(Sol)
  <2> HIDE DEF Eq
  <2> QED BY <1>4
<1>6. TotalBytes(cps) = Sol[MaxTaken] BY DEF TotalBytes
<1> HIDE DEF Sol
<1>7. Sol[0] = 0 /\ \A n \in 1..MaxTaken : Sol[n] = Sol[n - 1] + SizeOf(cps, n)
  BY <1>5, RetentionAssumption
<1>8. DOMAIN Sol = 0..MaxTaken /\ Sol = [n \in 0..MaxTaken |-> Sol[n]]
  BY <1>5
<1>9. \A n \in 0..MaxTaken : Sol[n] \in Nat
  <2> DEFINE G == {n \in 0..MaxTaken : Sol[n] \in Nat}
  <2>1. 0 \in G BY <1>7, RetentionAssumption
  <2>2. ASSUME NEW n \in 1..MaxTaken, n - 1 \in G PROVE n \in G
    <3>1. n \in Nat /\ n \in 0..MaxTaken BY RetentionAssumption
    <3>2. SizeOf(cps, n) \in Nat BY <3>1, Sizing
    <3> QED BY <1>7, <2>2, <3>1, <3>2
  <2> HIDE DEF G
  <2>3. \A n \in 0..MaxTaken : n \in G BY <2>1, <2>2, UpTo, RetentionAssumption
  <2> QED BY <2>3 DEF G
<1> QED BY <1>6, <1>7, <1>8, <1>9 DEF Sums

\* One more manifest weighs and counts once.
LEMMA OneMore ==
    ASSUME NEW cps, Shelf(cps), NEW c \in Manifests, \A d \in cps : d.id # c.id
    PROVE  /\ Shelf(cps \union {c})
           /\ Cardinality(cps \union {c}) = Cardinality(cps) + 1
           /\ TotalBytes(cps \union {c}) = TotalBytes(cps) + c.size
<1> DEFINE new == cps \union {c}
<1>1. Shelf(new) BY DEF Shelf
<1>2. Cardinality(new) = Cardinality(cps) + 1 BY ShelfFinite, FS_AddElement
<1>3. \A n \in Nat : SizeOf(new, n) = IF n = c.id THEN c.size ELSE SizeOf(cps, n)
  <2> HIDE DEF new
  <2> TAKE n \in Nat
  <2>1. CASE n = c.id BY <2>1, <1>1, Sizing DEF new
  <2>2. CASE n # c.id
    <3>1. CASE \E d \in cps : d.id = n
      <4>1. PICK d \in cps : d.id = n BY <3>1
      <4>2. d \in new BY DEF new
      <4> QED BY <4>1, <4>2, <2>2, <1>1, Sizing
    <3>2. CASE \A d \in cps : d.id # n
      <4>1. \A d \in new : d.id # n BY <3>2, <2>2 DEF new
      <4> QED BY <4>1, <3>2, <2>2, <1>1, Sizing
    <3> QED BY <3>1, <3>2
  <2> QED BY <2>1, <2>2
<1>4. PICK f : Sums(cps, f) /\ TotalBytes(cps) = f[MaxTaken] BY TotalIsASum
<1>5. PICK g : Sums(new, g) /\ TotalBytes(new) = g[MaxTaken]
  <2> HIDE DEF new
  <2> QED BY <1>1, TotalIsASum
<1>6. c.id \in 1..MaxTaken /\ c.size \in Nat BY ManifestParts
<1> HIDE DEF new
<1> DEFINE G == {n \in 0..MaxTaken : g[n] = IF n < c.id THEN f[n] ELSE f[n] + c.size}
<1>7. 0 \in G BY <1>4, <1>5, <1>6, RetentionAssumption DEF Sums
<1>8. ASSUME NEW n \in 1..MaxTaken, n - 1 \in G PROVE n \in G
  <2>1. n - 1 \in 0..MaxTaken /\ n \in 0..MaxTaken /\ n \in Nat BY RetentionAssumption
  <2>2. f[n - 1] \in Nat /\ f[n] = f[n - 1] + SizeOf(cps, n) BY <1>4, <2>1 DEF Sums
  <2>3. g[n] = g[n - 1] + SizeOf(new, n) BY <1>5, <2>1 DEF Sums
  <2>4. SizeOf(cps, n) \in Nat BY <2>1, Sizing
  <2>5. CASE n < c.id BY <2>1, <2>2, <2>3, <2>4, <2>5, <1>3, <1>8, <1>6
  <2>6. CASE n = c.id
    <3>1. SizeOf(cps, n) = 0 BY <2>1, <2>6, Sizing
    <3> QED BY <2>1, <2>2, <2>3, <2>4, <2>6, <3>1, <1>3, <1>8, <1>6
  <2>7. CASE n > c.id BY <2>1, <2>2, <2>3, <2>4, <2>7, <1>3, <1>8, <1>6
  <2> QED BY <2>5, <2>6, <2>7, <1>6
<1> HIDE DEF G
<1>9. MaxTaken \in G
  <2>1. \A n \in 0..MaxTaken : n \in G BY <1>7, <1>8, UpTo, RetentionAssumption
  <2> QED BY <2>1, RetentionAssumption
<1>10. g[MaxTaken] = f[MaxTaken] + c.size BY <1>9, <1>6 DEF G
<1> QED BY <1>1, <1>2, <1>4, <1>5, <1>10 DEF new

-----------------------------------------------------------------------------
\* What calculate_retention starts with, and what its n-th turn adds.
Guarded(cps) == {c \in cps : Protected(c)}
Admitted(cps, S, n) == {c \in cps : c.id = Turn(n) /\ ~Protected(c) /\ HasRoom(S, c)}

\* w[n] is what is retained after n turns.
Walk(cps, w) ==
    /\ w \in [0..MaxTaken -> SUBSET cps] /\ w[0] = Guarded(cps)
    /\ \A n \in 1..MaxTaken : w[n] = w[n - 1] \union Admitted(cps, w[n - 1], n)

\* calculate_retention is where the walk ends.
LEMMA RetentionIsAWalk ==
    ASSUME NEW cps
    PROVE  \E w : Walk(cps, w) /\ calculate_retention(cps) = w[MaxTaken]
<1> DEFINE step == [n \in Nat |-> [S \in SUBSET cps |-> S \union Admitted(cps, S, n)]]
           Eq(w) == w = [n \in 0..MaxTaken |->
                           IF n = 0 THEN {c \in cps : Protected(c)}
                           ELSE w[n - 1] \union
                                {c \in cps : /\ c.id = Turn(n) /\ ~Protected(c)
                                             /\ HasRoom(w[n - 1], c)}]
           Sol == CHOOSE w : Eq(w)
<1>1. step \in [Nat -> [SUBSET cps -> SUBSET cps]] BY DEF Admitted
<1>2. PICK w : Computes(w, MaxTaken, SUBSET cps, Guarded(cps), step)
  <2>1. Guarded(cps) \in SUBSET cps BY DEF Guarded
  <2> HIDE DEF step
  <2> QED BY <1>1, <2>1, Recursion, RetentionAssumption
<1>3. \A n \in 1..MaxTaken : step[n][w[n - 1]] = w[n - 1] \union Admitted(cps, w[n - 1], n)
  BY <1>2, RetentionAssumption DEF Computes
<1>4. Eq(w)
  <2> HIDE DEF step
  <2> QED BY <1>2, <1>3 DEF Computes, Guarded, Admitted
<1>5. Eq(Sol)
  <2> HIDE DEF Eq
  <2> QED BY <1>4
<1>6. calculate_retention(cps) = Sol[MaxTaken] BY DEF calculate_retention
<1> HIDE DEF Sol
<1>7. /\ Sol[0] = Guarded(cps)
      /\ \A n \in 1..MaxTaken : Sol[n] = Sol[n - 1] \union Admitted(cps, Sol[n - 1], n)
  <2>1. 0 \in 0..MaxTaken /\ \A n \in 1..MaxTaken : n \in 0..MaxTaken /\ n # 0
    BY RetentionAssumption
  <2>2. Sol[0] = Guarded(cps) BY <1>5, <2>1 DEF Guarded
  <2>3. ASSUME NEW n \in 1..MaxTaken
        PROVE  Sol[n] = Sol[n - 1] \union Admitted(cps, Sol[n - 1], n)
    BY <1>5, <2>1 DEF Admitted
  <2> QED BY <2>2, <2>3
<1>8. DOMAIN Sol = 0..MaxTaken /\ Sol = [n \in 0..MaxTaken |-> Sol[n]]
  BY <1>5
<1> HIDE DEF Eq
<1>9. \A n \in 0..MaxTaken : Sol[n] \in SUBSET cps
  <2> DEFINE G == {n \in 0..MaxTaken : Sol[n] \in SUBSET cps}
  <2>1. 0 \in G BY <1>7, RetentionAssumption DEF Guarded
  <2>2. ASSUME NEW n \in 1..MaxTaken, n - 1 \in G PROVE n \in G
    BY <1>7, <2>2, RetentionAssumption DEF Admitted
  <2> HIDE DEF G
  <2>3. \A n \in 0..MaxTaken : n \in G BY <2>1, <2>2, UpTo, RetentionAssumption
  <2> QED BY <2>3 DEF G
<1> QED BY <1>6, <1>7, <1>8, <1>9 DEF Walk

\* Nothing retained is given up later in the walk.
LEMMA WalkGrows ==
    ASSUME NEW cps, NEW w, Walk(cps, w)
    PROVE  \A n \in 0..MaxTaken : \A m \in 0..n : w[m] \subseteq w[n]
<1> DEFINE G == {n \in 0..MaxTaken : \A m \in 0..n : w[m] \subseteq w[n]}
<1>1. 0 \in G BY RetentionAssumption
<1>2. ASSUME NEW n \in 1..MaxTaken, n - 1 \in G PROVE n \in G
  <2>1. n \in Nat /\ n - 1 \in Nat /\ n \in 0..MaxTaken BY RetentionAssumption
  <2>2. w[n - 1] \subseteq w[n] BY DEF Walk
  <2>3. ASSUME NEW m \in 0..n PROVE w[m] \subseteq w[n]
    <3>1. CASE m = n BY <3>1
    <3>2. CASE m # n
      <4>1. m \in 0..n - 1 BY <3>2, <2>1
      <4>2. w[m] \subseteq w[n - 1] BY <4>1, <1>2
      <4> QED BY <4>2, <2>2
    <3> QED BY <3>1, <3>2
  <2> QED BY <2>1, <2>3
<1> HIDE DEF G
<1>3. \A n \in 0..MaxTaken : n \in G BY <1>1, <1>2, UpTo, RetentionAssumption
<1> QED BY <1>3 DEF G

\* A retained one that nothing protects was admitted at its own turn.
LEMMA InItsTurn ==
    ASSUME NEW cps, Shelf(cps), NEW w, Walk(cps, w), NEW n \in 0..MaxTaken, NEW c \in w[n]
    PROVE  \/ Protected(c)
           \/ /\ MaxTaken + 1 - c.id \in 0..n
              /\ c \in w[MaxTaken + 1 - c.id]
<1> DEFINE Ok(m) == \A d \in w[m] : \/ Protected(d)
                                    \/ /\ MaxTaken + 1 - d.id \in 0..m
                                       /\ d \in w[MaxTaken + 1 - d.id]
           G == {m \in 0..MaxTaken : Ok(m)}
<1>1. 0 \in G BY RetentionAssumption DEF Walk, Guarded
<1>2. ASSUME NEW m \in 1..MaxTaken, m - 1 \in G PROVE m \in G
  <2>1. m \in Nat /\ m - 1 \in Nat /\ m \in 0..MaxTaken BY RetentionAssumption
  <2>2. ASSUME NEW d \in w[m], ~Protected(d)
        PROVE  /\ MaxTaken + 1 - d.id \in 0..m
               /\ d \in w[MaxTaken + 1 - d.id]
    <3>1. d \in w[m - 1] \/ d \in Admitted(cps, w[m - 1], m) BY DEF Walk
    <3>2. CASE d \in w[m - 1] BY <3>2, <1>2, <2>1, <2>2
    <3>3. CASE d \in Admitted(cps, w[m - 1], m)
      <4>1. d.id = MaxTaken + 1 - m /\ d \in cps BY <3>3 DEF Admitted, Turn
      <4>2. MaxTaken + 1 - d.id = m BY <4>1, <2>1, RetentionAssumption
      <4> QED BY <4>2, <2>1, <2>2
    <3> QED BY <3>1, <3>2, <3>3
  <2> HIDE DEF Ok
  <2>3. Ok(m) BY <2>2 DEF Ok
  <2> QED BY <2>1, <2>3
<1> HIDE DEF G
<1>3. \A m \in 0..MaxTaken : m \in G BY <1>1, <1>2, UpTo, RetentionAssumption
<1>4. Ok(n) BY <1>3 DEF G
<1> QED BY <1>4

\* Once a turn admits something the bounds are met, and stay so.
LEMMA WalkKeepsBounds ==
    ASSUME NEW cps, Shelf(cps), NEW w, Walk(cps, w), NEW n \in 0..MaxTaken
    PROVE  \/ w[n] = Guarded(cps)
           \/ /\ Cardinality(w[n]) <= MaxCheckpoints
              /\ TotalBytes(w[n]) <= MaxTotalBytes
<1> DEFINE Ok(m) == \/ w[m] = Guarded(cps)
                    \/ /\ Cardinality(w[m]) <= MaxCheckpoints
                       /\ TotalBytes(w[m]) <= MaxTotalBytes
           G == {m \in 0..MaxTaken : Ok(m)}
<1>1. 0 \in G BY RetentionAssumption DEF Walk
<1>2. ASSUME NEW m \in 1..MaxTaken, m - 1 \in G PROVE m \in G
  <2> DEFINE S == w[m - 1]
  <2>1. m \in Nat /\ m - 1 \in 0..MaxTaken /\ m \in 0..MaxTaken BY RetentionAssumption
  <2>2. w[m] = S \union Admitted(cps, S, m) BY DEF Walk
  <2>3. S \in SUBSET cps BY <2>1 DEF Walk
  <2>4. Shelf(S) BY <2>3, SubShelf
  <2> HIDE DEF S
  <2>5. CASE Admitted(cps, S, m) \subseteq S
    <3>1. w[m] = w[m - 1] BY <2>2, <2>5 DEF S
    <3> QED BY <3>1, <1>2, <2>1
  <2>6. CASE ~(Admitted(cps, S, m) \subseteq S)
    <3>1. PICK c \in Admitted(cps, S, m) : c \notin S BY <2>6
    <3>2. c \in cps /\ c.id = Turn(m) /\ HasRoom(S, c) BY DEF Admitted
    <3>3. Admitted(cps, S, m) = {c} BY <3>2 DEF Admitted, Shelf
    <3>4. c \in Manifests /\ c.size \in Nat BY <3>2, ManifestParts DEF Shelf
    <3>5. \A d \in S : d.id # c.id BY <3>1, <3>2, <2>3 DEF Shelf
    <3>6. /\ Cardinality(w[m]) = Cardinality(S) + 1
          /\ TotalBytes(w[m]) = TotalBytes(S) + c.size
      BY <2>2, <3>3, <2>4, <3>4, <3>5, OneMore
    <3>7. Cardinality(S) \in Nat BY <2>4, ShelfFinite
    <3>8. Ok(m) BY <3>2, <3>6, <3>7, RetentionAssumption DEF HasRoom
    <3> HIDE DEF Ok
    <3> QED BY <3>8, <2>1
  <2> QED BY <2>5, <2>6
<1> HIDE DEF G
<1>3. \A m \in 0..MaxTaken : m \in G BY <1>1, <1>2, UpTo, RetentionAssumption
<1>4. Ok(n) BY <1>3 DEF G
<1> QED BY <1>4

\* The protected ones are retained, and nothing that was not given.
LEMMA RetainedAreSome ==
    ASSUME NEW cps
    PROVE  /\ calculate_retention(cps) \in SUBSET cps
           /\ Guarded(cps) \subseteq calculate_retention(cps)
<1>1. PICK w : Walk(cps, w) /\ calculate_retention(cps) = w[MaxTaken] BY RetentionIsAWalk
<1>2. w[0] \subseteq w[MaxTaken] BY <1>1, WalkGrows, RetentionAssumption
<1> QED BY <1>1, <1>2, RetentionAssumption DEF Walk

\* What was retained is retained again.
LEMMA RetainingTwice ==
    ASSUME NEW cps
    PROVE  calculate_retention(calculate_retention(cps)) = calculate_retention(cps)
<1> DEFINE kept == calculate_retention(cps)
<1>1. PICK w : Walk(cps, w) /\ kept = w[MaxTaken] BY RetentionIsAWalk
<1>2. PICK v : Walk(kept, v) /\ calculate_retention(kept) = v[MaxTaken] BY RetentionIsAWalk
<1>3. kept \in SUBSET cps /\ Guarded(cps) \subseteq kept BY RetainedAreSome
<1> HIDE DEF kept
<1> DEFINE G == {n \in 0..MaxTaken : v[n] = w[n]}
<1>4. 0 \in G
  <2>1. Guarded(kept) = Guarded(cps) BY <1>3 DEF Guarded
  <2> QED BY <1>1, <1>2, <2>1, RetentionAssumption DEF Walk
<1>5. ASSUME NEW n \in 1..MaxTaken, n - 1 \in G PROVE n \in G
  <2>1. n \in 0..MaxTaken /\ n - 1 \in 0..MaxTaken BY RetentionAssumption
  <2>2. v[n] = w[n - 1] \union Admitted(kept, w[n - 1], n) BY <1>2, <1>5 DEF Walk
  <2>3. w[n] = w[n - 1] \union Admitted(cps, w[n - 1], n) BY <1>1 DEF Walk
  <2>4. w[n] \subseteq kept BY <1>1, <2>1, WalkGrows, RetentionAssumption
  <2>5. Admitted(kept, w[n - 1], n) = Admitted(cps, w[n - 1], n)
    BY <2>3, <2>4, <1>3 DEF Admitted
  <2> QED BY <2>1, <2>2, <2>3, <2>5
<1> HIDE DEF G
<1>6. MaxTaken \in G
  <2>1. \A n \in 0..MaxTaken : n \in G BY <1>4, <1>5, UpTo, RetentionAssumption
  <2> QED BY <2>1, RetentionAssumption
<1>7. v[MaxTaken] = w[MaxTaken] BY <1>6 DEF G
<1> QED BY <1>1, <1>2, <1>7 DEF kept

\* What is retained meets both bounds, unless it is the protected ones alone.
LEMMA RetainedMeetBounds ==
    ASSUME NEW cps, Shelf(cps)
    PROVE  LET kept == calculate_retention(cps) IN
           \/ \A c \in kept : Protected(c)
           \/ /\ Cardinality(kept) <= MaxCheckpoints
              /\ TotalBytes(kept) <= MaxTotalBytes
<1>1. PICK w : Walk(cps, w) /\ calculate_retention(cps) = w[MaxTaken] BY RetentionIsAWalk
<1> QED BY <1>1, WalkKeepsBounds, RetentionAssumption DEF Guarded

\* One that goes found no room beside the retained that are protected or newer.
LEMMA NoRoomForTheOthers ==
    ASSUME NEW cps, Shelf(cps), NEW c \in cps \ calculate_retention(cps)
    PROVE  ~HasRoom({d \in calculate_retention(cps) : d.id > c.id \/ Protected(d)}, c)
<1> DEFINE kept == calculate_retention(cps)
           n == MaxTaken + 1 - c.id
<1>1. PICK w : Walk(cps, w) /\ kept = w[MaxTaken] BY RetentionIsAWalk
<1>2. kept \in SUBSET cps /\ Guarded(cps) \subseteq kept BY RetainedAreSome
<1> HIDE DEF kept
<1>3. c.id \in 1..MaxTaken BY ManifestParts DEF Shelf
<1>4. n \in 1..MaxTaken /\ n \in 0..MaxTaken /\ n - 1 \in 0..MaxTaken
  BY <1>3, RetentionAssumption
<1>5. c \notin kept BY DEF kept
<1>6. c.id = Turn(n) BY <1>3, RetentionAssumption DEF Turn
<1> HIDE DEF n
<1>7. w[n] \subseteq kept /\ w[n - 1] \subseteq kept
  BY <1>1, <1>4, WalkGrows, RetentionAssumption
<1>8. ~HasRoom(w[n - 1], c)
  <2>1. c \notin Admitted(cps, w[n - 1], n) BY <1>1, <1>4, <1>5, <1>7 DEF Walk
  <2>2. ~Protected(c) BY <1>2, <1>5 DEF Guarded
  <2> QED BY <2>1, <2>2, <1>6 DEF Admitted
<1>9. {d \in kept : d.id > c.id \/ Protected(d)} = w[n - 1]
  <2>1. ASSUME NEW d \in kept, d.id > c.id \/ Protected(d) PROVE d \in w[n - 1]
    <3>1. d \in Manifests /\ d.id \in 1..MaxTaken BY <1>2, ManifestParts DEF Shelf
    <3>2. CASE Protected(d)
      <4>1. d \in w[0] BY <3>2, <1>1, <1>2 DEF Walk, Guarded
      <4> QED BY <4>1, <1>1, <1>4, WalkGrows
    <3>3. CASE ~Protected(d)
      <4> DEFINE m == MaxTaken + 1 - d.id
      <4>1. d \in w[m] BY <3>3, <1>1, InItsTurn, RetentionAssumption
      <4>2. m \in 0..n - 1 BY <3>3, <2>1, <3>1, <1>3, RetentionAssumption DEF n
      <4> HIDE DEF m
      <4>3. w[m] \subseteq w[n - 1] BY <1>1, <1>4, <4>2, WalkGrows
      <4> QED BY <4>1, <4>3
    <3> QED BY <3>2, <3>3
  <2>2. ASSUME NEW d \in w[n - 1] PROVE d \in kept /\ (d.id > c.id \/ Protected(d))
    <3>1. d \in kept BY <1>7
    <3>2. d.id \in 1..MaxTaken BY <3>1, <1>2, ManifestParts DEF Shelf
    <3>3. Protected(d) \/ MaxTaken + 1 - d.id \in 0..n - 1 BY <1>1, <1>4, InItsTurn
    <3> QED BY <3>1, <3>2, <3>3, <1>3, RetentionAssumption DEF n
  <2> QED BY <2>1, <2>2
<1> QED BY <1>8, <1>9 DEF kept

-----------------------------------------------------------------------------
\* The answer of an evaluation is still the one the shelf would get, also when its
\* candidates have been removed.
RetentionInv ==
    /\ Shelf(shelf)
    /\ taken \in 0..MaxTaken /\ \A c \in shelf : c.id <= taken
    /\ answer \in [asked : BOOLEAN, candidates : SUBSET Manifests]
    /\ answer.candidates = IF answer.asked THEN evaluate_retention(shelf) ELSE {}

\* What stays of a shelf is what was retained of it, and nothing more may go.
LEMMA KeptIsRetained ==
    LET kept == Parsed(shelf) \ evaluate_retention(shelf) IN
    /\ kept = calculate_retention(Parsed(shelf))
    /\ Parsed(kept) = kept
    /\ evaluate_retention(kept) = {}
    /\ Parsed(shelf \ evaluate_retention(shelf)) = kept
<1> DEFINE kept == Parsed(shelf) \ evaluate_retention(shelf)
<1>1. calculate_retention(Parsed(shelf)) \in SUBSET Parsed(shelf) BY RetainedAreSome
<1>2. kept = calculate_retention(Parsed(shelf)) BY <1>1 DEF evaluate_retention
<1>3. Parsed(kept) = kept BY <1>1, <1>2 DEF Parsed
<1>4. calculate_retention(kept) = kept BY <1>2, RetainingTwice
<1>5. evaluate_retention(kept) = {} BY <1>3, <1>4 DEF evaluate_retention
<1>6. Parsed(shelf \ evaluate_retention(shelf)) = kept BY DEF Parsed
<1> QED BY <1>2, <1>3, <1>5, <1>6

LEMMA TakeStep == RetentionInv /\ Take => RetentionInv'
<1> SUFFICES ASSUME RetentionInv, Take PROVE RetentionInv'
  OBVIOUS
<1>1. PICK size \in Sizes, pinned \in BOOLEAN, needed \in BOOLEAN :
         shelf' = shelf \union {[id |-> taken + 1, size |-> size, pinned |-> pinned,
                                 needed |-> needed, readable |-> TRUE]}
  BY DEF Take
<1> DEFINE c == [id |-> taken + 1, size |-> size, pinned |-> pinned,
                 needed |-> needed, readable |-> TRUE]
<1>2. taken' = taken + 1 /\ answer' = NoAnswer /\ taken < MaxTaken BY DEF Take
<1>3. taken \in Nat /\ taken' \in 0..MaxTaken /\ taken + 1 \in 1..MaxTaken
  BY <1>2, RetentionAssumption DEF RetentionInv
<1>4. c \in Manifests /\ c.id = taken + 1 BY <1>3 DEF Manifests
<1>5. shelf' = shelf \union {c} BY <1>1
<1> HIDE DEF c
<1>6. \A d \in shelf : d.id # c.id /\ d.id \in Nat
  <2>1. \A d \in shelf : d.id \in 1..MaxTaken /\ d.id <= taken
    BY ManifestParts DEF RetentionInv, Shelf
  <2> QED BY <2>1, <1>3, <1>4
<1>7. Shelf(shelf') BY <1>4, <1>5, <1>6 DEF RetentionInv, Shelf
<1>8. \A d \in shelf' : d.id <= taken' BY <1>2, <1>3, <1>4, <1>5, <1>6 DEF RetentionInv
<1>9. /\ answer' \in [asked : BOOLEAN, candidates : SUBSET Manifests]
      /\ answer'.candidates = {} /\ answer'.asked = FALSE
  BY <1>2 DEF NoAnswer
<1> QED BY <1>3, <1>7, <1>8, <1>9 DEF RetentionInv

\* A job ends or a manifest is damaged: the shelf changes in place, the answer goes.
LEMMA AlterStep ==
    ASSUME RetentionInv, UNCHANGED taken,
           NEW c \in shelf, NEW altered \in Manifests, altered.id = c.id, Alter(c, altered)
    PROVE  RetentionInv'
<1>1. shelf' = (shelf \ {c}) \union {altered} /\ answer' = NoAnswer BY DEF Alter
<1>2. Shelf(shelf') BY <1>1 DEF RetentionInv, Shelf
<1>3. \A d \in shelf' : d.id <= taken' BY <1>1 DEF RetentionInv
<1>4. /\ answer' \in [asked : BOOLEAN, candidates : SUBSET Manifests]
      /\ answer'.candidates = {} /\ answer'.asked = FALSE
  BY <1>1 DEF NoAnswer
<1> QED BY <1>2, <1>3, <1>4 DEF RetentionInv

LEMMA EvaluateStep == RetentionInv /\ Evaluate => RetentionInv'
<1> SUFFICES ASSUME RetentionInv, Evaluate PROVE RetentionInv'
  OBVIOUS
<1>1. /\ shelf' = shelf /\ taken' = taken
      /\ answer' = [asked |-> TRUE, candidates |-> evaluate_retention(shelf)]
  BY DEF Evaluate
<1>2. evaluate_retention(shelf) \in SUBSET Manifests
  BY DEF evaluate_retention, Parsed, RetentionInv, Shelf
<1>3. /\ answer' \in [asked : BOOLEAN, candidates : SUBSET Manifests]
      /\ answer'.candidates = evaluate_retention(shelf') /\ answer'.asked = TRUE
  BY <1>1, <1>2
<1> QED BY <1>1, <1>3 DEF RetentionInv

LEMMA CleanUpStep == RetentionInv /\ CleanUp => RetentionInv'
<1> SUFFICES ASSUME RetentionInv, CleanUp PROVE RetentionInv'
  OBVIOUS
<1>1. /\ shelf' = shelf \ answer.candidates /\ taken' = taken
      /\ answer' = [asked |-> TRUE, candidates |-> {}]
  BY DEF CleanUp
<1>2. answer.candidates = evaluate_retention(shelf) BY DEF CleanUp, RetentionInv
<1>3. Shelf(shelf') BY <1>1, SubShelf DEF RetentionInv
<1>4. evaluate_retention(shelf') = {}
  <2> DEFINE kept == Parsed(shelf) \ evaluate_retention(shelf)
  <2>1. Parsed(shelf') = kept BY <1>1, <1>2, KeptIsRetained
  <2>2. Parsed(kept) = kept /\ evaluate_retention(kept) = {} BY KeptIsRetained
  <2> HIDE DEF kept
  <2> QED BY <2>1, <2>2 DEF evaluate_retention
<1>5. \A c \in shelf' : c.id <= taken' BY <1>1 DEF RetentionInv
<1>6. /\ answer' \in [asked : BOOLEAN, candidates : SUBSET Manifests]
      /\ answer'.candidates = {} /\ answer'.asked = TRUE
  BY <1>1
<1> QED BY <1>1, <1>3, <1>4, <1>5, <1>6 DEF RetentionInv

LEMMA RetentionStart == RetentionInit => RetentionInv
BY RetentionAssumption DEF RetentionInit, RetentionInv, Shelf, NoAnswer

LEMMA RetentionStep == RetentionInv /\ [RetentionNext]_retentionVars => RetentionInv'
<1> SUFFICES ASSUME RetentionInv, [RetentionNext]_retentionVars PROVE RetentionInv'
  OBVIOUS
<1>1. CASE Take BY <1>1, TakeStep
<1>2. CASE JobEnds
  <2>1. PICK c \in shelf : Alter(c, [c EXCEPT !.needed = FALSE]) BY <1>2 DEF JobEnds
  <2>2. c \in Manifests BY DEF RetentionInv, Shelf
  <2>3. [c EXCEPT !.needed = FALSE] \in Manifests /\ [c EXCEPT !.needed = FALSE].id = c.id
    BY <2>2 DEF Manifests
  <2> QED BY <1>2, <2>1, <2>3, AlterStep DEF JobEnds
<1>3. CASE Damage
  <2>1. PICK c \in shelf : Alter(c, [c EXCEPT !.readable = FALSE]) BY <1>3 DEF Damage
  <2>2. c \in Manifests BY DEF RetentionInv, Shelf
  <2>3. [c EXCEPT !.readable = FALSE] \in Manifests /\ [c EXCEPT !.readable = FALSE].id = c.id
    BY <2>2 DEF Manifests
  <2> QED BY <1>3, <2>1, <2>3, AlterStep DEF Damage
<1>4. CASE Evaluate BY <1>4, EvaluateStep
<1>5. CASE CleanUp BY <1>5, CleanUpStep
<1>6. CASE UNCHANGED retentionVars
  BY <1>6 DEF retentionVars, RetentionInv, evaluate_retention, Parsed
<1> QED BY <1>1, <1>2, <1>3, <1>4, <1>5, <1>6 DEF RetentionNext

LEMMA SurplusOnly == RetentionInv => OnlySurplusGoes
<1> SUFFICES ASSUME RetentionInv, NEW c \in shelf \intersect answer.candidates
             PROVE  LET rest == {d \in shelf : /\ d.readable /\ d \notin answer.candidates
                                               /\ d.id > c.id \/ Protected(d)}
                    IN  /\ ~Protected(c) /\ c.readable
                        /\ \/ Cardinality(rest) >= MaxCheckpoints
                           \/ TotalBytes(rest) + c.size > MaxTotalBytes
  BY DEF OnlySurplusGoes
<1> DEFINE cps == Parsed(shelf)
           kept == calculate_retention(cps)
           rest == {d \in shelf : /\ d.readable /\ d \notin answer.candidates
                                  /\ d.id > c.id \/ Protected(d)}
           beside == {d \in kept : d.id > c.id \/ Protected(d)}
<1>1. answer.candidates = cps \ kept BY DEF RetentionInv, evaluate_retention
<1>2. kept \in SUBSET cps /\ Guarded(cps) \subseteq kept BY RetainedAreSome
<1>3. Shelf(cps) BY SubShelf DEF RetentionInv, Parsed
<1>4. c \in cps \ kept BY <1>1
<1>5. rest = beside
  <2> HIDE DEF kept
  <2> QED BY <1>1, <1>2 DEF Parsed
<1>6. ~Protected(c) /\ c.readable
  <2> HIDE DEF kept
  <2> QED BY <1>2, <1>4 DEF Guarded, Parsed
<1>7. ~HasRoom(beside, c)
  <2> HIDE DEF cps
  <2> QED BY <1>3, <1>4, NoRoomForTheOthers
<1>8. Shelf(beside)
  <2> HIDE DEF cps, kept
  <2> QED BY <1>2, <1>3, SubShelf
<1> HIDE DEF beside, rest
<1>9. Cardinality(beside) \in Nat /\ TotalBytes(beside) \in Nat /\ c.size \in Nat
  <2>1. PICK f : Sums(beside, f) /\ TotalBytes(beside) = f[MaxTaken] BY <1>8, TotalIsASum
  <2>2. TotalBytes(beside) \in Nat BY <2>1, RetentionAssumption DEF Sums
  <2>3. c.size \in Nat BY ManifestParts DEF RetentionInv, Shelf
  <2> QED BY <2>2, <2>3, <1>8, ShelfFinite
<1>10. \/ Cardinality(beside) >= MaxCheckpoints
       \/ TotalBytes(beside) + c.size > MaxTotalBytes
  BY <1>7, <1>9, RetentionAssumption DEF HasRoom
<1> QED BY <1>5, <1>6, <1>10 DEF rest

LEMMA OneIsEnough == RetentionInv => OneCleanUpSuffices
<1> SUFFICES ASSUME RetentionInv, answer.asked
             PROVE  LET kept == Parsed(shelf) \ answer.candidates
                    IN  /\ evaluate_retention(kept) = {}
                        /\ \/ \A c \in kept : Protected(c)
                           \/ /\ Cardinality(kept) <= MaxCheckpoints
                              /\ TotalBytes(kept) <= MaxTotalBytes
  BY DEF OneCleanUpSuffices
<1>1. answer.candidates = evaluate_retention(shelf) BY DEF RetentionInv
<1>2. Shelf(Parsed(shelf)) BY SubShelf DEF RetentionInv, Parsed
<1> QED BY <1>1, <1>2, KeptIsRetained, RetainedMeetBounds

\* For every policy, every number of checkpoints and every order of them: no answer
\* names a checkpoint that is protected or unreadable, or one that there was room for
\* beside the protected and the newer ones (retention.py:57-80, checkpoints.py:241-261).
THEOREM SurplusGoesOnly == RetentionSpec => []OnlySurplusGoes
<1>1. RetentionInv => OnlySurplusGoes BY SurplusOnly
<1> QED BY <1>1, RetentionStart, RetentionStep, PTL DEF RetentionSpec

\* Acting once on an answer brings the shelf within both bounds or down to protected
\* checkpoints, and a second evaluation names nothing (retention.py:64-80).
THEOREM OneCleanUpIsEnough == RetentionSpec => []OneCleanUpSuffices
<1>1. RetentionInv => OneCleanUpSuffices BY OneIsEnough
<1> QED BY <1>1, RetentionStart, RetentionStep, PTL DEF RetentionSpec

-----------------------------------------------------------------------------
(***************************************************************************)
(* The binding.  A verdict is about the artefacts as they are, so the       *)
(* invariant is that of a function; the work is in the checks, which are    *)
(* shown to find exactly the claims that disagree.                          *)
(***************************************************************************)

BindingInv ==
    /\ dossier \subseteq Slots
    /\ verdict # "unasked" => verdict = validate_job_binding

\* What the checks leave of each artefact.
PlanFits == "plan" \in given => \A f \in Identity : Own("plan", f)

OperationFits ==
    "operation" \in given =>
        /\ \A f \in Identity : Own("operation", f)
        /\ Mutates => Own("operation", "prepared_plan_ref")
        /\ NeedsCheckpoint => Own("operation", "checkpoint_ref")

CheckpointFits ==
    "checkpoint" \in given =>
        /\ Own("checkpoint", "job_id") /\ Own("checkpoint", "project_id")
        /\ Own("checkpoint", "checkpoint_id") /\ Own("checkpoint", "source_revision")
        /\ Own("checkpoint", "complete") /\ Own("checkpoint", "verified_at")
        /\ Own("checkpoint", "files")

ReceiptFits ==
    "receipt" \in given =>
        /\ "operation" \in given =>
              (Own("receipt", "operation_id") <=> Own("operation", "operation_id"))
        /\ Own("receipt", "has_revision") => Own("receipt", "host_revision_before")

Fits == PlanFits /\ OperationFits /\ CheckpointFits /\ ReceiptFits

LEMMA LeastOfSeven ==
    ASSUME NEW F \in SUBSET (1 .. 7), F # {}
    PROVE  \E i \in F : \A j \in F : i <= j
BY LeastNumber

\* The checks one by one.
LEMMA ChecksOneByOne ==
    /\ DOMAIN Checks = 1 .. 7
    /\ \A i \in 1 .. 7 : Checks[i].code # "accepted"
    /\ Checks[1].fails <=> "plan" \in given /\ Mismatch("plan", Identity)
    /\ Checks[2].fails <=>
          /\ "operation" \in given
          /\ \/ Mismatch("operation", Identity)
             \/ Mutates /\ ~Own("operation", "prepared_plan_ref")
             \/ NeedsCheckpoint /\ ~Own("operation", "checkpoint_ref")
    /\ Checks[3].fails <=>
          /\ "checkpoint" \in given
          /\ Mismatch("checkpoint", {"job_id", "project_id", "checkpoint_id",
                                     "source_revision"})
    /\ Checks[4].fails <=>
          /\ "checkpoint" \in given
          /\ Mismatch("checkpoint", {"complete", "verified_at", "files"})
    /\ Checks[5].fails <=>
          /\ {"checkpoint", "operation"} \subseteq given /\ NeedsCheckpoint
          /\ Own("operation", "checkpoint_ref") # Own("checkpoint", "checkpoint_id")
    /\ Checks[6].fails <=>
          /\ {"receipt", "operation"} \subseteq given
          /\ Own("receipt", "operation_id") # Own("operation", "operation_id")
    /\ Checks[7].fails <=>
          /\ "receipt" \in given /\ Own("receipt", "has_revision")
          /\ ~Own("receipt", "host_revision_before")
<1>1. DOMAIN Checks = 1 .. 7 /\ \A i \in 1 .. 7 : Checks[i].code # "accepted"
  BY DEF Checks
<1>2. Checks[1].fails <=> "plan" \in given /\ Mismatch("plan", Identity)
  BY DEF Checks
<1>3. Checks[2].fails <=>
          /\ "operation" \in given
          /\ \/ Mismatch("operation", Identity)
             \/ Mutates /\ ~Own("operation", "prepared_plan_ref")
             \/ NeedsCheckpoint /\ ~Own("operation", "checkpoint_ref")
  BY DEF Checks
<1>4. Checks[3].fails <=>
          /\ "checkpoint" \in given
          /\ Mismatch("checkpoint", {"job_id", "project_id", "checkpoint_id",
                                     "source_revision"})
  BY DEF Checks
<1>5. Checks[4].fails <=>
          /\ "checkpoint" \in given
          /\ Mismatch("checkpoint", {"complete", "verified_at", "files"})
  BY DEF Checks
<1>6. Checks[5].fails <=>
          /\ {"checkpoint", "operation"} \subseteq given /\ NeedsCheckpoint
          /\ Own("operation", "checkpoint_ref") # Own("checkpoint", "checkpoint_id")
  BY DEF Checks
<1>7. Checks[6].fails <=>
          /\ {"receipt", "operation"} \subseteq given
          /\ Own("receipt", "operation_id") # Own("operation", "operation_id")
  BY DEF Checks
<1>8. Checks[7].fails <=>
          /\ "receipt" \in given /\ Own("receipt", "has_revision")
          /\ ~Own("receipt", "host_revision_before")
  BY DEF Checks
<1> QED BY <1>1, <1>2, <1>3, <1>4, <1>5, <1>6, <1>7, <1>8

LEMMA AcceptedIffFits == validate_job_binding = "accepted" <=> Fits
<1>1. validate_job_binding = "accepted" <=> Failing = {}
  <2>1. ASSUME Failing # {} PROVE validate_job_binding # "accepted"
    <3> DEFINE first == CHOOSE i \in Failing : \A j \in Failing : i <= j
    <3>1. Failing \in SUBSET (1 .. 7)
      BY ChecksOneByOne DEF Failing
    <3>2. first \in Failing
      BY <2>1, <3>1, LeastOfSeven
    <3>3. validate_job_binding = Checks[first].code
      BY <2>1 DEF validate_job_binding
    <3> QED BY <3>1, <3>2, <3>3, ChecksOneByOne
  <2> QED BY <2>1 DEF validate_job_binding
<1>2. Failing = {} <=> \A i \in 1 .. 7 : ~Checks[i].fails
  BY ChecksOneByOne DEF Failing
<1>3. ~Checks[1].fails <=> PlanFits
  BY ChecksOneByOne DEF PlanFits, Mismatch
<1>4. ~Checks[2].fails <=> OperationFits
  BY ChecksOneByOne DEF OperationFits, Mismatch
<1>5. ~Checks[3].fails /\ ~Checks[4].fails <=> CheckpointFits
  BY ChecksOneByOne DEF CheckpointFits, Mismatch
<1>6. ~Checks[6].fails /\ ~Checks[7].fails <=> ReceiptFits
  <2>1. Checks[6].fails <=>
            /\ "receipt" \in given /\ "operation" \in given
            /\ ~(Own("receipt", "operation_id") <=> Own("operation", "operation_id"))
    BY ChecksOneByOne DEF Own
  <2>2. Checks[7].fails <=>
            /\ "receipt" \in given /\ Own("receipt", "has_revision")
            /\ ~Own("receipt", "host_revision_before")
    BY ChecksOneByOne
  <2> QED BY <2>1, <2>2 DEF ReceiptFits
<1>7. OperationFits /\ CheckpointFits => ~Checks[5].fails
  BY ChecksOneByOne DEF OperationFits, CheckpointFits
<1>8. (\A i \in 1 .. 7 : ~Checks[i].fails) <=>
          /\ ~Checks[1].fails /\ ~Checks[2].fails /\ ~Checks[3].fails /\ ~Checks[4].fails
          /\ ~Checks[5].fails /\ ~Checks[6].fails /\ ~Checks[7].fails
  OBVIOUS
<1> QED BY <1>1, <1>2, <1>3, <1>4, <1>5, <1>6, <1>7, <1>8 DEF Fits

\* Two claims that are compared disagree exactly when an artefact does not fit: the
\* job claims of every thing that it is its own.
LEMMA FitsIffConsistent ==
    ASSUME dossier \subseteq Slots
    PROVE  Fits <=>
             /\ \A c, d \in Claims :
                   Disagree(c, d) => {c[3], d[3]} \cap NeverCompared # {}
             /\ "checkpoint" \in given =>
                   {"complete", "verified_at", "files"}
                       \cap {slot[2] : slot \in dossier} = {}
<1> DEFINE Consistent == \A c, d \in Claims :
                             Disagree(c, d) => {c[3], d[3]} \cap NeverCompared # {}
           Complete == "checkpoint" \in given =>
                         {"complete", "verified_at", "files"}
                             \cap {slot[2] : slot \in dossier} = {}
           Agreed ==
             /\ "plan" \in given => \A f \in Identity : Own("plan", f)
             /\ "operation" \in given =>
                  /\ \A f \in Identity : Own("operation", f)
                  /\ Mutates => Own("operation", "prepared_plan_ref")
                  /\ NeedsCheckpoint => Own("operation", "checkpoint_ref")
             /\ "checkpoint" \in given =>
                  /\ Own("checkpoint", "job_id") /\ Own("checkpoint", "project_id")
                  /\ Own("checkpoint", "checkpoint_id")
                  /\ Own("checkpoint", "source_revision")
             /\ ReceiptFits
<1>1. Complete <=>
        ("checkpoint" \in given =>
            /\ Own("checkpoint", "complete") /\ Own("checkpoint", "verified_at")
            /\ Own("checkpoint", "files"))
  <2>1. ASSUME NEW f \in {"complete", "verified_at", "files"}
        PROVE  Own("checkpoint", f) <=> f \notin {slot[2] : slot \in dossier}
    <3>1. ASSUME NEW slot \in dossier, slot[2] = f PROVE slot = <<"checkpoint", f>>
      <4>1. PICK e \in Entities : slot \in {e} \X Fields[e]
        BY DEF Slots
      <4>2. f \in Fields[e] /\ slot = <<e, f>>
        BY <3>1, <4>1
      <4>3. e = "checkpoint"
        BY <4>2 DEF Entities, Fields
      <4> QED BY <4>2, <4>3
    <3>2. <<"checkpoint", f>>[2] = f
      OBVIOUS
    <3> QED BY <3>1, <3>2 DEF Own
  <2> QED BY <2>1
<1>2. Fits <=> Agreed /\ Complete
  BY <1>1 DEF Fits, PlanFits, OperationFits, CheckpointFits
<1> HIDE DEF Complete
<1>3. ASSUME Consistent PROVE Agreed
  <2>1. ASSUME NEW thing \in Things, NEW own, NEW by, by \notin NeverCompared,
               <<thing, own, by>> \in Claims
        PROVE  own = TRUE
    <3> DEFINE mine == <<thing, TRUE, <<"job", thing>>>>
               other == <<thing, own, by>>
    <3>1. mine \in Claims
      BY DEF Claims, JobClaims
    <3>2. <<"job", thing>> \notin NeverCompared
      BY DEF NeverCompared, Things
    <3>3. /\ mine[1] = thing /\ mine[2] = TRUE /\ mine[3] = <<"job", thing>>
          /\ other[1] = thing /\ other[2] = own /\ other[3] = by
      OBVIOUS
    <3> HIDE DEF mine, other
    <3>4. ~Disagree(mine, other)
      BY <1>3, <2>1, <3>1, <3>2, <3>3 DEF other
    <3> QED BY <3>3, <3>4 DEF Disagree
  <2>2. "plan" \in given => \A f \in Identity : Own("plan", f)
    <3> SUFFICES ASSUME "plan" \in given PROVE \A f \in Identity : Own("plan", f)
      OBVIOUS
    <3>1. PlanClaims \subseteq Claims
      BY DEF Claims
    <3>2. \A f \in Identity : <<"plan", f>> \notin NeverCompared
      BY DEF NeverCompared, Identity
    <3>3. \A f \in Identity : \E thing \in Things :
              <<thing, Own("plan", f), <<"plan", f>>>> \in PlanClaims
      BY DEF PlanClaims, Claim, Identity, Things
    <3> QED BY <2>1, <3>1, <3>2, <3>3
  <2>3. ASSUME "operation" \in given
        PROVE  /\ \A f \in Identity : Own("operation", f)
               /\ Mutates => Own("operation", "prepared_plan_ref")
               /\ NeedsCheckpoint => Own("operation", "checkpoint_ref")
    <3>1. OperationClaims \subseteq Claims
      BY <2>3 DEF Claims
    <3>2. \A f \in Identity : <<"operation", f>> \notin NeverCompared
      BY DEF NeverCompared, Identity
    <3>3. \A f \in Identity : \E thing \in Things :
              <<thing, Own("operation", f), <<"operation", f>>>> \in OperationClaims
      BY DEF OperationClaims, Claim, Identity, Things
    <3>4. /\ <<"plan", Own("operation", "prepared_plan_ref"),
               <<"operation", "prepared_plan_ref">>>> \in Claims
          /\ <<"checkpoint", Own("operation", "checkpoint_ref"),
               <<"operation", "checkpoint_ref">>>> \in Claims
      BY <3>1 DEF OperationClaims, Claim
    <3>5. /\ Mutates => <<"operation", "prepared_plan_ref">> \notin NeverCompared
          /\ NeedsCheckpoint => <<"operation", "checkpoint_ref">> \notin NeverCompared
          /\ NeedsCheckpoint => Mutates
      BY DEF NeverCompared, NeedsCheckpoint
    <3>6. "plan" \in Things /\ "checkpoint" \in Things
      BY DEF Things
    <3>7. \A f \in Identity : Own("operation", f)
      BY <2>1, <3>1, <3>2, <3>3
    <3> QED BY <2>1, <3>4, <3>5, <3>6, <3>7
  <2>4. ASSUME "checkpoint" \in given
        PROVE  /\ Own("checkpoint", "job_id") /\ Own("checkpoint", "project_id")
               /\ Own("checkpoint", "checkpoint_id")
               /\ Own("checkpoint", "source_revision")
    <3> DEFINE Bound == {"job_id", "project_id", "checkpoint_id", "source_revision"}
    <3>1. CheckpointClaims \subseteq Claims
      BY <2>4 DEF Claims
    <3>2. \A f \in Bound : <<"checkpoint", f>> \notin NeverCompared
      BY DEF NeverCompared
    <3>3. \A f \in Bound : \E thing \in Things :
              <<thing, Own("checkpoint", f), <<"checkpoint", f>>>> \in CheckpointClaims
      BY DEF CheckpointClaims, Claim, Things
    <3>4. \A f \in Bound : Own("checkpoint", f)
      BY <2>1, <3>1, <3>2, <3>3
    <3> QED BY <3>4
  <2>5. ASSUME "receipt" \in given
        PROVE  /\ "operation" \in given =>
                     (Own("receipt", "operation_id") <=> Own("operation", "operation_id"))
               /\ Own("receipt", "has_revision") => Own("receipt", "host_revision_before")
    <3>1. ReceiptClaims \subseteq Claims
      BY <2>5 DEF Claims
    <3>2. ASSUME "operation" \in given
          PROVE  Own("receipt", "operation_id") <=> Own("operation", "operation_id")
      <4> DEFINE c == <<"operation", Own("receipt", "operation_id"),
                        <<"receipt", "operation_id">>>>
                 d == <<"operation", Own("operation", "operation_id"),
                        <<"operation", "operation_id">>>>
      <4>1. OperationClaims \subseteq Claims
        BY <3>2 DEF Claims
      <4>2. c \in Claims /\ d \in Claims
        BY <3>1, <4>1 DEF ReceiptClaims, OperationClaims, Claim
      <4>3. {c[3], d[3]} \cap NeverCompared = {}
        BY DEF NeverCompared
      <4>4. ~Disagree(c, d)
        BY <1>3, <4>2, <4>3
      <4>5. Own("receipt", "operation_id") = Own("operation", "operation_id")
        BY <4>4 DEF Disagree
      <4> QED BY <4>5
    <3>3. Own("receipt", "has_revision") =>
              <<"revision", Own("receipt", "host_revision_before"),
                <<"receipt", "host_revision_before">>>> \in Claims
      BY <3>1 DEF ReceiptClaims, Claim
    <3>4. <<"receipt", "host_revision_before">> \notin NeverCompared /\ "revision" \in Things
      BY DEF NeverCompared, Things
    <3> QED BY <2>1, <3>2, <3>3, <3>4
  <2> QED BY <2>2, <2>3, <2>4, <2>5 DEF ReceiptFits
<1>4. ASSUME Agreed PROVE Consistent
  <2> DEFINE operation == IF "operation" \in given THEN Own("operation", "operation_id")
                          ELSE Own("receipt", "operation_id")
             yes == TRUE
             Agrees(c) == \/ c[3] \in NeverCompared
                          \/ c[1] # "operation" /\ c[2] = yes
                          \/ c[1] = "operation" /\ c[2] = operation
  <2>0. /\ \A thing \in Things, own \in {TRUE} : \A by : Agrees(<<thing, own, by>>)
        /\ \A by : Agrees(<<"operation", operation, by>>)
        /\ \A thing, own, by : by \in NeverCompared => Agrees(<<thing, own, by>>)
    BY DEF Things
  <2> HIDE DEF Agrees, operation, yes
  <2>1. \A c \in JobClaims : Agrees(c)
    <3>1. <<"job", "operation">> \in NeverCompared
      BY DEF NeverCompared
    <3> SUFFICES ASSUME NEW thing \in Things \cup {"operation"}
                 PROVE  Agrees(<<thing, TRUE, <<"job", thing>>>>)
      BY DEF JobClaims
    <3> QED BY <2>0, <3>1
  <2>2. ASSUME "plan" \in given PROVE \A c \in PlanClaims : Agrees(c)
    <3>1. \A f \in Identity : Own("plan", f) = TRUE
      BY <1>4, <2>2 DEF Own
    <3>2. <<"plan", "plan_id">> \in NeverCompared /\ <<"plan", "operations">> \in NeverCompared
      BY DEF NeverCompared
    <3>3. /\ Agrees(Claim("plan", "plan", "plan_id"))
          /\ Agrees(Claim("job", "plan", "operations"))
      BY <2>0, <3>2 DEF Claim
    <3>4. /\ Agrees(Claim("job", "plan", "job_id"))
          /\ Agrees(Claim("project", "plan", "project_id"))
          /\ Agrees(Claim("host", "plan", "host_instance_id"))
          /\ Agrees(Claim("document", "plan", "document_id"))
          /\ Agrees(Claim("revision", "plan", "expected_revision"))
      BY <2>0, <3>1 DEF Claim, Things, Identity
    <3> QED BY <3>3, <3>4 DEF PlanClaims
  <2>3. ASSUME "operation" \in given PROVE \A c \in OperationClaims : Agrees(c)
    <3>1. /\ \A f \in Identity : Own("operation", f) = TRUE
          /\ Mutates => Own("operation", "prepared_plan_ref") = TRUE
          /\ NeedsCheckpoint => Own("operation", "checkpoint_ref") = TRUE
      BY <1>4, <2>3 DEF Own
    <3>2. Own("operation", "operation_id") = operation
      BY <2>3 DEF operation
    <3>3. /\ ~Mutates => <<"operation", "prepared_plan_ref">> \in NeverCompared
          /\ ~NeedsCheckpoint => <<"operation", "checkpoint_ref">> \in NeverCompared
      BY DEF NeverCompared
    <3>4. /\ Agrees(Claim("plan", "operation", "prepared_plan_ref"))
          /\ Agrees(Claim("checkpoint", "operation", "checkpoint_ref"))
      BY <2>0, <3>1, <3>3 DEF Claim, Things
    <3>5. Agrees(Claim("operation", "operation", "operation_id"))
      BY <2>0, <3>2 DEF Claim
    <3>6. /\ Agrees(Claim("job", "operation", "job_id"))
          /\ Agrees(Claim("project", "operation", "project_id"))
          /\ Agrees(Claim("host", "operation", "host_instance_id"))
          /\ Agrees(Claim("document", "operation", "document_id"))
          /\ Agrees(Claim("revision", "operation", "expected_revision"))
      BY <2>0, <3>1 DEF Claim, Things, Identity
    <3> QED BY <3>4, <3>5, <3>6 DEF OperationClaims
  <2>4. ASSUME "checkpoint" \in given PROVE \A c \in CheckpointClaims : Agrees(c)
    <3>1. /\ Own("checkpoint", "job_id") = TRUE /\ Own("checkpoint", "project_id") = TRUE
          /\ Own("checkpoint", "checkpoint_id") = TRUE
          /\ Own("checkpoint", "source_revision") = TRUE
      BY <1>4, <2>4 DEF Own
    <3>2. ASSUME NEW c \in CheckpointClaims
          PROVE  \E thing \in Things, own \in {TRUE} : \E by : c = <<thing, own, by>>
      BY <3>1, Zenon DEF CheckpointClaims, Claim, Things
    <3> QED BY <2>0, <3>2
  <2>5. ASSUME "receipt" \in given PROVE \A c \in ReceiptClaims : Agrees(c)
    <3>1. Own("receipt", "operation_id") = operation
      BY <1>4, <2>5 DEF ReceiptFits, Own, operation
    <3>2. Own("receipt", "has_revision") => Own("receipt", "host_revision_before") = TRUE
      BY <1>4, <2>5 DEF ReceiptFits, Own
    <3>3. ASSUME NEW c \in ReceiptClaims
          PROVE  \/ \E thing \in Things, own \in {TRUE} : \E by : c = <<thing, own, by>>
                 \/ \E by : c = <<"operation", operation, by>>
      BY <3>1, <3>2, Zenon DEF ReceiptClaims, Claim, Things
    <3> QED BY <2>0, <3>3
  <2>6. \A c \in Claims : Agrees(c)
    BY <2>1, <2>2, <2>3, <2>4, <2>5 DEF Claims
  <2> SUFFICES ASSUME NEW c \in Claims, NEW d \in Claims, Disagree(c, d)
               PROVE  {c[3], d[3]} \cap NeverCompared # {}
    OBVIOUS
  <2>7. Agrees(c) /\ Agrees(d)
    BY <2>6
  <2>8. c[3] \in NeverCompared \/ d[3] \in NeverCompared
    <3> SUFFICES ASSUME c[3] \notin NeverCompared, d[3] \notin NeverCompared PROVE FALSE
      OBVIOUS
    <3>1. /\ \/ c[1] # "operation" /\ c[2] = yes
             \/ c[1] = "operation" /\ c[2] = operation
          /\ \/ d[1] # "operation" /\ d[2] = yes
             \/ d[1] = "operation" /\ d[2] = operation
      BY <2>7, Zenon DEF Agrees
    <3>2. c[1] = d[1] /\ c[2] # d[2]
      BY Zenon DEF Disagree
    <3>3. c[2] = d[2]
      <4>1. CASE c[1] = "operation"
        <5>1. c[2] = operation /\ d[2] = operation
          BY <3>1, <3>2, <4>1
        <5> QED BY <5>1
      <4>2. CASE c[1] # "operation"
        <5>1. c[2] = yes /\ d[2] = yes
          BY <3>1, <3>2, <4>2
        <5> QED BY <5>1
      <4> QED BY <4>1, <4>2
    <3> QED BY <3>2, <3>3
  <2>9. c[3] \in {c[3], d[3]} /\ d[3] \in {c[3], d[3]}
    OBVIOUS
  <2> QED BY <2>8, <2>9
<1> QED BY <1>2, <1>3, <1>4 DEF Complete

LEMMA BindingStep == BindingInv /\ [BindingNext]_bindingVars => BindingInv'
<1> SUFFICES ASSUME BindingInv, [BindingNext]_bindingVars PROVE BindingInv'
  OBVIOUS
<1>1. CASE Mix
  BY <1>1 DEF Mix, BindingInv
<1>2. UNCHANGED <<dossier, given>> => validate_job_binding' = validate_job_binding
  BY DEF validate_job_binding, Failing, Checks, Mismatch, Mutates, NeedsCheckpoint, Own
<1>3. CASE Validate
  BY <1>2, <1>3 DEF Validate, BindingInv
<1>4. CASE UNCHANGED bindingVars
  BY <1>2, <1>4 DEF bindingVars, BindingInv
<1> QED BY <1>1, <1>3, <1>4 DEF BindingNext

\* However many fields of however many artefacts come from elsewhere, what is
\* accepted is complete and consistent in every claim but the few that are compared
\* with nothing, and what is so is accepted (core/binding.py:31-155).
THEOREM AcceptedMeansConsistent == BindingSpec => []AcceptedIsConsistent
<1>1. BindingInit => BindingInv
  BY DEF BindingInit, BindingInv
<1>2. BindingInv => AcceptedIsConsistent
  BY AcceptedIffFits, FitsIffConsistent DEF BindingInv, AcceptedIsConsistent
<1> QED BY <1>1, <1>2, BindingStep, PTL DEF BindingSpec

-----------------------------------------------------------------------------
(***************************************************************************)
(* The diagnosis.  An edit takes the report with it, so a report is about   *)
(* the scene as it is; what has to be shown is what analyze makes of it.    *)
(***************************************************************************)

SceneOK ==
    /\ scene = [active |-> scene.active, vertices |-> scene.vertices,
                meshApplied |-> scene.meshApplied, modifiers |-> scene.modifiers,
                weights |-> scene.weights, bones |-> scene.bones,
                rigApplied |-> scene.rigApplied]
    /\ scene.modifiers \in Seq({"other", "dangling", "rig"})
    /\ scene.weights \subseteq {"unweighted", "many"}
    /\ scene.bones \subseteq BoneNames \cup UNION Hands

DiagnosisInv == SceneOK /\ ReadyMeansNoDefect /\ WholeHandIsComplete

LEMMA MeshReady ==
    ASSUME NEW m
    PROVE  /\ (\A i \in MeshIssues(m) : ~Blocks(i)) <=>
                  /\ ~(m.vertices > 45000) /\ m.applied /\ m.hasArmature
                  /\ "unweighted" \notin m.weights /\ "many" \notin m.weights
           /\ \A i \in MeshIssues(m) : i.side = "none"
<1> DEFINE high == Issue("MESH_HIGH_POLY", "WARNING")
           fine == Issue("MESH_POLY_OK", "INFO")
           unapplied == Issue("MESH_UNAPPLIED_TRANSFORM", "WARNING")
           bare == Issue("MESH_NO_ARMATURE_MODIFIER", "WARNING")
           unweighted == Issue("WEIGHTS_UNWEIGHTED_VERTICES", "WARNING")
           many == Issue("WEIGHTS_EXCEED_LIMIT", "WARNING")
<1>1. /\ Blocks(high) /\ ~Blocks(fine) /\ Blocks(unapplied) /\ Blocks(bare)
      /\ Blocks(unweighted) /\ Blocks(many)
  BY DEF Blocks, Issue
<1>0. /\ high.side = "none" /\ fine.side = "none" /\ unapplied.side = "none"
      /\ bare.side = "none" /\ unweighted.side = "none" /\ many.side = "none"
  BY DEF Issue
<1> DEFINE big == m.vertices > 45000
           small == m.vertices \in 1..45000
           loose == "unweighted" \in m.weights
           crowded == "many" \in m.weights
<1>2. MeshIssues(m) =
          (IF big THEN {high} ELSE {}) \cup (IF small THEN {fine} ELSE {})
          \cup (IF ~m.applied THEN {unapplied} ELSE {})
          \cup (IF ~m.hasArmature THEN {bare} ELSE {})
          \cup (IF loose THEN {unweighted} ELSE {})
          \cup (IF crowded THEN {many} ELSE {})
  BY DEF MeshIssues, If
<1> HIDE DEF high, fine, unapplied, bare, unweighted, many, big, small, loose, crowded
<1>3. (\A i \in MeshIssues(m) : ~Blocks(i)) <=>
          ~big /\ m.applied /\ m.hasArmature /\ ~loose /\ ~crowded
  BY <1>1, <1>2
<1>4. \A i \in MeshIssues(m) : i.side = "none"
  BY <1>0, <1>2
<1> QED BY <1>3, <1>4 DEF big, loose, crowded

LEMMA FingersNeverBlock ==
    ASSUME NEW summaries, NEW i \in _evaluate_finger_diagnostic(summaries)
    PROVE  ~Blocks(i)
BY DEF _evaluate_finger_diagnostic, FingerIssue, Issue, Blocks

LEMMA ArmatureReady ==
    ASSUME NEW a
    PROVE  (\A i \in ArmatureIssues(a) : ~Blocks(i)) <=> a.applied /\ a.hasBones
<1> DEFINE empty == Issue("ARMATURE_EMPTY", "ERROR")
           unapplied == Issue("ARMATURE_UNAPPLIED_TRANSFORM", "WARNING")
           fingers == _evaluate_finger_diagnostic(_detect_finger_heuristics(a.bones))
<1>1. Blocks(empty) /\ Blocks(unapplied)
  BY DEF Blocks, Issue
<1>2. \A i \in fingers : ~Blocks(i)
  BY FingersNeverBlock
<1>3. ArmatureIssues(a) = (IF ~a.applied THEN {unapplied} ELSE {})
                          \cup IF ~a.hasBones THEN {empty} ELSE fingers
  BY DEF ArmatureIssues, If
<1> HIDE DEF empty, unapplied, fingers
<1> QED BY <1>1, <1>2, <1>3

\* The first armature modifier has a target, or else the mesh is misleading.
LEMMA FirstOfStack ==
    ASSUME SceneOK
    PROVE  LET target == get_mesh_info(scene).target IN
           /\ Deformed(scene) => ArmatureModifiers(scene) # {}
           /\ target = "rig" => Deformed(scene)
           /\ ArmatureModifiers(scene) # {} => target = "rig" \/ Misleading(scene)
<1> DEFINE ms == scene.modifiers
           A == ArmatureModifiers(scene)
           first == FirstArmature(scene)
           target == get_mesh_info(scene).target
<1>1. /\ ms \in Seq({"other", "dangling", "rig"})
      /\ DOMAIN ms = 1 .. Len(ms) /\ Len(ms) \in Nat
  BY LenProperties DEF SceneOK
<1>2. \A i \in DOMAIN ms : ms[i] \in {"other", "dangling", "rig"}
  BY <1>1, ElementOfSeq
<1>3. A = {i \in DOMAIN ms : ms[i] # "other"}
  BY DEF ArmatureModifiers
<1>4. target = IF A = {} THEN "none" ELSE ms[first]
  BY DEF get_mesh_info
<1>5. ASSUME A # {}
      PROVE  first \in A /\ \A k \in A : first <= k
  <2>1. A \in SUBSET Nat
    BY <1>1, <1>3
  <2>2. \E i \in A : \A k \in A : i <= k
    <3> HIDE DEF A
    <3> QED BY <1>5, <2>1, LeastNumber
  <2> QED BY <2>2 DEF FirstArmature
<1> HIDE DEF A, first, target
<1>6. Deformed(scene) => A # {}
  BY <1>3 DEF Deformed
<1>7. target = "rig" => Deformed(scene)
  BY <1>3, <1>4, <1>5 DEF Deformed
<1>8. ASSUME A # {}, target # "rig"
      PROVE  Misleading(scene)
  <2>1. first \in 1 .. Len(ms) /\ ms[first] = "dangling"
    BY <1>1, <1>2, <1>3, <1>4, <1>5, <1>8
  <2>2. \A k \in 1 .. first - 1 : ms[k] = "other"
    <3> SUFFICES ASSUME NEW k \in 1 .. first - 1 PROVE ms[k] = "other"
      OBVIOUS
    <3>1. k \in DOMAIN ms /\ ~(first <= k)
      BY <1>1, <2>1
    <3> QED BY <1>3, <1>5, <1>8, <3>1
  <2> QED BY <1>1, <2>1, <2>2 DEF Misleading
<1> QED BY <1>6, <1>7, <1>8 DEF A, target

\* What an animator reads off a name, the patterns find.
LEMMA NamesAreRead ==
    ASSUME NEW name
    PROVE  FingerOf(name) \subseteq FingersNamed(name)
<1>1. \A f \in Fingers : FINGER_PATTERNS[f] \cap PatternsIn(name.stem) # {}
                            => f \in FingersNamed(name)
  BY DEF FingersNamed
<1>2. CASE name.stem \in {"finger_1", "finger_2", "finger_3", "finger_4", "finger_5", "little"}
  <2>1. PatternsIn(name.stem) = {name.stem}
    BY <1>2 DEF PatternsIn
  <2> QED BY <1>1, <1>2, <2>1 DEF FingerOf, Fingers, FINGER_PATTERNS
<1>3. CASE name.stem \in {"ngon_cai", "ngon_tro", "ngon_giua", "ngon_ap_ut", "ngon_ut"}
  <2>1. name.stem \in PatternsIn(name.stem)
    BY <1>3 DEF PatternsIn
  <2> QED BY <1>1, <1>3, <2>1 DEF FingerOf, Fingers, FINGER_PATTERNS
<1>4. CASE name.stem \in Fingers
  <2>1. PatternsIn(name.stem) = {name.stem} /\ FingerOf(name) = {name.stem}
    BY <1>4 DEF PatternsIn, FingerOf, Fingers
  <2> QED BY <1>1, <1>4, <2>1 DEF Fingers, FINGER_PATTERNS
<1>5. CASE name.stem \notin {"finger_1", "finger_2", "finger_3", "finger_4", "finger_5",
                             "little", "ngon_cai", "ngon_tro", "ngon_giua", "ngon_ap_ut",
                             "ngon_ut"} \cup Fingers
  BY <1>5 DEF FingerOf, Fingers
<1> QED BY <1>2, <1>3, <1>4, <1>5

LEMMA SidesAreRead ==
    ASSUME NEW name, NEW side \in {"LEFT", "RIGHT"}, HandOf(name) = {side}
    PROVE  SideNamed(name) = side
<1>1. "LEFT" \in HandOf(name) <=> OnSide(name, "LEFT")
  BY DEF HandOf, OnSide, SIDE_PATTERNS
<1>2. "RIGHT" \in HandOf(name) <=> OnSide(name, "RIGHT")
  BY DEF HandOf, OnSide, SIDE_PATTERNS
<1> QED BY <1>1, <1>2 DEF SideNamed

LEMMA AnalyzeFields ==
    ASSUME NEW via, NEW meshes, NEW armatures, NEW r, r = analyze(via, meshes, armatures)
    PROVE  /\ r.via = via
           /\ r.issues = (UNION {MeshIssues(m) : m \in meshes})
                         \cup (UNION {ArmatureIssues(a) : a \in armatures})
           /\ r.ready <=> \A i \in r.issues : ~Blocks(i)
BY DEF analyze

\* A diagnosis of what was examined calls it ready when it has no defect.
LEMMA ReadyIsRight ==
    ASSUME NEW via, NEW mesh, NEW armature,
           NEW withMesh \in BOOLEAN, NEW withArmature \in BOOLEAN,
           mesh.vertices = scene.vertices, mesh.applied = scene.meshApplied,
           mesh.hasArmature <=> ArmatureModifiers(scene) # {},
           mesh.weights = IF via = "tool" THEN scene.weights ELSE {},
           scene.weights \subseteq {"unweighted", "many"},
           armature.applied = scene.rigApplied, armature.bones = scene.bones,
           NEW r, r = analyze(via, If(withMesh, mesh), If(withArmature, armature))
    PROVE  /\ r.via = via
           /\ "mesh" \in r.examined <=> withMesh
           /\ "armature" \in r.examined <=> withArmature
           /\ r.uncounted <=> withArmature /\ scene.bones # {} /\ ~armature.hasBones
           /\ r.ready <=>
                 /\ withMesh =>
                       /\ ~(scene.vertices > 45000) /\ scene.meshApplied
                       /\ ArmatureModifiers(scene) # {}
                       /\ via = "tool" => scene.weights = {}
                 /\ withArmature => armature.hasBones /\ scene.rigApplied
<1> DEFINE meshes == IF withMesh THEN {mesh} ELSE {}
           armatures == IF withArmature THEN {armature} ELSE {}
           ofMeshes == UNION {MeshIssues(m) : m \in meshes}
           ofArmatures == UNION {ArmatureIssues(a) : a \in armatures}
           issues == ofMeshes \cup ofArmatures
<1>1. r = analyze(via, meshes, armatures)
  BY DEF If
<1>2. /\ meshes # {} <=> withMesh
      /\ armatures # {} <=> withArmature
  OBVIOUS
<1>3. \A i : i \in issues <=> \/ withMesh /\ i \in MeshIssues(mesh)
                              \/ withArmature /\ i \in ArmatureIssues(armature)
  <2>1. ofMeshes = IF withMesh THEN MeshIssues(mesh) ELSE {}
    <3>1. UNION {MeshIssues(m) : m \in {mesh}} = MeshIssues(mesh)
      OBVIOUS
    <3> QED BY <3>1
  <2>2. ofArmatures = IF withArmature THEN ArmatureIssues(armature) ELSE {}
    <3>1. UNION {ArmatureIssues(a) : a \in {armature}} = ArmatureIssues(armature)
      OBVIOUS
    <3> QED BY <3>1
  <2>3. issues = (IF withMesh THEN MeshIssues(mesh) ELSE {})
                 \cup IF withArmature THEN ArmatureIssues(armature) ELSE {}
    <3> HIDE DEF ofMeshes, ofArmatures
    <3> QED BY <2>1, <2>2
  <2> HIDE DEF issues
  <2> QED BY <2>3
<1> HIDE DEF meshes, armatures, issues
<1>4. /\ r.via = via
      /\ r.examined = (IF meshes # {} THEN {"mesh"} ELSE {})
                      \cup (IF armatures # {} THEN {"armature"} ELSE {})
      /\ r.ready <=> \A i \in issues : ~Blocks(i)
  <2>1. r.via = via /\ r.issues = issues /\ (r.ready <=> \A i \in r.issues : ~Blocks(i))
    BY <1>1, AnalyzeFields DEF issues
  <2>2. r.examined = (IF meshes # {} THEN {"mesh"} ELSE {})
                     \cup (IF armatures # {} THEN {"armature"} ELSE {})
    BY <1>1 DEF analyze, If
  <2> QED BY <2>1, <2>2
<1>5. r.ready <=> /\ withMesh => \A i \in MeshIssues(mesh) : ~Blocks(i)
                  /\ withArmature => \A i \in ArmatureIssues(armature) : ~Blocks(i)
  BY <1>3, <1>4
<1>6. (\A i \in ArmatureIssues(armature) : ~Blocks(i)) <=>
          armature.hasBones /\ scene.rigApplied
  BY ArmatureReady
<1>7. (\A i \in MeshIssues(mesh) : ~Blocks(i)) <=>
          /\ ~(scene.vertices > 45000) /\ scene.meshApplied
          /\ ArmatureModifiers(scene) # {}
          /\ via = "tool" => scene.weights = {}
  <2>1. ("unweighted" \notin mesh.weights /\ "many" \notin mesh.weights) <=>
            (via = "tool" => scene.weights = {})
    OBVIOUS
  <2>2. (\A i \in MeshIssues(mesh) : ~Blocks(i)) <=>
            /\ ~(mesh.vertices > 45000) /\ mesh.applied /\ mesh.hasArmature
            /\ "unweighted" \notin mesh.weights /\ "many" \notin mesh.weights
    BY MeshReady
  <2> QED BY <2>1, <2>2
<1>8. r.uncounted <=> withArmature /\ scene.bones # {} /\ ~armature.hasBones
  <2>1. r.uncounted <=> \E a \in armatures : a.bones # {} /\ ~a.hasBones
    BY <1>1 DEF analyze
  <2> QED BY <2>1 DEF armatures
<1>9. /\ "mesh" \in r.examined <=> withMesh
      /\ "armature" \in r.examined <=> withArmature
  BY <1>2, <1>4
<1> QED BY <1>4, <1>5, <1>6, <1>7, <1>8, <1>9

\* Such a diagnosis is right about the character, by whichever way it came.
LEMMA ReportIsRight ==
    ASSUME SceneOK, scene' = scene, report'.via \in {"panel", "tool"},
           NEW hasBones \in BOOLEAN, hasBones => scene.bones # {},
           report'.via = "panel" =>
               /\ scene.bones # {} => hasBones
               /\ "mesh" \in report'.examined <=> scene.active = "mesh"
               /\ "armature" \in report'.examined <=>
                     \/ scene.active = "armature"
                     \/ scene.active = "mesh" /\ get_mesh_info(scene).target = "rig",
           report'.uncounted <=>
               "armature" \in report'.examined /\ scene.bones # {} /\ ~hasBones,
           report'.ready <=>
               /\ "mesh" \in report'.examined =>
                     /\ ~(scene.vertices > 45000) /\ scene.meshApplied
                     /\ ArmatureModifiers(scene) # {}
                     /\ report'.via = "tool" => scene.weights = {}
               /\ "armature" \in report'.examined => hasBones /\ scene.rigApplied
    PROVE  ReadyMeansNoDefect'
<1> DEFINE about == About(report', scene)
           target == get_mesh_info(scene).target
           withMesh == "mesh" \in report'.examined
           withArmature == "armature" \in report'.examined
<1>1. /\ Deformed(scene) => ArmatureModifiers(scene) # {}
      /\ target = "rig" => Deformed(scene)
      /\ ArmatureModifiers(scene) # {} => target = "rig" \/ Misleading(scene)
  BY FirstOfStack
<1>2. /\ "mesh" \in about <=> withMesh
      /\ "armature" \in about <=>
            IF report'.via = "tool" THEN withArmature
            ELSE \/ scene.active = "armature"
                 \/ scene.active = "mesh" /\ Deformed(scene)
  <2>1. CASE report'.via = "tool"
    BY <2>1 DEF About
  <2>2. CASE report'.via = "panel" /\ scene.active = "mesh"
    BY <2>2 DEF About, If
  <2>3. CASE report'.via = "panel" /\ scene.active = "armature"
    BY <2>3 DEF About
  <2>4. CASE report'.via = "panel" /\ scene.active \notin {"mesh", "armature"}
    <3>1. about = {}
      BY <2>4 DEF About
    <3> QED BY <2>4, <3>1
  <2> QED BY <2>1, <2>2, <2>3, <2>4
<1> HIDE DEF about, target
<1>3. Defective(report', scene) <=>
          \/ "mesh" \in about /\ (scene.vertices > 45000 \/ ~scene.meshApplied)
          \/ "mesh" \in about /\ report'.via = "tool" /\ scene.weights # {}
          \/ "armature" \in about /\ (scene.bones = {} \/ ~scene.rigApplied)
          \/ "mesh" \in about /\ ~Deformed(scene)
  BY DEF Defective, Defect, about
<1>4. Defect(report'.examined, report', scene) <=>
          \/ withMesh /\ (scene.vertices > 45000 \/ ~scene.meshApplied)
          \/ withMesh /\ report'.via = "tool" /\ scene.weights # {}
          \/ withArmature /\ (scene.bones = {} \/ ~scene.rigApplied)
  BY DEF Defect
<1>5. ~report'.ready => Defective(report', scene) \/ report'.uncounted
  BY <1>1, <1>2, <1>3 DEF target
<1>6. report'.ready => ~Defect(report'.examined, report', scene)
  BY <1>4
<1>7. report'.ready /\ Defective(report', scene) => withMesh /\ Misleading(scene)
  BY <1>1, <1>2, <1>3 DEF target
<1>8. /\ Misleading(scene)' <=> Misleading(scene)
      /\ Defective(report, scene)' <=> Defective(report', scene)
      /\ Defect(report.examined, report, scene)' <=> Defect(report'.examined, report', scene)
  OBVIOUS
<1> QED BY <1>5, <1>6, <1>7, <1>8 DEF ReadyMeansNoDefect

\* The issues that a diagnosis reports for a side are those of its fingers.
LEMMA WholeHandReported ==
    ASSUME NEW via, NEW meshes, NEW armatures,
           "armature" \in analyze(via, meshes, armatures).examined,
           NEW armature, armatures \subseteq {armature}, armature.bones = scene.bones,
           ~analyze(via, meshes, armatures).uncounted,
           NEW side \in {"LEFT", "RIGHT"},
           \A f \in Fingers : \E b \in scene.bones : HandOf(b) = {side} /\ f \in FingerOf(b)
    PROVE  LET own == {j \in analyze(via, meshes, armatures).issues : j.side = side}
           IN  \E i : own = {i} /\ i.code = "FINGERS_COMPLETE_HEURISTIC"
<1> DEFINE summaries == _detect_finger_heuristics(scene.bones)
           summarised == {s \in Sides : summaries[s] # {}}
           r == analyze(via, meshes, armatures)
           ofMeshes == UNION {MeshIssues(m) : m \in meshes}
           ofArmatures == UNION {ArmatureIssues(a) : a \in armatures}
           issues == ofMeshes \cup ofArmatures
<1>1. armatures = {armature}
  <2>1. armatures # {}
    BY DEF analyze, If
  <2> QED BY <2>1
<1>0. ofArmatures = ArmatureIssues(armature)
  <2>1. UNION {ArmatureIssues(a) : a \in {armature}} = ArmatureIssues(armature)
    OBVIOUS
  <2> QED BY <1>1, <2>1
<1>2. r.issues = issues
  BY AnalyzeFields
<1>3. scene.bones # {} /\ armature.hasBones
  <2>1. scene.bones # {}
    BY DEF Fingers
  <2> QED BY <1>1, <2>1 DEF analyze
<1>4. summaries[side] = Fingers
  <2>1. summaries[side] =
            UNION {FingersNamed(b) : b \in {n \in scene.bones : SideNamed(n) = side}}
    BY DEF _detect_finger_heuristics, Sides
  <2>3. \A f \in Fingers : \E b \in scene.bones : SideNamed(b) = side /\ f \in FingersNamed(b)
    BY NamesAreRead, SidesAreRead
  <2>4. \A b : FingersNamed(b) \subseteq Fingers
    BY DEF FingersNamed
  <2> QED BY <2>1, <2>3, <2>4
<1>5. side \in summarised
  BY <1>4 DEF Sides, Fingers
<1>6. ArmatureIssues(armature) =
          (IF ~armature.applied THEN {Issue("ARMATURE_UNAPPLIED_TRANSFORM", "WARNING")} ELSE {})
          \cup {FingerIssue(s, summaries[s]) : s \in summarised}
  BY <1>1, <1>3, <1>5 DEF ArmatureIssues, If, _evaluate_finger_diagnostic
<1>7. \A s, detected : FingerIssue(s, detected).side = s
  BY DEF FingerIssue
<1>8. \A code, severity : Issue(code, severity).side # side
  BY DEF Issue
<1>9. ASSUME NEW m, NEW i \in MeshIssues(m) PROVE i.side # side
  BY MeshReady
<1>10. FingerIssue(side, summaries[side]).code = "FINGERS_COMPLETE_HEURISTIC"
  BY <1>4 DEF FingerIssue
<1> HIDE DEF summaries, summarised, r
<1>11. \A i \in issues : i.side = side => i = FingerIssue(side, summaries[side])
  <2>1. \A i \in ArmatureIssues(armature) :
            i.side = side => i = FingerIssue(side, summaries[side])
    BY <1>6, <1>7, <1>8
  <2>2. ASSUME NEW i \in issues
        PROVE  (\E m \in meshes : i \in MeshIssues(m)) \/ i \in ArmatureIssues(armature)
    <3>1. i \in ofMeshes \/ i \in ArmatureIssues(armature)
      <4> HIDE DEF ofMeshes, ofArmatures
      <4> QED BY <1>0
    <3> QED BY <3>1
  <2> QED BY <1>9, <2>1, <2>2
<1>12. FingerIssue(side, summaries[side]) \in issues
  <2>1. FingerIssue(side, summaries[side]) \in ArmatureIssues(armature)
    BY <1>5, <1>6
  <2> HIDE DEF ofMeshes, ofArmatures
  <2> QED BY <1>0, <2>1
<1> HIDE DEF issues
<1>13. {j \in issues : j.side = side} = {FingerIssue(side, summaries[side])}
  BY <1>7, <1>11, <1>12
<1> QED BY <1>2, <1>10, <1>13 DEF r

LEMMA WholeHandsReported ==
    ASSUME SceneOK, NEW via, NEW meshes, NEW armatures,
           NEW armature, armatures \subseteq {armature}, armature.bones = scene.bones,
           report' = analyze(via, meshes, armatures), scene' = scene
    PROVE  WholeHandIsComplete'
<1> DEFINE hand(side) == UNION {FingerOf(b) : b \in {n \in scene.bones : HandOf(n) = {side}}}
<1>2. ASSUME NEW side \in {"LEFT", "RIGHT"}, "armature" \in report'.examined,
             ~report'.uncounted, hand(side) = Fingers
      PROVE  {i.code : i \in {j \in report'.issues : j.side = side}}
                 = {"FINGERS_COMPLETE_HEURISTIC"}
  <2>1. /\ "armature" \in analyze(via, meshes, armatures).examined
        /\ ~analyze(via, meshes, armatures).uncounted
    BY <1>2
  <2>2. UNION {FingerOf(b) : b \in {n \in scene.bones : HandOf(n) = {side}}} = Fingers
    BY <1>2
  <2>3. \A f \in Fingers : \E b \in scene.bones : HandOf(b) = {side} /\ f \in FingerOf(b)
    BY <2>2
  <2> DEFINE own == {j \in report'.issues : j.side = side}
  <2>4. \E i : own = {i} /\ i.code = "FINGERS_COMPLETE_HEURISTIC"
    BY <2>1, <2>3, WholeHandReported
  <2> HIDE DEF own
  <2>5. {i.code : i \in own} = {"FINGERS_COMPLETE_HEURISTIC"}
    BY <2>4
  <2> QED BY <2>5 DEF own
<1> QED BY <1>2 DEF WholeHandIsComplete

LEMMA DiagnoseSceneStep ==
    ASSUME DiagnosisInv, DiagnoseScene
    PROVE  DiagnosisInv'
<1> DEFINE mesh == get_mesh_info(scene)
           armature == get_armature_info(scene)
           withMesh == scene.active = "mesh"
           withArmature == \/ scene.active = "armature"
                           \/ scene.active = "mesh" /\ mesh.target = "rig"
           meshes == If(withMesh, mesh)
           armatures == If(withArmature, armature)
<1>1. /\ report' = analyze("panel", meshes, armatures)
      /\ scene' = scene /\ edits' = edits
  BY DEF DiagnoseScene
<1>2. /\ mesh.vertices = scene.vertices /\ mesh.applied = scene.meshApplied
      /\ mesh.hasArmature <=> ArmatureModifiers(scene) # {}
      /\ mesh.weights = {}
  BY DEF get_mesh_info
<1>3. /\ armature.applied = scene.rigApplied /\ armature.bones = scene.bones
      /\ armature.hasBones <=> scene.bones # {}
  BY DEF get_armature_info
<1>4. SceneOK /\ scene.weights \subseteq {"unweighted", "many"}
  BY DEF DiagnosisInv, SceneOK
<1>5. ReadyMeansNoDefect'
  <2> DEFINE m == withMesh
             a == withArmature
             via == "panel"
  <2>1. /\ m \in BOOLEAN /\ a \in BOOLEAN
        /\ m <=> scene.active = "mesh"
        /\ a <=> \/ scene.active = "armature"
                 \/ scene.active = "mesh" /\ get_mesh_info(scene).target = "rig"
    OBVIOUS
  <2>2. /\ report' = analyze(via, If(m, mesh), If(a, armature))
        /\ mesh.weights = IF via = "tool" THEN scene.weights ELSE {}
    BY <1>1, <1>2
  <2>3. via = "panel"
    OBVIOUS
  <2> HIDE DEF m, a, mesh, armature, via
  <2>4. /\ report'.via = via
        /\ "mesh" \in report'.examined <=> m
        /\ "armature" \in report'.examined <=> a
        /\ report'.uncounted <=> a /\ scene.bones # {} /\ ~armature.hasBones
        /\ report'.ready <=>
              /\ m => /\ ~(scene.vertices > 45000) /\ scene.meshApplied
                      /\ ArmatureModifiers(scene) # {}
                      /\ via = "tool" => scene.weights = {}
              /\ a => armature.hasBones /\ scene.rigApplied
    BY <1>2, <1>3, <1>4, <2>1, <2>2, ReadyIsRight
  <2> DEFINE h == armature.hasBones
  <2>5. h \in BOOLEAN /\ (h <=> scene.bones # {})
    BY DEF armature, get_armature_info
  <2> HIDE DEF h
  <2>6. /\ report'.via = "panel"
        /\ report'.uncounted <=>
              "armature" \in report'.examined /\ scene.bones # {} /\ ~h
        /\ report'.ready <=>
              /\ "mesh" \in report'.examined =>
                    /\ ~(scene.vertices > 45000) /\ scene.meshApplied
                    /\ ArmatureModifiers(scene) # {}
                    /\ report'.via = "tool" => scene.weights = {}
              /\ "armature" \in report'.examined => h /\ scene.rigApplied
    BY <2>3, <2>4 DEF h
  <2>7. /\ "mesh" \in report'.examined <=> scene.active = "mesh"
        /\ "armature" \in report'.examined <=>
              \/ scene.active = "armature"
              \/ scene.active = "mesh" /\ get_mesh_info(scene).target = "rig"
    BY <2>1, <2>4
  <2>8. scene' = scene
    BY <1>1
  <2> QED BY <1>4, <2>5, <2>6, <2>7, <2>8, ReportIsRight
<1>6. WholeHandIsComplete'
  <2>1. armatures \subseteq {armature}
    BY DEF If
  <2> HIDE DEF meshes, armatures, armature
  <2> QED BY <1>1, <1>3, <1>4, <2>1, WholeHandsReported
<1> QED BY <1>1, <1>4, <1>5, <1>6 DEF DiagnosisInv, SceneOK

LEMMA DiagnoseRigStep ==
    ASSUME DiagnosisInv, DiagnoseRig
    PROVE  DiagnosisInv'
<1> DEFINE mesh == [get_mesh_info(scene) EXCEPT !.weights = scene.weights]
           armatureFor(counted) ==
               [get_armature_info(scene) EXCEPT !.hasBones = @ /\ counted]
<1>1. PICK withMesh \in BOOLEAN, withArmature \in BOOLEAN, counted \in BOOLEAN :
          report' = analyze("tool", If(withMesh, mesh),
                            If(withArmature, armatureFor(counted)))
  BY DEF DiagnoseRig
<1> DEFINE armature == armatureFor(counted)
<1>2. scene' = scene /\ edits' = edits
  BY DEF DiagnoseRig
<1>3. /\ mesh.vertices = scene.vertices /\ mesh.applied = scene.meshApplied
      /\ mesh.hasArmature <=> ArmatureModifiers(scene) # {}
      /\ mesh.weights = scene.weights
  BY DEF get_mesh_info
<1>4. /\ armature.applied = scene.rigApplied /\ armature.bones = scene.bones
      /\ armature.hasBones => scene.bones # {}
  BY DEF get_armature_info
<1>5. SceneOK /\ scene.weights \subseteq {"unweighted", "many"}
  BY DEF DiagnosisInv, SceneOK
<1>6. report' = analyze("tool", If(withMesh, mesh), If(withArmature, armature))
  BY <1>1
<1> HIDE DEF mesh, armature
<1>7. ReadyMeansNoDefect'
  <2> DEFINE via == "tool"
  <2>1. /\ mesh.weights = IF via = "tool" THEN scene.weights ELSE {}
        /\ report' = analyze(via, If(withMesh, mesh), If(withArmature, armature))
        /\ via = "tool"
    BY <1>3, <1>6
  <2> DEFINE m == withMesh
             a == withArmature
  <2>2. m \in BOOLEAN /\ a \in BOOLEAN
    OBVIOUS
  <2> HIDE DEF via, m, a
  <2>3. /\ report' = analyze(via, If(m, mesh), If(a, armature))
        /\ mesh.weights = IF via = "tool" THEN scene.weights ELSE {}
    BY <2>1 DEF m, a
  <2>4. /\ report'.via = via
        /\ "mesh" \in report'.examined <=> m
        /\ "armature" \in report'.examined <=> a
        /\ report'.uncounted <=> a /\ scene.bones # {} /\ ~armature.hasBones
        /\ report'.ready <=>
              /\ m => /\ ~(scene.vertices > 45000) /\ scene.meshApplied
                      /\ ArmatureModifiers(scene) # {}
                      /\ via = "tool" => scene.weights = {}
              /\ a => armature.hasBones /\ scene.rigApplied
    BY <1>3, <1>4, <1>5, <2>2, <2>3, ReadyIsRight
  <2> DEFINE h == armature.hasBones
  <2>5. h \in BOOLEAN /\ (h => scene.bones # {})
    BY DEF armature, get_armature_info
  <2> HIDE DEF h
  <2>6. /\ report'.via = "tool"
        /\ report'.uncounted <=>
              "armature" \in report'.examined /\ scene.bones # {} /\ ~h
        /\ report'.ready <=>
              /\ "mesh" \in report'.examined =>
                    /\ ~(scene.vertices > 45000) /\ scene.meshApplied
                    /\ ArmatureModifiers(scene) # {}
                    /\ report'.via = "tool" => scene.weights = {}
              /\ "armature" \in report'.examined => h /\ scene.rigApplied
    BY <2>1, <2>4 DEF h
  <2> QED BY <1>2, <1>5, <2>5, <2>6, ReportIsRight
<1>8. WholeHandIsComplete'
  <2> DEFINE meshes == If(withMesh, mesh)
             armatures == If(withArmature, armature)
  <2>1. armatures \subseteq {armature}
    BY DEF If
  <2>2. report' = analyze("tool", meshes, armatures)
    BY <1>6
  <2> HIDE DEF meshes, armatures
  <2> QED BY <1>2, <1>4, <1>5, <2>1, <2>2, WholeHandsReported
<1> QED BY <1>2, <1>5, <1>7, <1>8 DEF DiagnosisInv, SceneOK

LEMMA EditStep ==
    ASSUME DiagnosisInv,
           Select \/ Transform \/ Stack \/ Unstack \/ Weigh \/ AddBone \/ RemoveBones
    PROVE  DiagnosisInv'
<1>1. report' = NoReport
  BY DEF Select, Transform, Stack, Unstack, Weigh, AddBone, RemoveBones, Edit
<1>2. SceneOK'
  <2>1. CASE Select \/ Transform
    BY <2>1 DEF Select, Transform, Edit, DiagnosisInv, SceneOK
  <2>2. CASE Stack
    <3>1. PICK first \in {"other", "dangling", "rig"},
               rest \in {<<>>, <<"rig">>, <<"dangling">>} :
                   scene' = [scene EXCEPT !.modifiers = <<first>> \o rest]
      BY <2>2 DEF Stack, Edit
    <3>2. <<first>> \o rest \in Seq({"other", "dangling", "rig"})
      <4>1. /\ <<first>> \in Seq({"other", "dangling", "rig"})
            /\ rest \in Seq({"other", "dangling", "rig"})
        <5>1. <<first>> \in Seq({"other", "dangling", "rig"})
          OBVIOUS
        <5>2. CASE rest = <<>>
          BY <5>2, EmptySeq
        <5>3. CASE rest = <<"rig">>
          BY <5>3
        <5>4. CASE rest = <<"dangling">>
          BY <5>4
        <5> QED BY <5>1, <5>2, <5>3, <5>4
      <4> QED BY <4>1, ConcatProperties
    <3> QED BY <3>1, <3>2 DEF DiagnosisInv, SceneOK
  <2>3. CASE Unstack
    <3>1. <<>> \in Seq({"other", "dangling", "rig"})
      BY EmptySeq
    <3> QED BY <2>3, <3>1 DEF Unstack, Edit, DiagnosisInv, SceneOK
  <2>4. CASE Weigh
    BY <2>4 DEF Weigh, Edit, DiagnosisInv, SceneOK
  <2>5. CASE AddBone \/ RemoveBones
    <3>1. PICK bones \in SUBSET (BoneNames \cup UNION Hands) :
              scene' = [scene EXCEPT !.bones = bones]
      BY <2>5 DEF AddBone, RemoveBones, Edit, DiagnosisInv, SceneOK
    <3> QED BY <3>1 DEF DiagnosisInv, SceneOK
  <2> QED BY <2>1, <2>2, <2>3, <2>4, <2>5
<1>3. ReadyMeansNoDefect'
  BY <1>1 DEF ReadyMeansNoDefect
<1>4. WholeHandIsComplete'
  BY <1>1 DEF WholeHandIsComplete, NoReport
<1> QED BY <1>2, <1>3, <1>4 DEF DiagnosisInv

LEMMA DiagnosisStart == DiagnosisInit => DiagnosisInv
<1> SUFFICES ASSUME DiagnosisInit PROVE DiagnosisInv
  OBVIOUS
<1>1. PICK hand \in Hands, v \in VertexCounts :
          scene = [active |-> "mesh", vertices |-> v, meshApplied |-> TRUE,
                   modifiers |-> <<"rig">>, weights |-> {},
                   bones |-> hand, rigApplied |-> TRUE]
  BY DEF DiagnosisInit
<1>2. report = NoReport
  BY DEF DiagnosisInit
<1>3. <<"rig">> \in Seq({"other", "dangling", "rig"})
  OBVIOUS
<1>4. SceneOK
  BY <1>1, <1>3 DEF SceneOK
<1> QED BY <1>2, <1>4 DEF DiagnosisInv, ReadyMeansNoDefect, WholeHandIsComplete, NoReport

LEMMA DiagnosisStep == DiagnosisInv /\ [DiagnosisNext]_diagnosisVars => DiagnosisInv'
<1>1. ASSUME DiagnosisInv, UNCHANGED diagnosisVars PROVE DiagnosisInv'
  <2>1. report' = report /\ scene' = scene
    BY <1>1 DEF diagnosisVars
  <2>2. SceneOK'
    BY <1>1, <2>1 DEF DiagnosisInv, SceneOK
  <2>3. ReadyMeansNoDefect'
    <3>1. ReadyMeansNoDefect' <=> ReadyMeansNoDefect
      BY <2>1, Zenon DEF ReadyMeansNoDefect
    <3> QED BY <1>1, <3>1 DEF DiagnosisInv
  <2>4. WholeHandIsComplete' <=> WholeHandIsComplete
    BY <2>1, Zenon DEF WholeHandIsComplete
  <2> QED BY <1>1, <2>2, <2>3, <2>4 DEF DiagnosisInv
<1> QED BY <1>1, DiagnoseSceneStep, DiagnoseRigStep, EditStep DEF DiagnosisNext

\* For any mesh, any stack of modifiers and any bones: a fresh report raises no
\* false alarm unless the bones were not counted, passes over no defect of what it
\* examined, and looks at the armature that deforms the mesh, or notices that
\* there is none, unless the first armature modifier has no target
\* (analysis/rig.py:156, operators.py:151-162).
THEOREM ReadyIsNoDefect == DiagnosisSpec => []ReadyMeansNoDefect
<1>1. DiagnosisInv => ReadyMeansNoDefect
  BY DEF DiagnosisInv
<1> QED BY <1>1, DiagnosisStart, DiagnosisStep, PTL DEF DiagnosisSpec

\* A hand whose fingers are all there is reported complete, and never partial,
\* beside any other bones and in every naming convention
\* (analysis/rig.py:204-214, 263-291).
THEOREM WholeHandsAreComplete == DiagnosisSpec => []WholeHandIsComplete
<1>1. DiagnosisInv => WholeHandIsComplete
  BY DEF DiagnosisInv
<1> QED BY <1>1, DiagnosisStart, DiagnosisStep, PTL DEF DiagnosisSpec
=============================================================================
