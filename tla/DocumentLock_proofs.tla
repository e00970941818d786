------------------------- MODULE DocumentLock_proofs -------------------------
(***************************************************************************)
(* What is left of mutual exclusion in DocumentLock, for any processes,    *)
(* jobs, deaths, refused writes and timeout.                               *)
(***************************************************************************)
EXTENDS DocumentLock, TLAPS

\* What a process has concluded from the content it has read stays true: a dead
\* pid stays dead and an age only grows.
Judged ==
    \A p \in Processes :
        /\ ~At(p, "idle") => job[p] \in Jobs
        /\ At(p, "refresh") => seen[p] # NoLock /\ seen[p].job = job[p]
        /\ At(p, "write") => \/ seen[p] = NoLock
                             \/ seen[p].job = job[p]
                             \/ Stale(seen[p])
        /\ At(p, "unlink") => seen[p] = NoLock \/ seen[p].job = job[p]

\* From the write of acquire to the unlink of release.
Owning(p) == pc[p] \in {"inside", "exists", "compare", "unlink"}

Guarded == incidents = {} => \A p \in Processes : Owning(p) => Holds(p)

LInv == TypeOK /\ Judged /\ Guarded

-----------------------------------------------------------------------------
\* A lock grows older, or loses its owner, and remains a lock of its job.
LEMMA OlderFact ==
    ASSUME NEW l \in LockMetadata \union {NoLock}
    PROVE  /\ Older(l) \in LockMetadata \union {NoLock}
           /\ l = NoLock <=> Older(l) = NoLock
           /\ l # NoLock => /\ Older(l).job = l.job
                            /\ Older(l).pid = l.pid
                            /\ Expired(l) => Expired(Older(l))
<1>1. CASE l = NoLock
    BY <1>1 DEF Older
<1>2. CASE l # NoLock /\ Expired(l)
    BY <1>2 DEF Older
<1>3. CASE l # NoLock /\ ~Expired(l)
    <2>1. l \in LockMetadata /\ l.age \in 0 .. Timeout /\ Timeout \in Nat
        BY <1>3, LockAssumption DEF LockMetadata, Ages, Expired
    <2>2. Older(l) = [l EXCEPT !.age = @ + 1]
        BY <1>3 DEF Older
    <2>3. /\ Older(l) \in LockMetadata
          /\ Older(l).job = l.job
          /\ Older(l).pid = l.pid
        BY <2>1, <2>2 DEF LockMetadata, Ages
    <2>4. NoLock \notin LockMetadata
        BY LockAssumption DEF LockMetadata, Ages
    <2> QED BY <1>3, <2>3, <2>4
<1> QED BY <1>1, <1>2, <1>3

LEMMA BuriedFact ==
    ASSUME NEW l \in LockMetadata \union {NoLock}, NEW p \in Processes
    PROVE  /\ Buried(l, p) \in LockMetadata \union {NoLock}
           /\ l = NoLock <=> Buried(l, p) = NoLock
           /\ l # NoLock => /\ Buried(l, p).job = l.job
                            /\ Buried(l, p).age = l.age
                            /\ l.pid # p => Buried(l, p) = l
                            /\ ~Alive(l.pid) => ~Alive(Buried(l, p).pid)
<1>1. NoLock \notin LockMetadata
    BY LockAssumption DEF LockMetadata, Ages
<1>2. CASE l # NoLock /\ l.pid = p
    BY <1>1, <1>2, LockAssumption DEF Buried, LockMetadata, Alive
<1>3. CASE l = NoLock \/ l.pid # p
    BY <1>3 DEF Buried
<1> QED BY <1>2, <1>3

-----------------------------------------------------------------------------
LEMMA InitInv == Init => LInv
BY DEF Init, LInv, TypeOK, Judged, Guarded, Owning, At, Labels

LEMMA TypeStep == TypeOK /\ Judged /\ [Next]_vars => TypeOK'
<1> SUFFICES ASSUME TypeOK, Judged, [Next]_vars PROVE TypeOK'
    OBVIOUS
<1>0. 0 \in Ages
    BY LockAssumption DEF Ages
<1>1. ASSUME NEW p \in Processes, NEW j \in Jobs, Start(p, j) PROVE TypeOK'
    BY <1>1 DEF TypeOK, Start, Labels
<1>2. ASSUME NEW p \in Processes, Look(p) PROVE TypeOK'
    BY <1>2 DEF TypeOK, Look, Readings, Goto, Labels
<1>3. ASSUME NEW p \in Processes, Decide(p) PROVE TypeOK'
    BY <1>3 DEF TypeOK, Decide, Goto, Leave, Labels
<1>4. ASSUME NEW p \in Processes, Refresh(p) PROVE TypeOK'
    <2>1. file' \in LockMetadata
        BY <1>0, <1>4 DEF TypeOK, Judged, Refresh, LockMetadata
    <2>2. incidents' \subseteq Incidents
        BY <1>4 DEF TypeOK, Refresh, Raced, Incidents
    <2> QED BY <1>4, <2>1, <2>2 DEF TypeOK, Refresh, Goto, Labels
<1>5. ASSUME NEW p \in Processes, Write(p) PROVE TypeOK'
    <2>1. file' \in LockMetadata
        BY <1>0, <1>5 DEF TypeOK, Judged, Write, LockMetadata, At
    <2>2. incidents' \subseteq Incidents
        BY <1>5 DEF TypeOK, Write, Raced, Displaced, Incidents
    <2> QED BY <1>5, <2>1, <2>2 DEF TypeOK, Write, Goto, Labels
<1>6. ASSUME NEW p \in Processes, Finish(p) \/ Exists(p) \/ Compare(p) PROVE TypeOK'
    BY <1>6 DEF TypeOK, Finish, Exists, Compare, Readings, Goto, Leave, Labels
<1>7. ASSUME NEW p \in Processes, Unlink(p) PROVE TypeOK'
    BY <1>7 DEF TypeOK, Unlink, Leave, Raced, Labels, Incidents
<1>8. ASSUME NEW p \in Processes, Refused(p) PROVE TypeOK'
    BY <1>8 DEF TypeOK, Refused, RefreshFails, WriteFails, UnlinkFails, Goto, Leave, Labels
<1>9. ASSUME NEW p \in Processes, Die(p) PROVE TypeOK'
    BY <1>9, BuriedFact DEF TypeOK, Die, Labels
<1>10. CASE Tick
    BY <1>10, OlderFact DEF TypeOK, Tick
<1>11. CASE UNCHANGED vars
    BY <1>11 DEF TypeOK, vars
<1> QED BY <1>1, <1>2, <1>3, <1>4, <1>5, <1>6, <1>7, <1>8, <1>9, <1>10, <1>11 DEF Next, Step

LEMMA JudgedStep == TypeOK /\ Judged /\ [Next]_vars => Judged'
<1> SUFFICES ASSUME TypeOK, Judged, [Next]_vars PROVE Judged'
    OBVIOUS
<1>1. ASSUME NEW p \in Processes, NEW j \in Jobs, Start(p, j) PROVE Judged'
    BY <1>1 DEF TypeOK, Judged, Start, At, Stale, Alive, Expired
<1>2. ASSUME NEW p \in Processes, Look(p) PROVE Judged'
    BY <1>2 DEF TypeOK, Judged, Look, Goto, At, Stale, Alive, Expired
<1>3. ASSUME NEW p \in Processes, Decide(p) PROVE Judged'
    BY <1>3 DEF TypeOK, Judged, Decide, Goto, Leave, At, Stale, Alive, Expired
<1>4. ASSUME NEW p \in Processes, Refresh(p) \/ Write(p) \/ Finish(p) PROVE Judged'
    BY <1>4 DEF TypeOK, Judged, Refresh, Write, Finish, Goto, At, Stale, Alive, Expired
<1>5. ASSUME NEW p \in Processes, Exists(p) \/ Compare(p) PROVE Judged'
    BY <1>5 DEF TypeOK, Judged, Exists, Compare, Goto, Leave, At, Stale, Alive, Expired
<1>6. ASSUME NEW p \in Processes, Unlink(p) PROVE Judged'
    BY <1>6 DEF TypeOK, Judged, Unlink, Leave, At, Stale, Alive, Expired
<1>7. ASSUME NEW p \in Processes, Refused(p) PROVE Judged'
    BY <1>7 DEF TypeOK, Judged, Refused, RefreshFails, WriteFails, UnlinkFails,
                Goto, Leave, At, Stale, Alive, Expired
<1>8. ASSUME NEW p \in Processes, Die(p) PROVE Judged'
    <2> SUFFICES ASSUME NEW q \in Processes
                 PROVE  /\ ~At(q, "idle")' => (job[q] \in Jobs)'
                        /\ At(q, "refresh")' => (seen[q] # NoLock /\ seen[q].job = job[q])'
                        /\ At(q, "write")' => \/ (seen[q] = NoLock)'
                                              \/ (seen[q].job = job[q])'
                                              \/ Stale(seen[q])'
                        /\ At(q, "unlink")' => (seen[q] = NoLock \/ seen[q].job = job[q])'
        BY DEF Judged
    <2>1. CASE q = p
        BY <1>8, <2>1 DEF Die, At, TypeOK
    <2>2. CASE q # p
        <3>1. seen'[q] = Buried(seen[q], p) /\ job'[q] = job[q] /\ pc'[q] = pc[q]
            BY <1>8, <2>2 DEF Die, TypeOK
        <3>2. seen[q] \in LockMetadata \union {NoLock}
            BY DEF TypeOK
        <3> QED BY <3>1, <3>2, BuriedFact DEF Judged, At, Stale, Expired
    <2> QED BY <2>1, <2>2
<1>9. CASE Tick
    <2> SUFFICES ASSUME NEW q \in Processes
                 PROVE  /\ ~At(q, "idle")' => (job[q] \in Jobs)'
                        /\ At(q, "refresh")' => (seen[q] # NoLock /\ seen[q].job = job[q])'
                        /\ At(q, "write")' => \/ (seen[q] = NoLock)'
                                              \/ (seen[q].job = job[q])'
                                              \/ Stale(seen[q])'
                        /\ At(q, "unlink")' => (seen[q] = NoLock \/ seen[q].job = job[q])'
        BY DEF Judged
    <2>1. seen'[q] = Older(seen[q]) /\ job'[q] = job[q] /\ pc'[q] = pc[q]
        BY <1>9 DEF Tick
    <2>2. seen[q] \in LockMetadata \union {NoLock}
        BY DEF TypeOK
    <2> QED BY <2>1, <2>2, OlderFact DEF Judged, At, Stale
<1>10. CASE UNCHANGED vars
    BY <1>10 DEF Judged, At, vars, Stale, Alive, Expired
<1> QED BY <1>1, <1>2, <1>3, <1>4, <1>5, <1>6, <1>7, <1>8, <1>9, <1>10 DEF Next, Step

-----------------------------------------------------------------------------
LEMMA GuardedStep == LInv /\ [Next]_vars => Guarded'
<1> SUFFICES ASSUME LInv, [Next]_vars, incidents' = {}
             PROVE  \A q \in Processes : Owning(q)' => Holds(q)'
    BY DEF Guarded
<1>0. TypeOK /\ Judged /\ Guarded
    BY DEF LInv
<1>a. incidents = {}
    BY DEF Next, Step, Start, Look, Decide, Refresh, Write, Finish, Exists, Compare, Unlink,
           Refused, RefreshFails, WriteFails, UnlinkFails, Die, Tick, vars
<1>b. \A q \in Processes : Owning(q) => Holds(q)
    BY <1>0, <1>a DEF Guarded
<1>c. NoLock \notin LockMetadata
    BY LockAssumption DEF LockMetadata, Ages
<1>1. ASSUME NEW p \in Processes, NEW j \in Jobs, Start(p, j)
      PROVE  \A q \in Processes : Owning(q)' => Holds(q)'
    BY <1>0, <1>1, <1>b DEF TypeOK, Start, At, Owning, Holds
<1>2. ASSUME NEW p \in Processes, Look(p) \/ Decide(p) \/ Refused(p)
      PROVE  \A q \in Processes : Owning(q)' => Holds(q)'
    BY <1>0, <1>2, <1>b DEF TypeOK, Look, Decide, Refused, RefreshFails, WriteFails,
                            UnlinkFails, Goto, Leave, At, Owning, Holds
<1>3. ASSUME NEW p \in Processes, Finish(p) \/ Exists(p) \/ Compare(p)
      PROVE  \A q \in Processes : Owning(q)' => Holds(q)'
    BY <1>0, <1>3, <1>b DEF TypeOK, Finish, Exists, Compare, Goto, Leave, At, Owning, Holds
<1>4. ASSUME NEW p \in Processes, Refresh(p)
      PROVE  \A q \in Processes : Owning(q)' => Holds(q)'
    <2>1. seen[p] = file /\ seen[p].pid = p
        BY <1>4 DEF Refresh, Raced
    <2>2. file \in LockMetadata /\ file.job = job[p]
        BY <1>0, <1>4, <2>1 DEF Judged, Refresh, TypeOK
    <2>3. file' # NoLock /\ file'.pid = p /\ file'.job = job[p]
        BY <1>4, <1>c, <2>1, <2>2, LockAssumption DEF Refresh, LockMetadata, Ages
    <2>4. \A q \in Processes : q # p => ~Owning(q)
        BY <1>b, <2>1 DEF Holds
    <2> QED BY <1>0, <1>4, <2>3, <2>4 DEF TypeOK, Refresh, Goto, Owning, Holds
<1>5. ASSUME NEW p \in Processes, Write(p)
      PROVE  \A q \in Processes : Owning(q)' => Holds(q)'
    <2>1. seen[p] = file /\ Displaced(p) = {}
        BY <1>5 DEF Write, Raced
    <2>2. \A q \in Processes : q # p => ~Owning(q)
        <3> SUFFICES ASSUME NEW q \in Processes, q # p, Owning(q) PROVE FALSE
            OBVIOUS
        <3>1. seen[p] # NoLock /\ seen[p].pid = q /\ q # Dead
            BY <1>b, <2>1, LockAssumption DEF Holds
        <3>2. seen[p].job # job[p] /\ ~Expired(seen[p])
            BY <2>1, <3>1 DEF Displaced
        <3>3. Stale(seen[p])
            BY <1>0, <1>5, <3>1, <3>2 DEF Judged, Write
        <3> QED BY <3>1, <3>2, <3>3 DEF Stale, Alive
    <2>3. job[p] \in Jobs
        BY <1>0, <1>5 DEF Judged, Write, At
    <2>4. file' # NoLock /\ file'.pid = p /\ file'.job = job[p]
        BY <1>5, <1>c, <2>3, LockAssumption DEF Write, LockMetadata, Ages
    <2> QED BY <1>0, <1>5, <2>2, <2>4 DEF TypeOK, Write, Goto, Owning, Holds
<1>6. ASSUME NEW p \in Processes, Unlink(p)
      PROVE  \A q \in Processes : Owning(q)' => Holds(q)'
    <2>1. \A q \in Processes : q # p => ~Owning(q)
        BY <1>6, <1>b DEF Unlink, Owning, Holds, At
    <2> QED BY <1>0, <1>6, <2>1 DEF TypeOK, Unlink, Leave, Owning
<1>7. ASSUME NEW p \in Processes, Die(p)
      PROVE  \A q \in Processes : Owning(q)' => Holds(q)'
    <2> SUFFICES ASSUME NEW q \in Processes, Owning(q)' PROVE Holds(q)'
        OBVIOUS
    <2>1. q # p
        BY <1>0, <1>7 DEF TypeOK, Die, Owning
    <2>2. Holds(q) /\ job'[q] = job[q]
        BY <1>0, <1>7, <1>b, <2>1 DEF TypeOK, Die, Owning
    <2>3. file' = file
        BY <1>7, <2>1, <2>2 DEF Die, Buried, Holds
    <2> QED BY <2>2, <2>3 DEF Holds
<1>8. CASE Tick
    BY <1>0, <1>8, <1>b, OlderFact DEF TypeOK, Tick, Owning, Holds
<1>9. CASE UNCHANGED vars
    BY <1>9, <1>b DEF vars, Owning, Holds
<1> QED BY <1>1, <1>2, <1>3, <1>4, <1>5, <1>6, <1>7, <1>8, <1>9 DEF Next, Step

-----------------------------------------------------------------------------
\* Every reachable state is well typed: a process writes back only a lock it has
\* read, and only a process in a call acts for a job.
THEOREM LockTypeCorrect == Spec => []TypeOK
<1>1. LInv /\ [Next]_vars => LInv'
    BY TypeStep, JudgedStep, GuardedStep DEF LInv
<1>2. LInv => TypeOK
    BY DEF LInv
<1> QED BY <1>1, <1>2, InitInv, PTL DEF Spec

\* For any number of processes, jobs and deaths, two processes are past acquire
\* only after a race, an expiry or a shared lock.
THEOREM SingleWriterButForIncidents == Spec => []SingleWriterUnlessIncident
<1>1. LInv /\ [Next]_vars => LInv'
    BY TypeStep, JudgedStep, GuardedStep DEF LInv
<1>2. LInv => SingleWriterUnlessIncident
    BY DEF LInv, Guarded, SingleWriterUnlessIncident, Owning, Inside, At, Holds
<1> QED BY <1>1, <1>2, InitInv, PTL DEF Spec

-----------------------------------------------------------------------------
\* Why process q may lose its lock in this step.
Reason(q) ==
    \/ Expired(file)
    \/ \E p \in Processes \ {q} :
          /\ pc'[p] # pc[p]
          /\ job[p] = job[q] \/ seen[p] # file

Loses(q) == Inside(q) /\ Holds(q) /\ Inside(q)' /\ ~Holds(q)'

LEMMA LossStep ==
    ASSUME TypeOK, Judged, [Next]_vars, NEW q \in Processes, Loses(q)
    PROVE  Reason(q)
<1>0. /\ pc[q] = "inside" /\ pc'[q] = "inside"
      /\ file # NoLock /\ file.pid = q /\ file.job = job[q]
      /\ ~(file' # NoLock /\ file'.pid = q /\ file'.job = job'[q])
    BY DEF Loses, Inside, At, Holds
<1>1. ASSUME NEW p \in Processes, NEW j \in Jobs, Start(p, j) PROVE FALSE
    BY <1>0, <1>1 DEF TypeOK, Start, At
<1>2. ASSUME NEW p \in Processes, Look(p) \/ Decide(p) \/ Refused(p) PROVE FALSE
    BY <1>0, <1>2 DEF TypeOK, Look, Decide, Refused, RefreshFails, WriteFails,
                      UnlinkFails, Goto, Leave, At
<1>3. ASSUME NEW p \in Processes, Finish(p) \/ Exists(p) \/ Compare(p) PROVE FALSE
    BY <1>0, <1>3 DEF TypeOK, Finish, Exists, Compare, Goto, Leave, At
<1>4. ASSUME NEW p \in Processes, Refresh(p) PROVE Reason(q)
    <2>1. p # q /\ pc'[p] # pc[p] /\ job' = job
        BY <1>0, <1>4 DEF TypeOK, Refresh, Goto, At
    <2>2. seen[p] # file
        <3> SUFFICES ASSUME seen[p] = file PROVE FALSE
            OBVIOUS
        <3>1. file' = [file EXCEPT !.age = 0] /\ file \in LockMetadata
            BY <1>0, <1>4 DEF Refresh, TypeOK
        <3>2. file' \in LockMetadata /\ file'.pid = file.pid /\ file'.job = file.job
            BY <3>1, LockAssumption DEF LockMetadata, Ages
        <3>3. file' # NoLock
            BY <3>2, LockAssumption DEF LockMetadata, Ages
        <3> QED BY <1>0, <2>1, <3>2, <3>3
    <2> QED BY <2>1, <2>2 DEF Reason
<1>5. ASSUME NEW p \in Processes, Write(p) PROVE Reason(q)
    <2>1. p # q /\ pc'[p] # pc[p]
        BY <1>0, <1>5 DEF TypeOK, Write, Goto, At
    <2>2. ASSUME seen[p] = file, ~Expired(file) PROVE job[p] = job[q]
        <3>1. q # Dead
            BY LockAssumption
        <3>2. ~Stale(seen[p])
            BY <1>0, <2>2, <3>1 DEF Stale, Alive
        <3> QED BY <1>0, <1>5, <2>2, <3>2 DEF Judged, Write
    <2> QED BY <2>1, <2>2 DEF Reason
<1>6. ASSUME NEW p \in Processes, Unlink(p) PROVE Reason(q)
    <2>1. p # q /\ pc'[p] # pc[p]
        BY <1>0, <1>6 DEF TypeOK, Unlink, Leave, At
    <2>2. seen[p] = file => job[p] = job[q]
        BY <1>0, <1>6 DEF Judged, Unlink
    <2> QED BY <2>1, <2>2 DEF Reason
<1>7. ASSUME NEW p \in Processes, Die(p) PROVE FALSE
    <2>1. p # q /\ job'[q] = job[q]
        BY <1>0, <1>7 DEF TypeOK, Die
    <2>2. file' = file
        BY <1>0, <1>7, <2>1 DEF Die, Buried
    <2> QED BY <1>0, <2>1, <2>2
<1>8. CASE Tick
    BY <1>0, <1>8, OlderFact DEF TypeOK, Tick
<1>9. CASE UNCHANGED vars
    BY <1>0, <1>9 DEF vars
<1> QED BY <1>1, <1>2, <1>3, <1>4, <1>5, <1>6, <1>7, <1>8, <1>9 DEF Next, Step

\* Of any number of processes, one past acquire loses its lock only to its own
\* job, to a decision on an outdated reading, or to the timeout.
THEOREM LossHasAReason == Spec => LockLostForAReason
<1>1. LInv /\ [Next]_vars => LInv'
    BY TypeStep, JudgedStep, GuardedStep DEF LInv
<1>2. LInv /\ [Next]_vars =>
          [\A p \in Processes :
              Inside(p) /\ Holds(p) /\ Inside(p)' /\ ~Holds(p)' =>
                  \/ Expired(file)
                  \/ \E q \in Processes \ {p} :
                        /\ pc'[q] # pc[q]
                        /\ job[q] = job[p] \/ seen[q] # file]_vars
    BY LossStep DEF LInv, Loses, Reason
<1> QED BY <1>1, <1>2, InitInv, PTL DEF Spec, LockLostForAReason
=============================================================================
