------------------------ MODULE BridgeDiscovery_proofs ------------------------
(***************************************************************************)
(* What the state file says of the bridges, for any number of runs and     *)
(* addresses, kills, failed launches and interleavings with the client.    *)
(***************************************************************************)
EXTENDS BridgeDiscovery, TLAPS

\* Two bridges that run at once are both marked.
OverlapsAreMarked ==
    \A b, c \in Bridges : Running(b) /\ Running(c) /\ b # c => b \in overlapped

\* Stronger than LoneBridgeIsPublished: from its launch to its end.
LoneBridgeKeepsFile ==
    \A b \in Bridges :
        Running(b) /\ b \notin overlapped => file # NoState /\ file.token = b

\* What a thread works on between its steps.
LocalOK ==
    \A t \in Threads : pc[t] \in {"token", "address"} => found[t] \in Bridges

DInv ==
    /\ TypeOK
    /\ LocalOK
    /\ OverlapsAreMarked
    /\ LoneBridgeKeepsFile
    /\ NoTokenOfAFinishedBridge

-----------------------------------------------------------------------------
LEMMA StateFact ==
    /\ NoState \notin BridgeState
    /\ \A b \in Bridges : Published(b) \in BridgeState /\ Published(b).token = b
BY DiscoveryAssumption DEF BridgeState, Published

LEMMA InitInv == Init => DInv
BY DiscoveryAssumption
   DEF Init, DInv, TypeOK, LocalOK, OverlapsAreMarked, LoneBridgeKeepsFile,
       NoTokenOfAFinishedBridge, Running, Threads, Labels, Statuses, Answers

\* The client's steps keep its own variables well typed.
LEMMA ClientTypes ==
    ASSUME TypeOK, LocalOK,
           \/ CheckConnection \/ ShortRequest \/ SendChat
           \/ \E t \in Threads : ClientStep(t)
    PROVE  TypeOK' /\ LocalOK' /\ UNCHANGED bridgeVars
<1>0. \A t \in Threads : AfterDiscovery(t) \in {"headers", "idle"}
    BY DEF AfterDiscovery
<1>1. CASE CheckConnection \/ ShortRequest
    BY <1>1 DEF CheckConnection, ShortRequest, Goto, TypeOK, LocalOK, bridgeVars, Threads, Labels
<1>2. CASE SendChat
    BY <1>2 DEF SendChat, Goto, TypeOK, LocalOK, bridgeVars, Threads, Labels
<1>3. ASSUME NEW t \in Threads, Load(t) PROVE TypeOK' /\ LocalOK' /\ UNCHANGED bridgeVars
    <2>1. CASE file # NoState /\ file.fresh
        <3>1. file.token \in Bridges
            BY <2>1 DEF TypeOK, BridgeState
        <3> QED BY <1>3, <2>1, <3>1
                DEF Load, Goto, TypeOK, LocalOK, bridgeVars, Labels
    <2>2. CASE ~(file # NoState /\ file.fresh)
        BY <1>0, <1>3, <2>2 DEF Load, Goto, TypeOK, LocalOK, bridgeVars, Labels
    <2> QED BY <2>1, <2>2
<1>4. ASSUME NEW t \in Threads, TakeToken(t) PROVE TypeOK' /\ LocalOK' /\ UNCHANGED bridgeVars
    BY <1>4 DEF TakeToken, Goto, TypeOK, LocalOK, bridgeVars, Labels
<1>5. ASSUME NEW t \in Threads, TakeAddress(t) PROVE TypeOK' /\ LocalOK' /\ UNCHANGED bridgeVars
    <2>1. address[found[t]] \in Addresses
        BY <1>5 DEF TakeAddress, LocalOK, TypeOK
    <2> QED BY <1>0, <1>5, <2>1 DEF TakeAddress, Goto, TypeOK, LocalOK, bridgeVars, Labels
<1>6. CASE Headers
    BY <1>6 DEF Headers, Goto, TypeOK, LocalOK, bridgeVars, Threads, Labels
<1>7. CASE Post
    <2>1. Reply \in Answers
        BY DEF Reply, Answers
    <2> QED BY <1>7, <2>1, DiscoveryAssumption
            DEF Post, Goto, TypeOK, LocalOK, bridgeVars, Threads, Labels
<1> QED BY <1>1, <1>2, <1>3, <1>4, <1>5, <1>6, <1>7 DEF ClientStep, Discover

\* So do the bridges' steps.
LEMMA BridgeTypes ==
    ASSUME TypeOK, LocalOK, NEW b \in Bridges,
           \/ \E a \in Addresses : Launch(b, a)
           \/ LaunchFails(b) \/ Bind(b) \/ BindFails(b)
           \/ Stop(b) \/ Cleanup(b) \/ Kill(b)
    PROVE  TypeOK' /\ LocalOK'
<1>1. LocalOK'
    BY DEF LocalOK, Launch, LaunchFails, Bind, BindFails, Stop, Cleanup, Kill, clientVars
<1>2. ASSUME NEW a \in Addresses, Launch(b, a) PROVE TypeOK' /\ LocalOK'
    BY <1>1, <1>2, StateFact DEF Launch, Goes, TypeOK, clientVars, Statuses, Running
<1>3. CASE LaunchFails(b) \/ Bind(b) \/ BindFails(b) \/ Stop(b) \/ Cleanup(b) \/ Kill(b)
    BY <1>1, <1>3
       DEF LaunchFails, Bind, BindFails, Stop, Cleanup, Kill, Goes, TypeOK, clientVars, Statuses
<1> QED BY <1>2, <1>3

-----------------------------------------------------------------------------
LEMMA StepInv == DInv /\ [Next]_vars => DInv'
<1> SUFFICES ASSUME DInv, [Next]_vars PROVE DInv'
    OBVIOUS
<1>0. /\ TypeOK /\ LocalOK /\ OverlapsAreMarked
      /\ LoneBridgeKeepsFile /\ NoTokenOfAFinishedBridge
    BY DEF DInv
<1>1. ASSUME NEW b \in Bridges, NEW a \in Addresses, Launch(b, a) PROVE DInv'
    <2>1. TypeOK' /\ LocalOK'
        BY <1>0, <1>1, BridgeTypes
    <2>2. /\ status[b] = "new" /\ status'[b] = "published"
          /\ \A c \in Bridges : c # b => status'[c] = status[c]
          /\ file' = Published(b)
        BY <1>0, <1>1 DEF Launch, Goes, TypeOK
    <2>3. /\ overlapped \subseteq overlapped'
          /\ \A c \in Bridges : Running(c) => c \in overlapped' /\ b \in overlapped'
        BY <1>1 DEF Launch
    <2>4. \A c \in Bridges : c # b => (Running(c)' <=> Running(c))
        BY <2>2 DEF Running
    <2>5. OverlapsAreMarked'
        BY <1>0, <2>3, <2>4 DEF OverlapsAreMarked
    <2>6. LoneBridgeKeepsFile'
        BY <2>2, <2>3, <2>4, StateFact DEF LoneBridgeKeepsFile
    <2>7. NoTokenOfAFinishedBridge'
        BY <2>2, StateFact DEF NoTokenOfAFinishedBridge
    <2> QED BY <2>1, <2>5, <2>6, <2>7 DEF DInv
<1>2. ASSUME NEW b \in Bridges,
             LaunchFails(b) \/ Bind(b) \/ BindFails(b) \/ Stop(b) \/ Kill(b)
      PROVE  DInv'
    <2>1. TypeOK' /\ LocalOK'
        BY <1>0, <1>2, BridgeTypes
    <2>2. /\ file' = file /\ overlapped' = overlapped
          /\ \A c \in Bridges : c # b => status'[c] = status[c]
          /\ Running(b)' => Running(b)
          /\ \/ status[b] = "new"
             \/ status'[b] \in {"serving", "closing", "killed"}
        BY <1>0, <1>2 DEF LaunchFails, Bind, BindFails, Stop, Kill, Goes, TypeOK, Running
    <2>3. \A c \in Bridges : Running(c)' => Running(c)
        BY <2>2 DEF Running
    <2>4. OverlapsAreMarked' /\ LoneBridgeKeepsFile'
        BY <1>0, <2>2, <2>3 DEF OverlapsAreMarked, LoneBridgeKeepsFile
    <2>5. NoTokenOfAFinishedBridge'
        BY <1>0, <2>2 DEF NoTokenOfAFinishedBridge, TypeOK, BridgeState
    <2> QED BY <2>1, <2>4, <2>5 DEF DInv
<1>3. ASSUME NEW b \in Bridges, Cleanup(b) PROVE DInv'
    <2>1. TypeOK' /\ LocalOK'
        BY <1>0, <1>3, BridgeTypes
    <2>2. /\ file' = NoState /\ overlapped' = overlapped
          /\ Running(b) /\ ~Running(b)'
          /\ \A c \in Bridges : c # b => status'[c] = status[c]
        BY <1>0, <1>3 DEF Cleanup, Goes, TypeOK, Running
    <2>3. \A c \in Bridges : Running(c)' => Running(c) /\ c # b
        BY <2>2 DEF Running
    <2>4. OverlapsAreMarked'
        BY <1>0, <2>2, <2>3 DEF OverlapsAreMarked
    <2>5. LoneBridgeKeepsFile'
        BY <1>0, <2>2, <2>3 DEF OverlapsAreMarked, LoneBridgeKeepsFile
    <2>6. NoTokenOfAFinishedBridge'
        BY <2>2 DEF NoTokenOfAFinishedBridge
    <2> QED BY <2>1, <2>4, <2>5, <2>6 DEF DInv
<1>4. CASE GrowStale
    <2>1. /\ file \in BridgeState /\ file' = [file EXCEPT !.fresh = FALSE]
          /\ UNCHANGED <<status, address, overlapped, clientVars>>
        BY <1>0, <1>4 DEF GrowStale, TypeOK
    <2>2. file' \in BridgeState /\ file'.token = file.token
        BY <2>1 DEF BridgeState
    <2>3. TypeOK' /\ LocalOK'
        BY <1>0, <2>1, <2>2 DEF TypeOK, LocalOK, clientVars
    <2>4. OverlapsAreMarked' /\ LoneBridgeKeepsFile' /\ NoTokenOfAFinishedBridge'
        BY <1>0, <2>1, <2>2, StateFact
           DEF OverlapsAreMarked, LoneBridgeKeepsFile, NoTokenOfAFinishedBridge, Running
    <2> QED BY <2>3, <2>4 DEF DInv
<1>5. CASE \/ CheckConnection \/ ShortRequest \/ SendChat
           \/ \E t \in Threads : ClientStep(t)
    <2>1. TypeOK' /\ LocalOK' /\ UNCHANGED bridgeVars
        BY <1>0, <1>5, ClientTypes
    <2>2. OverlapsAreMarked' /\ LoneBridgeKeepsFile' /\ NoTokenOfAFinishedBridge'
        BY <1>0, <2>1
           DEF OverlapsAreMarked, LoneBridgeKeepsFile, NoTokenOfAFinishedBridge, Running,
               bridgeVars
    <2> QED BY <2>1, <2>2 DEF DInv
<1>6. CASE UNCHANGED vars
    BY <1>0, <1>6
       DEF vars, bridgeVars, clientVars, DInv, TypeOK, LocalOK, OverlapsAreMarked,
           LoneBridgeKeepsFile, NoTokenOfAFinishedBridge, Running
<1> QED BY <1>1, <1>2, <1>3, <1>4, <1>5, <1>6 DEF Next

-----------------------------------------------------------------------------
\* Every reachable state is well typed: a thread takes a token or an address only
\* from a state it has loaded.
THEOREM DiscoveryTypeCorrect == Spec => []TypeOK
<1>1. DInv => TypeOK
    BY DEF DInv
<1> QED BY <1>1, InitInv, StepInv, PTL DEF Spec

\* However many bridges have been launched, killed or stopped before it, one whose
\* run overlaps no other's is named by the state file as long as it serves.
THEOREM LoneBridgeFound == Spec => []LoneBridgeIsPublished
<1>1. DInv => LoneBridgeIsPublished
    BY DEF DInv, LoneBridgeKeepsFile, LoneBridgeIsPublished, Running
<1> QED BY <1>1, InitInv, StepInv, PTL DEF Spec

\* However runs overlap, the file never holds the token of a bridge that has ended
\* in good order.
THEOREM FinishedBridgeForgotten == Spec => []NoTokenOfAFinishedBridge
<1>1. DInv => NoTokenOfAFinishedBridge
    BY DEF DInv
<1> QED BY <1>1, InitInv, StepInv, PTL DEF Spec
=============================================================================
