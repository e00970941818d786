-------------------------- MODULE ChatSession_proofs --------------------------
(***************************************************************************)
(* The safety of ChatSession, for any session ids, requests and restarts.  *)
(***************************************************************************)
EXTENDS ChatSession, TLAPS

\* A request that has not reached the bridge has no handler; one that has, a
\* session.
HandlersOK ==
    \A r \in Requests :
        /\ thread[r].phase \in {"unsent", "sending"} => handler[r].phase = "none"
        /\ handler[r].phase # "none" => handler[r].sid \in Sids

\* The session of a request in progress is in memory and holds its question.
QuestionsKept ==
    \A r \in Requests : handler[r].phase = "open" =>
        /\ memory[handler[r].sid] # NoSession
        /\ \E k \in DOMAIN memory[handler[r].sid] :
              memory[handler[r].sid][k] = Says("user", r)

\* The answers in m are those of session s, of requests that are over according
\* to the handlers h, each once and after its question.
Whole(m, s, h) ==
    \A r \in Requests, i \in DOMAIN m : m[i] = Says("assistant", r) =>
        /\ h[r].sid = s
        /\ h[r].result = "answered"
        /\ h[r].phase = "closed"
        /\ \E k \in 1 .. i - 1 : m[k] = Says("user", r)
        /\ \A k \in DOMAIN m : m[k] = m[i] => k = i

\* The file may become the memory of the next bridge.
AnswersWhole ==
    \A s \in Sids : /\ Whole(saved[s], s, handler)
                    /\ memory[s] # NoSession => Whole(memory[s], s, handler)

CInv ==
    /\ TypeOK
    /\ HandlersOK
    /\ QuestionsKept
    /\ AnswersWhole
    /\ FileBehindMemory
    /\ NoTaskLeftBehind

-----------------------------------------------------------------------------
\* What appending does to a list of messages.
LEMMA AppendFact ==
    ASSUME NEW m \in Seq(Message), NEW x \in Message
    PROVE  /\ Append(m, x) \in Seq(Message)
           /\ DOMAIN m = 1 .. Len(m)
           /\ DOMAIN Append(m, x) = 1 .. Len(m) + 1
           /\ Len(Append(m, x)) = Len(m) + 1
           /\ \A i \in 1 .. Len(m) : Append(m, x)[i] = m[i]
           /\ Append(m, x)[Len(m) + 1] = x
OBVIOUS

\* A list that begins with a still does after a message is appended to it.
LEMMA PrefixFact ==
    ASSUME NEW m \in Seq(Message), NEW a \in Seq(Message), NEW x \in Message,
           Len(a) <= Len(m), a = SubSeq(m, 1, Len(a))
    PROVE  /\ Len(a) <= Len(Append(m, x))
           /\ a = SubSeq(Append(m, x), 1, Len(a))
OBVIOUS

LEMMA FullFact ==
    ASSUME NEW m \in Seq(Message)
    PROVE  SubSeq(m, 1, Len(m)) = m
OBVIOUS

LEMMA SaysFact ==
    \A r \in Requests : /\ Says("user", r) \in Message
                        /\ Says("assistant", r) \in Message
                        /\ \A q \in Requests :
                              /\ Says("user", r) # Says("assistant", q)
                              /\ Says("assistant", r) = Says("assistant", q) => r = q
BY DEF Says, Message

\* What a session has when it is asked for, in memory or in the file, is a list.
LEMMA LoadedFact ==
    ASSUME TypeOK, NEW s \in Sids
    PROVE  /\ Loaded(s) \in Seq(Message)
           /\ memory[s] # NoSession => memory[s] \in Seq(Message)
           /\ saved[s] \in Seq(Message)
           /\ saved[s] # NoSession
BY ChatAssumption DEF TypeOK, Loaded

-----------------------------------------------------------------------------
LEMMA InitInv == Init => CInv
<1> SUFFICES ASSUME Init PROVE CInv
    OBVIOUS
<1>1. TypeOK
    <2>1. /\ memory \in [Sids -> {NoSession} \union Seq(Message)]
          /\ saved \in [Sids -> Seq(Message)]
          /\ running \in [Sids -> Requests \union {NoRequest}]
        BY DEF Init
    <2>2. handler \in [Requests -> Handler] /\ thread \in [Requests -> Thread]
        BY DEF Init, Handler, Thread
    <2> QED BY <2>1, <2>2 DEF Init, TypeOK
<1>2. HandlersOK /\ QuestionsKept /\ NoTaskLeftBehind
    BY DEF Init, HandlersOK, QuestionsKept, NoTaskLeftBehind
<1>3. AnswersWhole /\ FileBehindMemory
    BY DEF Init, AnswersWhole, FileBehindMemory, Whole
<1> QED BY <1>1, <1>2, <1>3 DEF CInv

\* Cancelling touches the outcome of a request in progress only.
LEMMA CancelFact ==
    ASSUME TypeOK, NEW s \in Sids, CancelActive(s)
    PROVE  /\ handler' \in [Requests -> Handler]
           /\ \A r \in Requests :
                 /\ handler'[r].phase = handler[r].phase
                 /\ handler'[r].sid = handler[r].sid
                 /\ ~InTask(r) => handler'[r] = handler[r]
<1>1. CASE running[s] # NoRequest /\ InTask(running[s])
    <2>1. running[s] \in Requests /\ handler \in [Requests -> Handler]
        BY <1>1 DEF TypeOK
    <2>2. handler' = [handler EXCEPT ![running[s]].result = "cancelled"]
        BY <1>1 DEF CancelActive
    <2> QED BY <1>1, <2>1, <2>2 DEF Handler
<1>2. CASE ~(running[s] # NoRequest /\ InTask(running[s]))
    BY <1>2 DEF CancelActive, TypeOK
<1> QED BY <1>1, <1>2

LEMMA TypeStep == TypeOK /\ HandlersOK /\ QuestionsKept /\ [Next]_vars => TypeOK'
<1> SUFFICES ASSUME TypeOK, HandlersOK, QuestionsKept, [Next]_vars PROVE TypeOK'
    OBVIOUS
<1>1. ASSUME NEW r \in Requests, Send(r) PROVE TypeOK'
    BY <1>1 DEF TypeOK, Send, bridgeVars, historyVars, Thread
<1>2. ASSUME NEW r \in Requests, RequestFails(r) PROVE TypeOK'
    BY <1>2 DEF TypeOK, RequestFails, bridgeVars, historyVars, Thread
<1>3. ASSUME NEW r \in Requests, Callback(r) PROVE TypeOK'
    BY <1>3 DEF TypeOK, Callback, bridgeVars, Thread
<1>4. ASSUME NEW r \in Requests, Accept(r) PROVE TypeOK'
    <2>1. PICK s \in Sids :
              /\ memory' = [memory EXCEPT ![s] = Asked(s, r)]
              /\ running' = [running EXCEPT ![s] = r]
              /\ handler' = [handler EXCEPT ![r] = [phase |-> "open", sid |-> s,
                                                    result |-> "none"]]
        BY <1>4 DEF Accept
    <2>2. Asked(s, r) \in Seq(Message)
        BY LoadedFact, SaysFact, AppendFact DEF Asked
    <2>3. /\ memory' \in [Sids -> {NoSession} \union Seq(Message)]
          /\ running' \in [Sids -> Requests \union {NoRequest}]
        BY <2>1, <2>2 DEF TypeOK
    <2>4. handler' \in [Requests -> Handler]
        BY <2>1 DEF TypeOK, Handler
    <2>5. /\ thread' = [thread EXCEPT ![r].phase = "waiting"]
          /\ UNCHANGED <<saved, active, busy, left, late, restarts>>
        BY <1>4 DEF Accept, historyVars
    <2>6. thread' \in [Requests -> Thread]
        BY <2>5 DEF TypeOK, Thread
    <2> QED BY <2>3, <2>4, <2>5, <2>6 DEF TypeOK
<1>5. ASSUME NEW r \in Requests, ProviderEnds(r) PROVE TypeOK'
    <2>1. handler \in [Requests -> Handler]
        BY DEF TypeOK
    <2>2. handler' \in [Requests -> Handler]
        BY <1>5, <2>1 DEF ProviderEnds, Handler
    <2> QED BY <1>5, <2>2 DEF TypeOK, ProviderEnds, bridgeVars, historyVars
<1>6. ASSUME NEW r \in Requests, BridgeTimeout(r) PROVE TypeOK'
    <2>1. handler \in [Requests -> Handler]
        BY DEF TypeOK
    <2>2. handler' \in [Requests -> Handler]
        BY <1>6, <2>1 DEF BridgeTimeout, Handler
    <2> QED BY <1>6, <2>2 DEF TypeOK, BridgeTimeout, bridgeVars, historyVars
<1>7. ASSUME NEW r \in Requests, Reply(r) PROVE TypeOK'
    <2>1. handler[r].sid \in Sids /\ memory[handler[r].sid] # NoSession
        BY <1>7 DEF Reply, HandlersOK, QuestionsKept
    <2>2. Append(memory[handler[r].sid], Says("assistant", r)) \in Seq(Message)
        BY <2>1, LoadedFact, SaysFact, AppendFact
    <2>3. /\ memory' \in [Sids -> {NoSession} \union Seq(Message)]
          /\ saved' \in [Sids -> Seq(Message)]
        BY <1>7, <2>1, <2>2 DEF Reply, Record, TypeOK
    <2>4. running' \in [Sids -> Requests \union {NoRequest}]
        BY <1>7 DEF Reply, Forget, TypeOK
    <2>5. handler' \in [Requests -> Handler] /\ thread' \in [Requests -> Thread]
        <3>1. handler \in [Requests -> Handler] /\ thread \in [Requests -> Thread]
            BY DEF TypeOK
        <3>2. handler' \in [Requests -> Handler]
            BY <1>7, <3>1 DEF Reply, Handler
        <3>3. thread' \in [Requests -> Thread]
            BY <1>7, <2>1, <3>1 DEF Reply, Thread
        <3> QED BY <3>2, <3>3
    <2> QED BY <1>7, <2>3, <2>4, <2>5 DEF Reply, TypeOK, historyVars
<1>8. ASSUME Stop PROVE TypeOK'
    <2>1. handler' \in [Requests -> Handler]
        BY <1>8, CancelFact DEF Stop, TypeOK
    <2> QED BY <1>8, <2>1 DEF TypeOK, Stop, bridgeVars, historyVars
<1>9. CASE StopFails \/ NewSession
    <2>1. CASE StopFails
        BY <2>1 DEF TypeOK, StopFails, bridgeVars, historyVars
    <2>2. CASE NewSession
        <3>1. UNCHANGED <<memory, saved, running, handler, thread, busy, restarts>>
            BY <2>2 DEF NewSession, bridgeVars
        <3>2. /\ active' = NoSid
              /\ left' \subseteq Sids
              /\ late' \in [Sids -> SUBSET Requests]
            BY <2>2 DEF NewSession, TypeOK
        <3> QED BY <3>1, <3>2 DEF TypeOK
    <2> QED BY <1>9, <2>1, <2>2
<1>10. CASE ClearHistory
    BY <1>10 DEF TypeOK, ClearHistory, historyVars
<1>11. CASE Restart
    <2>1. handler' \in [Requests -> Handler]
        BY <1>11 DEF TypeOK, Restart, Handler
    <2>2. /\ memory' \in [Sids -> {NoSession} \union Seq(Message)]
          /\ running' \in [Sids -> Requests \union {NoRequest}]
        BY <1>11 DEF Restart
    <2>3. restarts' \in Nat
        <3>1. restarts \in Nat
            BY DEF TypeOK
        <3>2. restarts' = restarts + 1
            BY <1>11 DEF Restart
        <3> QED BY <3>1, <3>2
    <2>4. UNCHANGED <<saved, thread, active, busy, left, late>>
        BY <1>11 DEF Restart
    <2> QED BY <2>1, <2>2, <2>3, <2>4 DEF TypeOK
<1>12. CASE UNCHANGED vars
    BY <1>12 DEF TypeOK, vars
<1> QED
    BY <1>1, <1>2, <1>3, <1>4, <1>5, <1>6, <1>7, <1>8, <1>9, <1>10, <1>11, <1>12 DEF Next

-----------------------------------------------------------------------------
\* Most steps leave what the bridge has of the conversations alone, and go on
\* with no handler.
Aside ==
    \/ \E r \in Requests : Send(r) \/ RequestFails(r) \/ Callback(r)
    \/ StopFails \/ NewSession \/ UNCHANGED vars

LEMMA AsideFact ==
    ASSUME TypeOK, HandlersOK, Aside
    PROVE  /\ UNCHANGED <<bridgeVars, handler>>
           /\ HandlersOK'
<1>1. ASSUME NEW r \in Requests, Send(r) \/ RequestFails(r) \/ Callback(r)
      PROVE  UNCHANGED <<bridgeVars, handler>> /\ HandlersOK'
    <2>1. UNCHANGED <<bridgeVars, handler>>
        BY <1>1 DEF Send, RequestFails, Callback, bridgeVars
    <2>2. \A q \in Requests :
              thread'[q].phase \in {"unsent", "sending"} =>
                  thread[q].phase \in {"unsent", "sending"}
        <3>1. thread \in [Requests -> Thread]
            BY DEF TypeOK
        <3>2. CASE Send(r)
            BY <3>1, <3>2 DEF Send, Thread
        <3>3. CASE RequestFails(r)
            BY <3>1, <3>3 DEF RequestFails, Thread
        <3>4. CASE Callback(r)
            BY <3>1, <3>4 DEF Callback, Thread
        <3> QED BY <1>1, <3>2, <3>3, <3>4
    <2> QED BY <2>1, <2>2 DEF HandlersOK
<1>2. CASE StopFails \/ NewSession
    BY <1>2 DEF StopFails, NewSession, bridgeVars, HandlersOK
<1>3. CASE UNCHANGED vars
    BY <1>3 DEF vars, bridgeVars, HandlersOK
<1> QED BY <1>1, <1>2, <1>3 DEF Aside

\* Ends of the provider's task: the outcome of a task in progress changes, and
\* nothing else does.
Outcome ==
    \/ \E r \in Requests : ProviderEnds(r) \/ BridgeTimeout(r)
    \/ Stop

LEMMA OutcomeFact ==
    ASSUME TypeOK, Outcome
    PROVE  /\ UNCHANGED <<bridgeVars, thread>>
           /\ \A r \in Requests :
                 /\ handler'[r].phase = handler[r].phase
                 /\ handler'[r].sid = handler[r].sid
                 /\ handler[r].phase = "closed" => handler'[r] = handler[r]
<1>1. ASSUME NEW r \in Requests, ProviderEnds(r)
      PROVE  /\ UNCHANGED <<bridgeVars, thread>>
             /\ \A q \in Requests :
                   /\ handler'[q].phase = handler[q].phase
                   /\ handler'[q].sid = handler[q].sid
                   /\ handler[q].phase = "closed" => handler'[q] = handler[q]
    BY <1>1 DEF ProviderEnds, InTask, TypeOK, Handler
<1>2. ASSUME NEW r \in Requests, BridgeTimeout(r)
      PROVE  /\ UNCHANGED <<bridgeVars, thread>>
             /\ \A q \in Requests :
                   /\ handler'[q].phase = handler[q].phase
                   /\ handler'[q].sid = handler[q].sid
                   /\ handler[q].phase = "closed" => handler'[q] = handler[q]
    BY <1>2 DEF BridgeTimeout, InTask, TypeOK, Handler
<1>3. CASE Stop
    <2>1. CASE active # NoSid
        BY <1>3, <2>1, CancelFact DEF Stop, TypeOK, InTask
    <2>2. CASE active = NoSid
        BY <1>3, <2>2 DEF Stop
    <2> QED BY <2>1, <2>2
<1> QED BY <1>1, <1>2, <1>3 DEF Outcome

\* The session a request joins, and the list it leaves there.
LEMMA AcceptFact ==
    ASSUME TypeOK, HandlersOK, NEW r \in Requests, Accept(r)
    PROVE  /\ handler[r].phase = "none"
           /\ thread' = [thread EXCEPT ![r].phase = "waiting"]
           /\ UNCHANGED saved
           /\ \E s \in Sids :
                 /\ memory' = [memory EXCEPT ![s] = Asked(s, r)]
                 /\ running' = [running EXCEPT ![s] = r]
                 /\ handler' = [handler EXCEPT ![r] = [phase |-> "open", sid |-> s,
                                                       result |-> "none"]]
                 /\ Loaded(s) \in Seq(Message)
                 /\ Asked(s, r) = Append(Loaded(s), Says("user", r))
                 /\ Asked(s, r) \in Seq(Message)
                 /\ Asked(s, r) # NoSession
<1>1. /\ handler[r].phase = "none"
      /\ thread' = [thread EXCEPT ![r].phase = "waiting"]
      /\ UNCHANGED saved
    BY DEF Accept, HandlersOK
<1>2. PICK s \in Sids :
          /\ memory' = [memory EXCEPT ![s] = Asked(s, r)]
          /\ running' = [running EXCEPT ![s] = r]
          /\ handler' = [handler EXCEPT ![r] = [phase |-> "open", sid |-> s,
                                                result |-> "none"]]
    BY DEF Accept
<1>3. Loaded(s) \in Seq(Message) /\ Says("user", r) \in Message
    BY LoadedFact, SaysFact
<1>4. Asked(s, r) = Append(Loaded(s), Says("user", r))
    BY DEF Asked
<1>5. Asked(s, r) \in Seq(Message)
    BY <1>3, <1>4, AppendFact
<1>6. Asked(s, r) # NoSession
    BY <1>5, ChatAssumption
<1> QED BY <1>1, <1>2, <1>3, <1>4, <1>5, <1>6

\* The end of a request: its session gets the answer, in memory and in the
\* file, or nothing.
LEMMA ReplyFact ==
    ASSUME TypeOK, HandlersOK, QuestionsKept, NEW r \in Requests, Reply(r)
    PROVE  LET s == handler[r].sid
               m == Append(memory[s], Says("assistant", r))
           IN  /\ s \in Sids
               /\ memory[s] \in Seq(Message)
               /\ m \in Seq(Message)
               /\ m # NoSession
               /\ \/ /\ handler[r].result = "answered"
                     /\ memory' = [memory EXCEPT ![s] = m]
                     /\ saved' = [saved EXCEPT ![s] = m]
                  \/ UNCHANGED <<memory, saved>>
               /\ running' = [running EXCEPT ![s] = NoRequest]
               /\ handler' = [handler EXCEPT ![r].phase = "closed"]
               /\ handler[r].phase = "open"
<1> DEFINE s == handler[r].sid
           m == Append(memory[s], Says("assistant", r))
<1>1. s \in Sids /\ memory[s] # NoSession /\ handler[r].phase = "open"
    BY DEF Reply, HandlersOK, QuestionsKept
<1>2. memory[s] \in Seq(Message) /\ Says("assistant", r) \in Message
    BY <1>1, LoadedFact, SaysFact
<1>3. m \in Seq(Message)
    BY <1>2, AppendFact
<1>4. m # NoSession
    BY <1>3, ChatAssumption
<1>5. /\ \/ /\ handler[r].result = "answered"
            /\ memory' = [memory EXCEPT ![s] = m]
            /\ saved' = [saved EXCEPT ![s] = m]
         \/ UNCHANGED <<memory, saved>>
      /\ running' = [running EXCEPT ![s] = NoRequest]
      /\ handler' = [handler EXCEPT ![r].phase = "closed"]
    BY DEF Reply, Record, Forget
<1> QED BY <1>1, <1>2, <1>3, <1>4, <1>5

LEMMA NextCases ==
    ASSUME [Next]_vars
    PROVE  \/ Aside
           \/ Outcome
           \/ \E r \in Requests : Accept(r)
           \/ \E r \in Requests : Reply(r)
           \/ ClearHistory
           \/ Restart
BY DEF Next, Aside, Outcome

-----------------------------------------------------------------------------
LEMMA HandlersStep ==
    TypeOK /\ HandlersOK /\ QuestionsKept /\ [Next]_vars => HandlersOK'
<1> SUFFICES ASSUME TypeOK, HandlersOK, QuestionsKept, [Next]_vars PROVE HandlersOK'
    OBVIOUS
<1>1. CASE Aside
    BY <1>1, AsideFact
<1>2. CASE Outcome
    BY <1>2, OutcomeFact DEF HandlersOK
<1>3. ASSUME NEW r \in Requests, Accept(r) PROVE HandlersOK'
    <2>1. PICK s \in Sids : handler' = [handler EXCEPT ![r] =
                                [phase |-> "open", sid |-> s, result |-> "none"]]
        BY <1>3, AcceptFact
    <2>2. thread' = [thread EXCEPT ![r].phase = "waiting"]
        BY <1>3, AcceptFact
    <2> QED BY <2>1, <2>2 DEF HandlersOK, TypeOK, Thread
<1>4. ASSUME NEW r \in Requests, Reply(r) PROVE HandlersOK'
    <2>1. handler' = [handler EXCEPT ![r].phase = "closed"] /\ handler[r].phase = "open"
        BY <1>4, ReplyFact
    <2>2. \A q \in Requests :
              thread'[q].phase \in {"unsent", "sending"} =>
                  thread[q].phase \in {"unsent", "sending"}
        BY <1>4 DEF Reply, TypeOK, Thread
    <2> QED BY <2>1, <2>2 DEF HandlersOK, TypeOK, Handler
<1>5. CASE ClearHistory
    BY <1>5 DEF ClearHistory, HandlersOK
<1>6. CASE Restart
    BY <1>6 DEF Restart, HandlersOK, TypeOK, Handler
<1> QED BY <1>1, <1>2, <1>3, <1>4, <1>5, <1>6, NextCases

LEMMA QuestionsStep ==
    TypeOK /\ HandlersOK /\ QuestionsKept /\ [Next]_vars => QuestionsKept'
<1> SUFFICES ASSUME TypeOK, HandlersOK, QuestionsKept, [Next]_vars,
                    NEW q \in Requests, handler'[q].phase = "open"
             PROVE  /\ memory'[handler'[q].sid] # NoSession
                    /\ \E k \in DOMAIN memory'[handler'[q].sid] :
                          memory'[handler'[q].sid][k] = Says("user", q)
    BY DEF QuestionsKept
<1> DEFINE Asks(m) == m # NoSession /\ \E k \in DOMAIN m : m[k] = Says("user", q)
<1>0. handler[q].phase = "open" =>
          handler[q].sid \in Sids /\ Asks(memory[handler[q].sid])
    BY DEF QuestionsKept, HandlersOK
<1> SUFFICES Asks(memory'[handler'[q].sid])
    OBVIOUS
<1>1. CASE Aside
    BY <1>0, <1>1, AsideFact DEF bridgeVars
<1>2. CASE Outcome
    BY <1>0, <1>2, OutcomeFact DEF bridgeVars
<1>3. ASSUME NEW r \in Requests, Accept(r) PROVE Asks(memory'[handler'[q].sid])
    <2>1. PICK s \in Sids :
              /\ memory' = [memory EXCEPT ![s] = Asked(s, r)]
              /\ handler' = [handler EXCEPT ![r] = [phase |-> "open", sid |-> s,
                                                    result |-> "none"]]
              /\ Loaded(s) \in Seq(Message)
              /\ Asked(s, r) = Append(Loaded(s), Says("user", r))
              /\ Asked(s, r) # NoSession
        BY <1>3, AcceptFact
    <2>2. /\ DOMAIN Asked(s, r) = 1 .. Len(Loaded(s)) + 1
          /\ Asked(s, r)[Len(Loaded(s)) + 1] = Says("user", r)
          /\ DOMAIN Loaded(s) = 1 .. Len(Loaded(s))
          /\ \A i \in 1 .. Len(Loaded(s)) : Asked(s, r)[i] = Loaded(s)[i]
          /\ Len(Loaded(s)) \in Nat
        BY <2>1, SaysFact, AppendFact
    <2>3. CASE q = r
        <3>1. memory'[handler'[q].sid] = Asked(s, r)
            BY <2>1, <2>3 DEF TypeOK
        <3>2. Len(Loaded(s)) + 1 \in DOMAIN Asked(s, r)
            BY <2>2
        <3> QED BY <2>1, <2>2, <2>3, <3>1, <3>2
    <2>4. CASE q # r
        <3>1. handler'[q] = handler[q]
            BY <2>1, <2>4 DEF TypeOK
        <3>2. CASE handler[q].sid = s
            <4>1. Loaded(s) = memory[s] /\ Asks(memory[s])
                BY <1>0, <3>1, <3>2 DEF Loaded
            <4>2. memory'[s] = Asked(s, r)
                BY <2>1 DEF TypeOK
            <4>3. PICK k \in 1 .. Len(Loaded(s)) : Loaded(s)[k] = Says("user", q)
                BY <2>2, <4>1
            <4>4. k \in DOMAIN Asked(s, r) /\ Asked(s, r)[k] = Says("user", q)
                BY <2>2, <4>3
            <4> QED BY <2>1, <3>1, <3>2, <4>2, <4>4
        <3>3. CASE handler[q].sid # s
            BY <1>0, <2>1, <3>1, <3>3 DEF TypeOK
        <3> QED BY <3>2, <3>3
    <2> QED BY <2>3, <2>4
<1>4. ASSUME NEW r \in Requests, Reply(r) PROVE Asks(memory'[handler'[q].sid])
    <2> DEFINE s == handler[r].sid
               m == Append(memory[s], Says("assistant", r))
    <2>1. /\ s \in Sids
          /\ memory[s] \in Seq(Message)
          /\ m # NoSession
          /\ memory' = [memory EXCEPT ![s] = m] \/ memory' = memory
          /\ handler' = [handler EXCEPT ![r].phase = "closed"]
        BY <1>4, ReplyFact
    <2>2. q # r /\ handler'[q] = handler[q]
        BY <2>1 DEF TypeOK, Handler
    <2>3. Asks(memory[s]) => Asks(m)
        BY <2>1, SaysFact, AppendFact
    <2>4. memory'[handler[q].sid] \in {memory[handler[q].sid]}
              \union (IF handler[q].sid = s THEN {m} ELSE {})
        BY <1>0, <2>1, <2>2 DEF TypeOK
    <2> QED BY <1>0, <2>2, <2>3, <2>4
<1>5. CASE ClearHistory
    BY <1>0, <1>5 DEF ClearHistory
<1>6. CASE Restart
    <2>1. handler'[q].phase # "open"
        BY <1>6 DEF Restart, TypeOK, Handler
    <2> QED BY <2>1
<1> QED BY <1>1, <1>2, <1>3, <1>4, <1>5, <1>6, NextCases

-----------------------------------------------------------------------------
\* A whole conversation stays so while its requests stay over, and when a
\* question, or the one answer to a question in it, is added.
LEMMA WholeKept ==
    ASSUME NEW m, NEW s, NEW h, NEW g, Whole(m, s, h),
           \A r \in Requests : h[r].phase = "closed" => g[r] = h[r]
    PROVE  Whole(m, s, g)
BY DEF Whole

LEMMA WholeQuestion ==
    ASSUME NEW m \in Seq(Message), NEW s, NEW h, NEW q \in Requests, Whole(m, s, h)
    PROVE  Whole(Append(m, Says("user", q)), s, h)
<1> DEFINE n == Append(m, Says("user", q))
<1>1. /\ DOMAIN m = 1 .. Len(m) /\ Len(m) \in Nat
      /\ DOMAIN n = 1 .. Len(m) + 1
      /\ \A i \in 1 .. Len(m) : n[i] = m[i]
      /\ n[Len(m) + 1] = Says("user", q)
    BY SaysFact, AppendFact
<1> HIDE DEF n
<1> SUFFICES ASSUME NEW r \in Requests, NEW i \in DOMAIN n, n[i] = Says("assistant", r)
             PROVE  /\ h[r].sid = s /\ h[r].result = "answered" /\ h[r].phase = "closed"
                    /\ \E k \in 1 .. i - 1 : n[k] = Says("user", r)
                    /\ \A k \in DOMAIN n : n[k] = n[i] => k = i
    BY DEF Whole, n
<1>2. i \in 1 .. Len(m) /\ m[i] = Says("assistant", r)
    BY <1>1, SaysFact
<1>3. /\ h[r].sid = s /\ h[r].result = "answered" /\ h[r].phase = "closed"
      /\ \E k \in 1 .. i - 1 : m[k] = Says("user", r)
      /\ \A k \in DOMAIN m : m[k] = m[i] => k = i
    BY <1>1, <1>2 DEF Whole
<1>4. \E k \in 1 .. i - 1 : n[k] = Says("user", r)
    BY <1>1, <1>2, <1>3
<1>5. \A k \in DOMAIN n : n[k] = n[i] => k = i
    <2> SUFFICES ASSUME NEW k \in DOMAIN n, n[k] = n[i] PROVE k = i
        OBVIOUS
    <2>1. k \in 1 .. Len(m)
        BY <1>1, SaysFact
    <2> QED BY <1>1, <1>2, <1>3, <2>1
<1> QED BY <1>3, <1>4, <1>5

LEMMA WholeAnswer ==
    ASSUME NEW m \in Seq(Message), NEW s, NEW h, NEW q \in Requests, Whole(m, s, h),
           h[q].sid = s, h[q].result = "answered", h[q].phase = "closed",
           \E k \in DOMAIN m : m[k] = Says("user", q),
           \A k \in DOMAIN m : m[k] # Says("assistant", q)
    PROVE  Whole(Append(m, Says("assistant", q)), s, h)
<1> DEFINE n == Append(m, Says("assistant", q))
<1>1. /\ DOMAIN m = 1 .. Len(m) /\ Len(m) \in Nat
      /\ DOMAIN n = 1 .. Len(m) + 1
      /\ \A i \in 1 .. Len(m) : n[i] = m[i]
      /\ n[Len(m) + 1] = Says("assistant", q)
    BY SaysFact, AppendFact
<1> HIDE DEF n
<1> SUFFICES ASSUME NEW r \in Requests, NEW i \in DOMAIN n, n[i] = Says("assistant", r)
             PROVE  /\ h[r].sid = s /\ h[r].result = "answered" /\ h[r].phase = "closed"
                    /\ \E k \in 1 .. i - 1 : n[k] = Says("user", r)
                    /\ \A k \in DOMAIN n : n[k] = n[i] => k = i
    BY DEF Whole, n
<1>2. CASE i = Len(m) + 1
    <2>1. r = q
        BY <1>1, <1>2, SaysFact
    <2>2. \E k \in 1 .. i - 1 : n[k] = Says("user", r)
        BY <1>1, <1>2, <2>1
    <2>3. \A k \in DOMAIN n : n[k] = n[i] => k = i
        BY <1>1, <1>2
    <2> QED BY <2>1, <2>2, <2>3
<1>3. CASE i # Len(m) + 1
    <2>1. i \in 1 .. Len(m) /\ m[i] = Says("assistant", r)
        BY <1>1, <1>3
    <2>2. /\ h[r].sid = s /\ h[r].result = "answered" /\ h[r].phase = "closed"
          /\ \E k \in 1 .. i - 1 : m[k] = Says("user", r)
          /\ \A k \in DOMAIN m : m[k] = m[i] => k = i
        BY <1>1, <2>1 DEF Whole
    <2>3. \E k \in 1 .. i - 1 : n[k] = Says("user", r)
        BY <1>1, <2>1, <2>2
    <2>4. \A k \in DOMAIN n : n[k] = n[i] => k = i
        <3> SUFFICES ASSUME NEW k \in DOMAIN n, n[k] = n[i] PROVE k = i
            OBVIOUS
        <3>1. k \in 1 .. Len(m)
            BY <1>1, <2>1
        <3> QED BY <1>1, <2>1, <2>2, <3>1
    <2> QED BY <2>2, <2>3, <2>4
<1> QED BY <1>2, <1>3

LEMMA AnswersStep == CInv /\ [Next]_vars => AnswersWhole'
<1> SUFFICES ASSUME CInv, [Next]_vars PROVE AnswersWhole'
    OBVIOUS
<1>0. TypeOK /\ HandlersOK /\ QuestionsKept /\ AnswersWhole
    BY DEF CInv
<1>1. CASE Aside
    BY <1>0, <1>1, AsideFact DEF AnswersWhole, bridgeVars
<1>2. CASE Outcome
    <2>1. /\ UNCHANGED <<memory, saved>>
          /\ \A r \in Requests : handler[r].phase = "closed" => handler'[r] = handler[r]
        BY <1>0, <1>2, OutcomeFact DEF bridgeVars
    <2> QED BY <1>0, <2>1, WholeKept DEF AnswersWhole
<1>3. ASSUME NEW r \in Requests, Accept(r) PROVE AnswersWhole'
    <2>1. PICK s \in Sids :
              /\ memory' = [memory EXCEPT ![s] = Asked(s, r)]
              /\ handler' = [handler EXCEPT ![r] = [phase |-> "open", sid |-> s,
                                                    result |-> "none"]]
              /\ Loaded(s) \in Seq(Message)
              /\ Asked(s, r) = Append(Loaded(s), Says("user", r))
        BY <1>0, <1>3, AcceptFact
    <2>2. handler[r].phase = "none" /\ UNCHANGED saved
        BY <1>0, <1>3, AcceptFact
    <2>3. \A q \in Requests : handler[q].phase = "closed" => handler'[q] = handler[q]
        BY <1>0, <2>1, <2>2 DEF TypeOK
    <2>4. Whole(Loaded(s), s, handler)
        BY <1>0 DEF Loaded, AnswersWhole
    <2>5. Whole(Asked(s, r), s, handler')
        BY <2>1, <2>3, <2>4, WholeKept, WholeQuestion
    <2>6. \A t \in Sids : memory'[t] = IF t = s THEN Asked(s, r) ELSE memory[t]
        BY <1>0, <2>1 DEF TypeOK
    <2> QED BY <1>0, <2>2, <2>3, <2>5, <2>6, WholeKept DEF AnswersWhole
<1>4. ASSUME NEW r \in Requests, Reply(r) PROVE AnswersWhole'
    <2> DEFINE s == handler[r].sid
               m == Append(memory[s], Says("assistant", r))
    <2>1. /\ s \in Sids
          /\ memory[s] \in Seq(Message)
          /\ handler' = [handler EXCEPT ![r].phase = "closed"]
          /\ handler[r].phase = "open"
          /\ \/ /\ handler[r].result = "answered"
                /\ memory' = [memory EXCEPT ![s] = m]
                /\ saved' = [saved EXCEPT ![s] = m]
             \/ UNCHANGED <<memory, saved>>
        BY <1>0, <1>4, ReplyFact
    <2>2. \A q \in Requests : handler[q].phase = "closed" => handler'[q] = handler[q]
        BY <1>0, <2>1 DEF TypeOK, Handler
    <2>3. /\ handler'[r].sid = s /\ handler'[r].phase = "closed"
          /\ handler'[r].result = handler[r].result
        BY <1>0, <2>1 DEF TypeOK, Handler
    <2>4. CASE UNCHANGED <<memory, saved>>
        BY <1>0, <2>2, <2>4, WholeKept DEF AnswersWhole
    <2>5. CASE /\ handler[r].result = "answered"
               /\ memory' = [memory EXCEPT ![s] = m]
               /\ saved' = [saved EXCEPT ![s] = m]
        <3>1. /\ memory[s] # NoSession
              /\ \E k \in DOMAIN memory[s] : memory[s][k] = Says("user", r)
            BY <1>0, <2>1 DEF QuestionsKept
        <3>2. Whole(memory[s], s, handler)
            BY <1>0, <2>1, <3>1 DEF AnswersWhole
        <3>3. \A k \in DOMAIN memory[s] : memory[s][k] # Says("assistant", r)
            BY <2>1, <3>2 DEF Whole
        <3>4. Whole(memory[s], s, handler')
            BY <2>2, <3>2, WholeKept
        <3>5. Whole(m, s, handler')
            BY <2>1, <2>3, <2>5, <3>1, <3>3, <3>4, WholeAnswer
        <3>6. \A t \in Sids : /\ memory'[t] = IF t = s THEN m ELSE memory[t]
                              /\ saved'[t] = IF t = s THEN m ELSE saved[t]
            BY <1>0, <2>1, <2>5 DEF TypeOK
        <3> HIDE DEF m, s
        <3> QED BY <1>0, <2>2, <3>5, <3>6, WholeKept DEF AnswersWhole
    <2> QED BY <2>1, <2>4, <2>5
<1>5. CASE ClearHistory
    <2>1. /\ UNCHANGED <<memory, handler>>
          /\ \A t \in Sids : saved'[t] = <<>>
        BY <1>5 DEF ClearHistory
    <2>2. \A t \in Sids : Whole(<<>>, t, handler)
        BY DEF Whole
    <2> QED BY <1>0, <2>1, <2>2 DEF AnswersWhole
<1>6. CASE Restart
    <2>1. /\ UNCHANGED saved
          /\ \A t \in Sids : memory'[t] = NoSession
          /\ \A q \in Requests : handler[q].phase = "closed" => handler'[q] = handler[q]
        BY <1>0, <1>6 DEF Restart, TypeOK
    <2> QED BY <1>0, <2>1, WholeKept DEF AnswersWhole
<1> QED BY <1>1, <1>2, <1>3, <1>4, <1>5, <1>6, NextCases

-----------------------------------------------------------------------------
LEMMA FileStep == CInv /\ [Next]_vars => FileBehindMemory'
<1> DEFINE Behind(a, m) == Len(a) <= Len(m) /\ a = SubSeq(m, 1, Len(a))
<1> SUFFICES ASSUME CInv, [Next]_vars, NEW s \in Sids, memory'[s] # NoSession
             PROVE  Behind(saved'[s], memory'[s])
    BY DEF FileBehindMemory
<1>0. /\ TypeOK /\ HandlersOK /\ QuestionsKept
      /\ memory[s] # NoSession => Behind(saved[s], memory[s])
      /\ memory[s] # NoSession => memory[s] \in Seq(Message)
      /\ saved[s] \in Seq(Message)
    BY LoadedFact DEF CInv, FileBehindMemory
<1>1. CASE Aside
    BY <1>0, <1>1, AsideFact DEF bridgeVars
<1>2. CASE Outcome
    BY <1>0, <1>2, OutcomeFact DEF bridgeVars
<1>3. ASSUME NEW r \in Requests, Accept(r) PROVE Behind(saved'[s], memory'[s])
    <2>1. PICK t \in Sids :
              /\ memory' = [memory EXCEPT ![t] = Asked(t, r)]
              /\ Loaded(t) \in Seq(Message)
              /\ Asked(t, r) = Append(Loaded(t), Says("user", r))
        BY <1>0, <1>3, AcceptFact
    <2>2. saved' = saved
        BY <1>0, <1>3, AcceptFact
    <2>3. CASE s = t
        <3>1. memory'[s] = Append(Loaded(s), Says("user", r))
            BY <1>0, <2>1, <2>3 DEF TypeOK
        <3>2. Behind(saved[s], Loaded(s))
            BY <1>0, FullFact DEF Loaded
        <3>3. Loaded(s) \in Seq(Message) /\ Says("user", r) \in Message
            BY <2>1, <2>3, SaysFact
        <3>4. Behind(saved[s], Append(Loaded(s), Says("user", r)))
            BY <1>0, <3>2, <3>3, PrefixFact
        <3> QED BY <2>2, <3>1, <3>4
    <2>4. CASE s # t
        BY <1>0, <2>1, <2>2, <2>4 DEF TypeOK
    <2> QED BY <2>3, <2>4
<1>4. ASSUME NEW r \in Requests, Reply(r) PROVE Behind(saved'[s], memory'[s])
    <2> DEFINE t == handler[r].sid
               m == Append(memory[t], Says("assistant", r))
    <2>1. /\ t \in Sids
          /\ m \in Seq(Message)
          /\ \/ memory' = [memory EXCEPT ![t] = m] /\ saved' = [saved EXCEPT ![t] = m]
             \/ UNCHANGED <<memory, saved>>
        BY <1>0, <1>4, ReplyFact
    <2>2. Behind(m, m)
        BY <2>1, FullFact
    <2> HIDE DEF m, t
    <2>3. \/ memory'[s] = m /\ saved'[s] = m
          \/ memory'[s] = memory[s] /\ saved'[s] = saved[s]
        BY <1>0, <2>1 DEF TypeOK
    <2> QED BY <1>0, <2>2, <2>3
<1>5. CASE ClearHistory
    <2>1. memory' = memory /\ saved'[s] = <<>>
        BY <1>5 DEF ClearHistory
    <2>2. \A m \in Seq(Message) : Behind(<<>>, m)
        OBVIOUS
    <2> QED BY <1>0, <2>1, <2>2
<1>6. CASE Restart
    BY <1>6 DEF Restart
<1> QED BY <1>1, <1>2, <1>3, <1>4, <1>5, <1>6, NextCases

LEMMA TaskStep == CInv /\ [Next]_vars => NoTaskLeftBehind'
<1> SUFFICES ASSUME CInv, [Next]_vars, NEW s \in Sids, running'[s] # NoRequest
             PROVE  handler'[running'[s]].phase = "open" /\ handler'[running'[s]].sid = s
    BY DEF NoTaskLeftBehind
<1> DEFINE Runs(h, q) == h[q].phase = "open" /\ h[q].sid = s
<1>0. /\ TypeOK /\ HandlersOK /\ QuestionsKept
      /\ running[s] # NoRequest => running[s] \in Requests /\ Runs(handler, running[s])
    BY DEF CInv, NoTaskLeftBehind, TypeOK
<1> SUFFICES Runs(handler', running'[s])
    OBVIOUS
<1>1. CASE Aside
    BY <1>0, <1>1, AsideFact DEF bridgeVars
<1>2. CASE Outcome
    <2>1. /\ running' = running
          /\ \A q \in Requests : /\ handler'[q].phase = handler[q].phase
                                 /\ handler'[q].sid = handler[q].sid
        BY <1>0, <1>2, OutcomeFact DEF bridgeVars
    <2> QED BY <1>0, <2>1
<1>3. ASSUME NEW r \in Requests, Accept(r) PROVE Runs(handler', running'[s])
    <2>1. PICK t \in Sids :
              /\ running' = [running EXCEPT ![t] = r]
              /\ handler' = [handler EXCEPT ![r] = [phase |-> "open", sid |-> t,
                                                    result |-> "none"]]
        BY <1>0, <1>3, AcceptFact
    <2>2. handler[r].phase = "none"
        BY <1>0, <1>3, AcceptFact
    <2>3. CASE s = t
        BY <1>0, <2>1, <2>3 DEF TypeOK
    <2>4. CASE s # t
        <3>1. running'[s] = running[s] /\ running[s] # r
            BY <1>0, <2>1, <2>2, <2>4 DEF TypeOK
        <3> QED BY <1>0, <2>1, <3>1 DEF TypeOK
    <2> QED BY <2>3, <2>4
<1>4. ASSUME NEW r \in Requests, Reply(r) PROVE Runs(handler', running'[s])
    <2>1. /\ running' = [running EXCEPT ![handler[r].sid] = NoRequest]
          /\ handler' = [handler EXCEPT ![r].phase = "closed"]
        BY <1>0, <1>4, ReplyFact
    <2>2. handler[r].sid # s /\ running'[s] = running[s]
        BY <1>0, <2>1 DEF TypeOK
    <2>3. running[s] # r
        BY <1>0, <2>2
    <2> QED BY <1>0, <2>1, <2>2, <2>3 DEF TypeOK
<1>5. CASE ClearHistory
    BY <1>0, <1>5 DEF ClearHistory
<1>6. CASE Restart
    BY <1>6 DEF Restart
<1> QED BY <1>1, <1>2, <1>3, <1>4, <1>5, <1>6, NextCases

\* A session that some request of the handlers h has had.
Used(s, h) == \E q \in Requests : h[q].sid = s

\* No session is named before the bridge has made it: not by the add-on, by the
\* thread of a request, nor as a session left.
SidsAreUsed ==
    /\ active # NoSid => Used(active, handler)
    /\ \A r \in Requests : /\ thread[r].sid # NoSid => Used(thread[r].sid, handler)
                           /\ handler[r].phase = "none" => handler[r].sid = NoSid
    /\ \A s \in left : Used(s, handler)

\* r cannot lead the add-on to session s: it does not name s, and the handler it
\* waits for answers from another session.
Apart(r, s) ==
    /\ Out(r) => thread[r].sid # s
    /\ thread[r].phase = "waiting" /\ handler[r].phase = "open" => handler[r].sid # s

\* The session shown is not one that was left, and only the requests that were
\* out when a session was left may name it.
LeftIsApart ==
    /\ active \notin left
    /\ \A s \in left : \A r \in Requests \ late[s] : Apart(r, s)

LeftInv == SidsAreUsed /\ LeftIsApart

LEMMA InitLeft == Init => LeftInv
BY DEF Init, LeftInv, SidsAreUsed, LeftIsApart

\* A request keeps the session it has.
LEMMA UsedStep ==
    ASSUME CInv, LeftInv, [Next]_vars
    PROVE  \A s \in Sids : Used(s, handler) => Used(s, handler')
<1>0. TypeOK /\ HandlersOK /\ QuestionsKept /\ SidsAreUsed
    BY DEF CInv, LeftInv
<1> SUFFICES ASSUME NEW q \in Requests, handler[q].sid \in Sids
             PROVE  handler'[q].sid = handler[q].sid
    BY DEF Used
<1>1. CASE Aside
    BY <1>0, <1>1, AsideFact
<1>2. CASE Outcome
    BY <1>0, <1>2, OutcomeFact
<1>3. ASSUME NEW r \in Requests, Accept(r) PROVE handler'[q].sid = handler[q].sid
    <2>1. handler[r].phase = "none"
        BY <1>0, <1>3, AcceptFact
    <2>2. handler[r].sid = NoSid
        BY <1>0, <2>1 DEF SidsAreUsed
    <2>3. r # q
        BY <2>2, ChatAssumption
    <2>4. \E s \in Sids : handler' = [handler EXCEPT ![r] = [phase |-> "open", sid |-> s,
                                                          result |-> "none"]]
        BY <1>3 DEF Accept
    <2> QED BY <1>0, <2>3, <2>4 DEF TypeOK
<1>4. ASSUME NEW r \in Requests, Reply(r) PROVE handler'[q].sid = handler[q].sid
    <2>1. handler' = [handler EXCEPT ![r].phase = "closed"]
        BY <1>4 DEF Reply
    <2>2. handler \in [Requests -> Handler]
        BY <1>0 DEF TypeOK
    <2> QED BY <2>1, <2>2 DEF Handler
<1>5. CASE ClearHistory
    BY <1>5 DEF ClearHistory
<1>6. CASE Restart
    BY <1>0, <1>6 DEF Restart, TypeOK, Handler
<1> QED BY <1>1, <1>2, <1>3, <1>4, <1>5, <1>6, NextCases

\* The steps that leave the sessions named alone.
Silent ==
    \/ \E r \in Requests : ProviderEnds(r) \/ BridgeTimeout(r)
    \/ Stop \/ StopFails \/ ClearHistory \/ Restart \/ UNCHANGED vars

LEMMA SilentFact ==
    ASSUME TypeOK, Silent
    PROVE  /\ UNCHANGED <<thread, active, left, late>>
           /\ \A r \in Requests : /\ handler'[r].sid = handler[r].sid
                                  /\ handler'[r].phase = "none" => handler[r].phase = "none"
                                  /\ handler'[r].phase = "open" => handler[r].phase = "open"
<1> DEFINE Kept == \A r \in Requests :
               /\ handler'[r].sid = handler[r].sid
               /\ handler'[r].phase = "none" => handler[r].phase = "none"
               /\ handler'[r].phase = "open" => handler[r].phase = "open"
<1>1. CASE Outcome
    <2>1. Kept
        BY <1>1, OutcomeFact
    <2> QED BY <1>1, <2>1 DEF Outcome, ProviderEnds, BridgeTimeout, Stop, historyVars
<1>2. CASE StopFails \/ ClearHistory \/ UNCHANGED vars
    BY <1>2 DEF StopFails, ClearHistory, vars, historyVars
<1>3. CASE Restart
    <2>1. handler \in [Requests -> Handler]
        BY DEF TypeOK
    <2>2. Kept
        BY <1>3, <2>1 DEF Restart, Handler
    <2> QED BY <1>3, <2>2 DEF Restart
<1> QED BY <1>1, <1>2, <1>3 DEF Silent, Outcome

\* The add-on's steps name no session but the one it shows or the one an answer
\* brings.
LEMMA SidsStep == CInv /\ LeftInv /\ [Next]_vars => SidsAreUsed'
<1> SUFFICES ASSUME CInv, LeftInv, [Next]_vars PROVE SidsAreUsed'
    OBVIOUS
<1>0. /\ TypeOK /\ HandlersOK /\ QuestionsKept /\ SidsAreUsed
      /\ thread \in [Requests -> Thread] /\ handler \in [Requests -> Handler]
      /\ left \subseteq Sids /\ active \in Sids \union {NoSid}
    BY DEF CInv, LeftInv, TypeOK
<1>1. /\ \A s \in Sids : Used(s, handler) => Used(s, handler')
      /\ \A r \in Requests : thread[r].sid \in Sids \union {NoSid}
    BY <1>0, UsedStep DEF Thread
<1>2. /\ active # NoSid => Used(active, handler')
      /\ \A r \in Requests : /\ thread[r].sid # NoSid => Used(thread[r].sid, handler')
                             /\ handler[r].phase = "none" => handler[r].sid = NoSid
      /\ \A s \in left : Used(s, handler')
    BY <1>0, <1>1 DEF SidsAreUsed
<1> SUFFICES /\ active' # NoSid => Used(active', handler')
             /\ \A r \in Requests : /\ thread'[r].sid # NoSid => Used(thread'[r].sid, handler')
                                    /\ handler'[r].phase = "none" => handler'[r].sid = NoSid
             /\ \A s \in left' : Used(s, handler')
    BY DEF SidsAreUsed
<1> HIDE DEF Used
<1>3. CASE Silent
    BY <1>0, <1>2, <1>3, SilentFact
<1>4. ASSUME NEW q \in Requests, Send(q) PROVE SidsAreUsed'
    <2>1. /\ UNCHANGED <<handler, active, left>>
          /\ thread' = [thread EXCEPT ![q] = [phase |-> "sending", sid |-> active]]
        BY <1>4 DEF Send, historyVars
    <2>2. \A r \in Requests : thread'[r].sid \in {thread[r].sid, active}
        BY <1>0, <2>1
    <2> QED BY <1>2, <2>1, <2>2 DEF SidsAreUsed
<1>5. ASSUME NEW q \in Requests, RequestFails(q) PROVE SidsAreUsed'
    <2>1. /\ UNCHANGED <<handler, active, left>>
          /\ thread' = [thread EXCEPT ![q] = [phase |-> "callback", sid |-> NoSid]]
        BY <1>5 DEF RequestFails, historyVars
    <2>2. \A r \in Requests : thread'[r].sid \in {thread[r].sid, NoSid}
        BY <1>0, <2>1
    <2> QED BY <1>2, <2>1, <2>2 DEF SidsAreUsed
<1>6. ASSUME NEW q \in Requests, Callback(q) PROVE SidsAreUsed'
    <2>1. /\ handler' = handler /\ left' = left \ {active'}
          /\ active' \in {active, thread[q].sid}
          /\ thread' = [thread EXCEPT ![q].phase = "over"]
        BY <1>6 DEF Callback
    <2>2. \A r \in Requests : thread'[r].sid = thread[r].sid
        BY <1>0, <2>1 DEF Thread
    <2> QED BY <1>2, <2>1, <2>2 DEF SidsAreUsed
<1>7. ASSUME NEW q \in Requests, Accept(q) PROVE SidsAreUsed'
    <2>1. /\ UNCHANGED <<active, left>>
          /\ thread' = [thread EXCEPT ![q].phase = "waiting"]
          /\ \E s \in Sids : handler' = [handler EXCEPT ![q] = [phase |-> "open", sid |-> s,
                                                               result |-> "none"]]
        BY <1>7 DEF Accept, historyVars
    <2>2. \A r \in Requests : thread'[r].sid = thread[r].sid
        BY <1>0, <2>1 DEF Thread
    <2>3. \A r \in Requests : handler'[r].phase = "none" => handler'[r] = handler[r]
        BY <1>0, <2>1
    <2> QED BY <1>2, <2>1, <2>2, <2>3 DEF SidsAreUsed
<1>8. ASSUME NEW q \in Requests, Reply(q) PROVE SidsAreUsed'
    <2>1. /\ UNCHANGED <<active, left>>
          /\ handler' = [handler EXCEPT ![q].phase = "closed"]
          /\ \/ thread' = thread
             \/ \E s \in {NoSid, handler[q].sid} :
                    thread' = [thread EXCEPT ![q] = [phase |-> "callback", sid |-> s]]
          /\ handler[q].phase = "open"
        BY <1>8 DEF Reply, historyVars
    <2>2. \A r \in Requests : thread'[r].sid \in {NoSid, thread[r].sid, handler[q].sid}
        BY <1>0, <2>1
    <2>3. \A r \in Requests : /\ handler'[r].phase = "none" => handler'[r] = handler[r]
                              /\ handler'[r].sid = handler[r].sid
        BY <1>0, <2>1 DEF Handler
    <2>4. Used(handler[q].sid, handler')
        BY <2>3 DEF Used
    <2> QED BY <1>2, <2>1, <2>2, <2>3, <2>4 DEF SidsAreUsed
<1>9. CASE NewSession
    <2>1. /\ UNCHANGED <<handler, thread>>
          /\ active' = NoSid
          /\ left' \subseteq left \union {active}
          /\ active = NoSid => left' = left
        BY <1>9 DEF NewSession
    <2> QED BY <1>2, <2>1 DEF SidsAreUsed
<1> QED
    BY <1>3, <1>4, <1>5, <1>6, <1>7, <1>8, <1>9 DEF Next, Silent, SidsAreUsed

\* A session that was left is taken up by nobody but the requests out at the
\* time: a message sent later names the session shown, and the bridge answers it
\* there or in a session no request has had.
LEMMA ApartStep == CInv /\ LeftInv /\ [Next]_vars => LeftIsApart'
<1> SUFFICES ASSUME CInv, LeftInv, [Next]_vars PROVE LeftIsApart'
    OBVIOUS
<1>0. /\ TypeOK /\ HandlersOK /\ SidsAreUsed /\ NoSid \notin Sids
      /\ thread \in [Requests -> Thread] /\ handler \in [Requests -> Handler]
      /\ late \in [Sids -> SUBSET Requests]
      /\ left \subseteq Sids /\ active \in Sids \union {NoSid}
      /\ active \notin left
      /\ \A s \in left : \A r \in Requests \ late[s] : Apart(r, s)
    BY ChatAssumption DEF CInv, LeftInv, LeftIsApart, TypeOK
<1>1. ASSUME UNCHANGED <<left, late>>, active' \notin left,
             \A s \in left : \A r \in Requests \ late[s] : Apart(r, s) => Apart(r, s)'
      PROVE  LeftIsApart'
    BY <1>0, <1>1 DEF LeftIsApart
<1>3. CASE Silent
    <2>1. /\ UNCHANGED <<thread, active, left, late>>
          /\ \A r \in Requests : /\ handler'[r].sid = handler[r].sid
                                 /\ handler'[r].phase = "open" => handler[r].phase = "open"
        BY <1>0, <1>3, SilentFact
    <2> QED BY <1>0, <1>1, <2>1 DEF Apart, Out
<1>4. ASSUME NEW q \in Requests, Send(q) PROVE LeftIsApart'
    <2>1. /\ UNCHANGED <<handler, active, left, late>>
          /\ thread' = [thread EXCEPT ![q] = [phase |-> "sending", sid |-> active]]
        BY <1>4 DEF Send, historyVars
    <2>2. \A r \in Requests : \/ thread'[r] = thread[r]
                              \/ thread'[r] = [phase |-> "sending", sid |-> active]
        BY <1>0, <2>1
    <2> QED BY <1>0, <1>1, <2>1, <2>2 DEF Apart, Out
<1>5. ASSUME NEW q \in Requests, RequestFails(q) PROVE LeftIsApart'
    <2>1. /\ UNCHANGED <<handler, active, left, late>>
          /\ thread' = [thread EXCEPT ![q] = [phase |-> "callback", sid |-> NoSid]]
        BY <1>5 DEF RequestFails, historyVars
    <2>2. \A r \in Requests : \/ thread'[r] = thread[r]
                              \/ thread'[r] = [phase |-> "callback", sid |-> NoSid]
        BY <1>0, <2>1
    <2> QED BY <1>0, <1>1, <2>1, <2>2 DEF Apart, Out
<1>6. ASSUME NEW q \in Requests, Callback(q) PROVE LeftIsApart'
    <2>1. /\ UNCHANGED <<handler, late>>
          /\ left' = left \ {active'}
          /\ thread' = [thread EXCEPT ![q].phase = "over"]
        BY <1>6 DEF Callback
    <2>2. \A r \in Requests : thread'[r] = thread[r] \/ thread'[r].phase = "over"
        BY <1>0, <2>1 DEF Thread
    <2>3. \A s \in left : \A r \in Requests \ late[s] : Apart(r, s)'
        BY <1>0, <2>1, <2>2 DEF Apart, Out
    <2> QED BY <2>1, <2>3 DEF LeftIsApart
<1>7. ASSUME NEW q \in Requests, Accept(q) PROVE LeftIsApart'
    <2>1. /\ UNCHANGED <<active, left, late>>
          /\ thread[q].phase = "sending"
          /\ thread' = [thread EXCEPT ![q].phase = "waiting"]
        BY <1>7 DEF Accept, historyVars
    <2>2. PICK t \in Sids :
              /\ IF Known(thread[q].sid) THEN t = thread[q].sid ELSE Fresh(t)
              /\ handler' = [handler EXCEPT ![q] = [phase |-> "open", sid |-> t,
                                                    result |-> "none"]]
        BY <1>7 DEF Accept
    <2>3. ASSUME NEW s \in left, NEW r \in Requests \ late[s] PROVE Apart(r, s)'
        <3>1. CASE r = q
            <4>1. thread[q].sid # s
                BY <1>0, <2>1, <3>1 DEF Apart, Out
            <4>2. t # s
                BY <1>0, <2>2, <4>1 DEF Fresh, SidsAreUsed, Used
            <4>3. thread'[q].sid = thread[q].sid /\ handler'[q].sid = t
                BY <1>0, <2>1, <2>2 DEF Thread
            <4> QED BY <3>1, <4>1, <4>2, <4>3 DEF Apart
        <3>2. CASE r # q
            <4>1. thread'[r] = thread[r] /\ handler'[r] = handler[r]
                BY <1>0, <2>1, <2>2, <3>2
            <4> QED BY <1>0, <4>1 DEF Apart, Out
        <3> QED BY <3>1, <3>2
    <2> QED BY <1>0, <1>1, <2>1, <2>3
<1>8. ASSUME NEW q \in Requests, Reply(q) PROVE LeftIsApart'
    <2>1. /\ UNCHANGED <<active, left, late>>
          /\ handler' = [handler EXCEPT ![q].phase = "closed"]
          /\ handler[q].phase = "open"
          /\ \/ thread' = thread
             \/ /\ thread[q].phase = "waiting"
                /\ \E s \in {NoSid, handler[q].sid} :
                      thread' = [thread EXCEPT ![q] = [phase |-> "callback", sid |-> s]]
        BY <1>8 DEF Reply, historyVars
    <2>2. ASSUME NEW s \in left, NEW r \in Requests \ late[s] PROVE Apart(r, s)'
        <3>1. CASE r = q
            <4>1. handler'[q].phase = "closed"
                BY <1>0, <2>1 DEF Handler
            <4>2. \/ thread'[q] = thread[q]
                  \/ /\ thread[q].phase = "waiting"
                     /\ thread'[q].sid \in {NoSid, handler[q].sid}
                BY <1>0, <2>1
            <4> QED BY <1>0, <2>1, <3>1, <4>1, <4>2 DEF Apart, Out
        <3>2. CASE r # q
            <4>1. thread'[r] = thread[r] /\ handler'[r] = handler[r]
                BY <1>0, <2>1, <3>2
            <4> QED BY <1>0, <4>1 DEF Apart, Out
        <3> QED BY <3>1, <3>2
    <2> QED BY <1>0, <1>1, <2>1, <2>2
<1>9. CASE NewSession
    <2>1. UNCHANGED <<handler, thread>> /\ active' = NoSid
        BY <1>9 DEF NewSession
    <2>2. CASE active = NoSid
        BY <1>0, <1>1, <1>9, <2>1, <2>2 DEF NewSession, Apart, Out
    <2>3. CASE active # NoSid
        <3>1. /\ left' = left \union {active}
              /\ late' = [late EXCEPT ![active] = {r \in Requests : Out(r)}]
            BY <1>9, <2>3 DEF NewSession
        <3>2. \A s \in left : late'[s] = late[s]
            BY <1>0, <3>1
        <3>3. \A r \in Requests \ late'[active] : ~Out(r)
            BY <1>0, <2>3, <3>1
        <3>4. \A r \in Requests \ late'[active] : Apart(r, active)
            BY <3>3 DEF Apart, Out
        <3>5. \A s \in left' : \A r \in Requests \ late'[s] : Apart(r, s)
            BY <1>0, <3>1, <3>2, <3>4
        <3>6. \A s \in left' : \A r \in Requests \ late'[s] : Apart(r, s)'
            BY <2>1, <3>5 DEF Apart, Out
        <3> QED BY <1>0, <2>1, <2>3, <3>1, <3>6 DEF LeftIsApart
    <2> QED BY <2>2, <2>3
<1> QED
    BY <1>3, <1>4, <1>5, <1>6, <1>7, <1>8, <1>9 DEF Next, Silent

LEMMA StepInv == CInv /\ [Next]_vars => CInv'
<1> SUFFICES ASSUME CInv, [Next]_vars PROVE CInv'
    OBVIOUS
<1>1. TypeOK /\ HandlersOK /\ QuestionsKept
    BY DEF CInv
<1>2. TypeOK'
    BY <1>1, TypeStep
<1>3. HandlersOK' /\ QuestionsKept'
    BY <1>1, HandlersStep, QuestionsStep
<1>4. AnswersWhole' /\ FileBehindMemory' /\ NoTaskLeftBehind'
    BY AnswersStep, FileStep, TaskStep
<1> QED BY <1>2, <1>3, <1>4 DEF CInv

LEMMA InvHolds == Spec => []CInv
BY InitInv, StepInv, PTL DEF Spec

-----------------------------------------------------------------------------
\* The state of the add-on and of the bridge is well typed (operators.py,
\* client.py, session.py).
THEOREM ChatTypeCorrect == Spec => []TypeOK
<1>1. CInv => TypeOK
    BY DEF CInv
<1> QED BY <1>1, InvHolds, PTL

\* The history file is a beginning of what the bridge remembers, whatever
\* requests share a session, clearings and restarts (session.py:93).
THEOREM FileStaysBehind == Spec => []FileBehindMemory
<1>1. CInv => FileBehindMemory
    BY DEF CInv
<1> QED BY <1>1, InvHolds, PTL

\* An answer comes once, after its question, in the session it was asked in,
\* and from a task that was let finish (session.py:82).
THEOREM ConversationStaysWhole == Spec => []ConversationIsWhole
<1>1. CInv => ConversationIsWhole
    BY DEF CInv, AnswersWhole, Whole, ConversationIsWhole
<1> QED BY <1>1, InvHolds, PTL

\* No entry of running_tasks outlives its request (session.py:108).
THEOREM TasksAreDropped == Spec => []NoTaskLeftBehind
<1>1. CInv => NoTaskLeftBehind
    BY DEF CInv
<1> QED BY <1>1, InvHolds, PTL

\* A session left by New Session comes back with the answer to a request that was
\* out at the time, and in no other way, whatever the requests, cancellations,
\* clearings and restarts in between (operators.py:68).
THEOREM LeftStaysLeft == Spec => LeftSessionStaysLeft
<1> DEFINE StaysLeft == \A s \in left : active' = s =>
               \E r \in late[s] : thread[r].phase = "callback" /\ thread[r].sid = s
<1>1. CInv /\ LeftInv /\ [Next]_vars => LeftInv'
    BY SidsStep, ApartStep DEF LeftInv
<1>2. CInv /\ LeftInv /\ [Next]_vars => [StaysLeft]_vars
    <2> SUFFICES ASSUME CInv, LeftInv, Next, NEW s \in left, active' = s
                 PROVE  \E r \in late[s] : thread[r].phase = "callback" /\ thread[r].sid = s
        OBVIOUS
    <2>1. /\ TypeOK /\ NoSid \notin Sids
          /\ left \subseteq Sids /\ active \notin left
          /\ \A r \in Requests \ late[s] : Apart(r, s)
        BY ChatAssumption DEF CInv, LeftInv, LeftIsApart, TypeOK
    <2>2. \E r \in Requests : Callback(r)
        <3>1. active' # active /\ active' # NoSid
            BY <2>1
        <3>2. ~Silent
            BY <2>1, <3>1, SilentFact
        <3>3. ~NewSession
            BY <3>1 DEF NewSession
        <3>4. \A r \in Requests : ~Send(r) /\ ~RequestFails(r) /\ ~Accept(r) /\ ~Reply(r)
            BY <3>1 DEF Send, RequestFails, Accept, Reply
        <3> QED BY <3>2, <3>3, <3>4 DEF Next, Silent
    <2>3. PICK r \in Requests : Callback(r)
        BY <2>2
    <2>4. thread[r].phase = "callback" /\ thread[r].sid = s
        BY <2>1, <2>3 DEF Callback
    <2>5. r \in late[s]
        BY <2>1, <2>4 DEF Apart, Out
    <2> QED BY <2>4, <2>5
<1>3. [][Next]_vars /\ []CInv /\ []LeftInv => [][StaysLeft]_vars
    BY <1>2, PTL
<1> QED BY <1>1, <1>3, InitLeft, InvHolds, PTL DEF Spec, LeftSessionStaysLeft
===============================================================================
