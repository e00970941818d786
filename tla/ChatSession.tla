----------------------------- MODULE ChatSession -----------------------------
(***************************************************************************)
(* A conversation between the Blender add-on and the chat bridge:          *)
(* blender_addon/operators.py and blender_addon/client.py on one side,     *)
(* bridge/server.py and bridge/session.py with the history file of         *)
(* storage/manager.py on the other.                                        *)
(*                                                                         *)
(* The bridge is one event loop: a handler runs without interruption from  *)
(* one await to the next, and its only await is for the provider's task.   *)
(* The add-on has the main thread of Blender, which runs operators and     *)
(* timer callbacks, and a daemon thread for each request.                  *)
(***************************************************************************)
EXTENDS Naturals, Sequences

CONSTANTS Sids,        \* session ids
          Requests,    \* chat messages the artist may send
          NoSid,       \* active_session_id is empty
          NoRequest,   \* no entry in running_tasks
          NoSession,   \* no entry in sessions
          MaxRestarts  \* bound: restarts of the bridge

Message == [who : {"user", "assistant"}, req : Requests]

ASSUME ChatAssumption ==
    /\ NoSid \notin Sids
    /\ NoRequest \notin Requests
    /\ NoSession \notin Seq(Message)
    /\ MaxRestarts \in Nat

VARIABLES
    memory,    \* SessionManager.sessions: the messages of each session
    saved,     \* chat_history.json; <<>> for a session it does not hold
    running,   \* SessionManager.running_tasks
    handler,   \* send_message for each request
    thread,    \* the client thread of each request, and the callback it registers
    active,    \* props.active_session_id
    busy,      \* props.is_busy
    left,      \* history: sessions left by New Session
    late,      \* history: the requests that were out when a session was left
    restarts

bridgeVars == <<memory, saved, running>>
historyVars == <<left, late, restarts>>
vars == <<memory, saved, running, handler, thread, active, busy, left, late, restarts>>

\* result is what became of the provider's task.
Handler == [phase : {"none", "open", "closed"}, sid : Sids \union {NoSid},
            result : {"none", "answered", "failed", "cancelled", "timedOut"}]

\* sid: the session id of the request, then the one in the answer; NoSid
\* stands for an error.
Thread == [phase : {"unsent", "sending", "waiting", "callback", "over"},
           sid : Sids \union {NoSid}]

TypeOK ==
    /\ memory \in [Sids -> {NoSession} \union Seq(Message)]
    /\ saved \in [Sids -> Seq(Message)]
    /\ running \in [Sids -> Requests \union {NoRequest}]
    /\ handler \in [Requests -> Handler]
    /\ thread \in [Requests -> Thread]
    /\ active \in Sids \union {NoSid}
    /\ busy \in BOOLEAN
    /\ left \subseteq Sids
    /\ late \in [Sids -> SUBSET Requests]
    /\ restarts \in Nat

Init ==
    /\ memory = [s \in Sids |-> NoSession]
    /\ saved = [s \in Sids |-> <<>>]
    /\ running = [s \in Sids |-> NoRequest]
    /\ handler = [r \in Requests |-> [phase |-> "none", sid |-> NoSid, result |-> "none"]]
    /\ thread = [r \in Requests |-> [phase |-> "unsent", sid |-> NoSid]]
    /\ active = NoSid
    /\ busy = FALSE
    /\ left = {} /\ late = [s \in Sids |-> {}]
    /\ restarts = 0

Says(who, r) == [who |-> who, req |-> r]

\* The provider's task has not finished.
InTask(r) == handler[r].phase = "open" /\ handler[r].result = "none"

-----------------------------------------------------------------------------
(***************************************************************************)
(* The add-on.                                                             *)
(***************************************************************************)

\* The panel offers Send only while is_busy is off.
Send(r) ==
    /\ thread[r].phase = "unsent"
    /\ ~busy
    /\ busy' = TRUE
    /\ thread' = [thread EXCEPT ![r] = [phase |-> "sending", sid |-> active]]
    /\ UNCHANGED <<bridgeVars, handler, active, historyVars>>

\* Faulty variant: a timeout is not reported.
RequestFails_Silently(r) ==
    /\ thread[r].phase \in {"sending", "waiting"}
    /\ thread' = [thread EXCEPT ![r] = [phase |-> "over", sid |-> NoSid]]
    /\ UNCHANGED <<bridgeVars, handler, active, busy, historyVars>>

\* The bridge is not there, refuses the token, or has not answered in time.
RequestFails(r) ==
    /\ thread[r].phase \in {"sending", "waiting"}
    /\ thread' = [thread EXCEPT ![r] = [phase |-> "callback", sid |-> NoSid]]
    /\ UNCHANGED <<bridgeVars, handler, active, busy, historyVars>>

\* Faulty variant: the session id is taken from an error as well.
Callback_TrustsErrors(r) ==
    /\ thread[r].phase = "callback"
    /\ active' = IF thread[r].sid = NoSid THEN NoRequest ELSE thread[r].sid
    /\ busy' = FALSE
    /\ thread' = [thread EXCEPT ![r].phase = "over"]
    /\ UNCHANGED <<bridgeVars, handler, historyVars>>

\* _update_ui or _update_err.
Callback(r) ==
    /\ thread[r].phase = "callback"
    /\ active' = IF thread[r].sid = NoSid THEN active ELSE thread[r].sid
    /\ left' = left \ {active'}
    /\ busy' = FALSE
    /\ thread' = [thread EXCEPT ![r].phase = "over"]
    /\ UNCHANGED <<bridgeVars, handler, late, restarts>>

\* cancel_active_request: the task of the session, if it has not finished.
CancelActive(s) ==
    IF running[s] # NoRequest /\ InTask(running[s])
    THEN handler' = [handler EXCEPT ![running[s]].result = "cancelled"]
    ELSE UNCHANGED handler

\* The cancel operator, whose POST reaches the bridge ...
Stop ==
    /\ busy
    /\ busy' = FALSE
    /\ IF active # NoSid THEN CancelActive(active) ELSE UNCHANGED handler
    /\ UNCHANGED <<bridgeVars, thread, active, historyVars>>

\* ... or fails.
StopFails ==
    /\ busy
    /\ active # NoSid
    /\ busy' = FALSE
    /\ UNCHANGED <<bridgeVars, handler, thread, active, historyVars>>

\* The request thread of r still runs, or its callback is still to come.
Out(r) == thread[r].phase \in {"sending", "waiting", "callback"}

\* New Session can be pressed at any time; it gives up no request.
NewSession ==
    /\ active' = NoSid
    /\ IF active = NoSid THEN UNCHANGED <<left, late>>
       ELSE /\ left' = left \union {active}
            /\ late' = [late EXCEPT ![active] = {r \in Requests : Out(r)}]
    /\ UNCHANGED <<bridgeVars, handler, thread, busy, restarts>>

-----------------------------------------------------------------------------
(***************************************************************************)
(* The bridge.                                                             *)
(***************************************************************************)

\* get_or_create_session finds the session in memory or in the history file.
Known(s) == s # NoSid /\ (memory[s] # NoSession \/ saved[s] # <<>>)

Loaded(s) == IF memory[s] = NoSession THEN saved[s] ELSE memory[s]

\* Faulty variant: session ids are counted from one by each process.
Fresh_Counted(s) == ~Known(s)

\* A uuid no session has had.
Fresh(s) == /\ \A r \in Requests : handler[r].sid # s
            /\ ~Known(s)

\* Faulty variant: a session loaded from the file goes on without the question.
Asked_NewOnly(s, r) ==
    IF memory[s] = NoSession /\ saved[s] # <<>> THEN saved[s]
    ELSE Append(Loaded(s), Says("user", r))

Asked(s, r) == Append(Loaded(s), Says("user", r))

\* POST /chat, up to the await in send_message.
Accept(r) ==
    /\ thread[r].phase = "sending"
    /\ \E s \in Sids :
        /\ IF Known(thread[r].sid) THEN s = thread[r].sid ELSE Fresh(s)
        /\ memory' = [memory EXCEPT ![s] = Asked(s, r)]
        /\ running' = [running EXCEPT ![s] = r]
        /\ handler' = [handler EXCEPT ![r] = [phase |-> "open", sid |-> s,
                                              result |-> "none"]]
    /\ thread' = [thread EXCEPT ![r].phase = "waiting"]
    /\ UNCHANGED <<saved, active, busy, historyVars>>

\* generate_response returns or raises.
ProviderEnds(r) ==
    /\ InTask(r)
    /\ \E result \in {"answered", "failed"} :
          handler' = [handler EXCEPT ![r].result = result]
    /\ UNCHANGED <<bridgeVars, thread, active, busy, historyVars>>

\* wait_for gives up after 45 s; the client has by then, after 40 s.
BridgeTimeout(r) ==
    /\ InTask(r)
    /\ thread[r].phase \notin {"sending", "waiting"}
    /\ handler' = [handler EXCEPT ![r].result = "timedOut"]
    /\ UNCHANGED <<bridgeVars, thread, active, busy, historyVars>>

\* Faulty variant: the file gets the answer and the session does not.
Record_FileOnly(r) ==
    LET s == handler[r].sid IN
    /\ saved' = [saved EXCEPT ![s] = Append(memory[s], Says("assistant", r))]
    /\ UNCHANGED memory

\* The answer joins the session, and the whole session is written to the file.
Record(r) ==
    LET s == handler[r].sid
        m == Append(memory[s], Says("assistant", r))
    IN  /\ memory' = [memory EXCEPT ![s] = m]
        /\ saved' = [saved EXCEPT ![s] = m]

\* Faulty variant: running_tasks keeps the task.
Forget_Never(s) == UNCHANGED running

\* The finally clause: whatever task the session has is dropped.
Forget(s) == running' = [running EXCEPT ![s] = NoRequest]

\* The rest of send_message and of the /chat handler.
Reply(r) ==
    /\ handler[r].phase = "open"
    /\ handler[r].result # "none"
    /\ IF handler[r].result = "answered" THEN Record(r) ELSE UNCHANGED <<memory, saved>>
    /\ Forget(handler[r].sid)
    /\ handler' = [handler EXCEPT ![r].phase = "closed"]
    /\ thread' = IF thread[r].phase # "waiting" THEN thread
                 ELSE [thread EXCEPT ![r] =
                        [phase |-> "callback",
                         sid |-> IF handler[r].result = "failed" THEN NoSid
                                 ELSE handler[r].sid]]
    /\ UNCHANGED <<active, busy, historyVars>>

\* DELETE /history.
ClearHistory ==
    /\ saved' = [s \in Sids |-> <<>>]
    /\ UNCHANGED <<memory, running, handler, thread, active, busy, historyVars>>

\* The bridge stops and another one is started: only the file is left.
Restart ==
    /\ restarts < MaxRestarts
    /\ restarts' = restarts + 1
    /\ memory' = [s \in Sids |-> NoSession]
    /\ running' = [s \in Sids |-> NoRequest]
    /\ handler' = [r \in Requests |->
                     IF handler[r].phase = "open"
                     THEN [handler[r] EXCEPT !.phase = "closed", !.result = "failed"]
                     ELSE handler[r]]
    /\ UNCHANGED <<saved, thread, active, busy, left, late>>

Next ==
    \/ \E r \in Requests : \/ Send(r) \/ RequestFails(r) \/ Callback(r)
                           \/ Accept(r) \/ ProviderEnds(r) \/ BridgeTimeout(r) \/ Reply(r)
    \/ Stop \/ StopFails \/ NewSession
    \/ ClearHistory \/ Restart

Spec == Init /\ [][Next]_vars

\* A daemon thread ends by itself, at the latest when its socket times out, and
\* Blender runs the timers registered with it.
FairSpec == /\ Spec
            /\ \A r \in Requests : WF_vars(RequestFails(r)) /\ WF_vars(Callback(r))

-----------------------------------------------------------------------------
(***************************************************************************)
(* Properties.                                                             *)
(***************************************************************************)

\* The history file never knows more of a session than the bridge does, nor
\* anything else, whichever requests run on the session at once, whether the
\* history is cleared under them, and across restarts (bridge/session.py:93).
FileBehindMemory ==
    \A s \in Sids : memory[s] # NoSession =>
        /\ Len(saved[s]) <= Len(memory[s])
        /\ saved[s] = SubSeq(memory[s], 1, Len(saved[s]))

\* A session holds the messages of its own requests only; an answer comes once,
\* after its question, and only from a task that was not cancelled, had not
\* timed out and had not failed (bridge/session.py:82).
ConversationIsWhole ==
    \A s \in Sids, r \in Requests : memory[s] # NoSession =>
        \A i \in DOMAIN memory[s] : memory[s][i] = Says("assistant", r) =>
            /\ handler[r].sid = s /\ handler[r].result = "answered"
            /\ \E k \in 1 .. i - 1 : memory[s][k] = Says("user", r)
            /\ \A k \in DOMAIN memory[s] : memory[s][k] = memory[s][i] => k = i

\* running_tasks never holds on to a request that is over, so a session cannot
\* have a task that nothing will remove, though two requests on one session
\* overwrite and drop each other's entries (bridge/session.py:108).
NoTaskLeftBehind ==
    \A s \in Sids : running[s] # NoRequest =>
        handler[running[s]].phase = "open" /\ handler[running[s]].sid = s

\* A session left by New Session comes back only with the answer to a request
\* that was out at the time (blender_addon/operators.py:68): no restart, cleared
\* history or fresh id leads a later message into it.
LeftSessionStaysLeft ==
    [][\A s \in left : active' = s =>
          \E r \in late[s] : thread[r].phase = "callback" /\ thread[r].sid = s]_vars

\* The panel does not stay busy: whatever becomes of the request and the bridge,
\* a callback turns is_busy off (blender_addon/client.py:139).
BusyEnds == busy ~> ~busy
=============================================================================
