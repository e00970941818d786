--------------------------- MODULE BridgeDiscovery ---------------------------
(***************************************************************************)
(* How Blender finds the bridge: the bridge_state.json of                  *)
(* storage/runtime_state.py, written by bridge/server.py when a bridge is  *)
(* constructed and removed by bridge/__main__.py when it ends, and read by *)
(* the one client of the add-on (blender_addon/client.py).                 *)
(*                                                                         *)
(* A bridge stands for one run of the program, with the token drawn in it. *)
(* Several may run at once; those of one address contend for its port.     *)
(* In Blender two threads use the client: the operators run in main, the   *)
(* chat request in a worker, and both assign to the client's fields.       *)
(***************************************************************************)
CONSTANTS Bridges,
          Addresses,     \* host and port
          Default,       \* 127.0.0.1:8765
          NoToken,       \* the empty auth_token
          NoState        \* no state file, or one that load_state does not accept

ASSUME DiscoveryAssumption ==
    /\ Default \in Addresses
    /\ NoToken \notin Bridges
    /\ NoState \notin [token : Bridges, fresh : BOOLEAN]

Threads == {"main", "worker"}

\* A bridge's token names the bridge, and with it the address in the file;
\* fresh until started_at is twelve hours old.
BridgeState == [token : Bridges, fresh : BOOLEAN]

VARIABLES
    file,       \* bridge_state.json
    status,     \* where each bridge is in main()
    address,    \* the --host and --port each bridge has been launched with
    token,      \* client.auth_token
    base,       \* client.base_url
    pc,         \* what each thread does next
    found,      \* the state each thread has loaded from the file
    url,        \* the address the worker has taken for its request
    header,     \* the token the worker has put into its request
    answer,     \* how the last chat request ended
    overlapped  \* history: the bridges that have run at the same time as another

bridgeVars == <<file, status, address, overlapped>>
clientVars == <<token, base, pc, found, url, header, answer>>
vars == <<bridgeVars, clientVars>>

Statuses == {"new", "published", "serving", "closing", "gone", "killed"}
Labels == {"idle", "load", "token", "address", "headers", "post"}
Answers == {"none", "ok", "auth_failed", "connection_failed"}

TypeOK ==
    /\ file \in BridgeState \union {NoState}
    /\ status \in [Bridges -> Statuses]
    /\ address \in [Bridges -> Addresses]
    /\ overlapped \subseteq Bridges
    /\ token \in Bridges \union {NoToken}
    /\ base \in Addresses
    /\ pc \in [Threads -> Labels]
    /\ found \in [Threads -> Bridges \union {NoState}]
    /\ url \in Addresses
    /\ header \in Bridges \union {NoToken}
    /\ answer \in Answers

\* Blender comes up first: the client's constructor has just to read the file.
Init ==
    /\ file = NoState
    /\ status = [b \in Bridges |-> "new"]
    /\ address = [b \in Bridges |-> Default]
    /\ overlapped = {}
    /\ token = NoToken
    /\ base = Default
    /\ pc = [t \in Threads |-> IF t = "main" THEN "load" ELSE "idle"]
    /\ found = [t \in Threads |-> NoState]
    /\ url = Default
    /\ header = NoToken
    /\ answer = "none"

-----------------------------------------------------------------------------
(***************************************************************************)
(* The bridge.                                                             *)
(***************************************************************************)

Running(b) == status[b] \in {"published", "serving", "closing"}

Goes(b, s) == status' = [status EXCEPT ![b] = s]

Published(b) == [token |-> b, fresh |-> TRUE]

\* Faulty variant: a state file that is there is left alone.
Launch_KeepsFile(b, a) ==
    /\ status[b] = "new"
    /\ Goes(b, "published")
    /\ address' = [address EXCEPT ![b] = a]
    /\ file' = IF file = NoState THEN Published(b) ELSE file
    /\ overlapped' = overlapped \union
                     (IF \E c \in Bridges : Running(c)
                      THEN {b} \union {c \in Bridges : Running(c)} ELSE {})
    /\ UNCHANGED clientVars

\* The constructor draws a token and publishes it, over whatever is there and
\* before the port is asked for.
Launch(b, a) ==
    /\ status[b] = "new"
    /\ Goes(b, "published")
    /\ address' = [address EXCEPT ![b] = a]
    /\ file' = Published(b)
    /\ overlapped' = overlapped \union
                     (IF \E c \in Bridges : Running(c)
                      THEN {b} \union {c \in Bridges : Running(c)} ELSE {})
    /\ UNCHANGED clientVars

\* save_state raises: the program ends before the try whose finally cleans up.
LaunchFails(b) ==
    /\ status[b] = "new"
    /\ Goes(b, "gone")
    /\ UNCHANGED <<file, address, overlapped, clientVars>>

PortTaken(a) == \E c \in Bridges : status[c] = "serving" /\ address[c] = a

Bind(b) ==
    /\ status[b] = "published"
    /\ ~PortTaken(address[b])
    /\ Goes(b, "serving")
    /\ UNCHANGED <<file, address, overlapped, clientVars>>

\* Faulty variant: a bridge that does not get its port ends there and then.
BindFails_NoFinally(b) ==
    /\ status[b] = "published"
    /\ PortTaken(address[b])
    /\ Goes(b, "gone")
    /\ UNCHANGED <<file, address, overlapped, clientVars>>

\* uvicorn exits, and the finally clause runs.
BindFails(b) ==
    /\ status[b] = "published"
    /\ PortTaken(address[b])
    /\ Goes(b, "closing")
    /\ UNCHANGED <<file, address, overlapped, clientVars>>

\* Ctrl+C.
Stop(b) ==
    /\ status[b] = "serving"
    /\ Goes(b, "closing")
    /\ UNCHANGED <<file, address, overlapped, clientVars>>

\* The file goes, whoever's it is.
Cleanup(b) ==
    /\ status[b] = "closing"
    /\ Goes(b, "gone")
    /\ file' = NoState
    /\ UNCHANGED <<address, overlapped, clientVars>>

\* The process is killed, or clear_state swallows a refused unlink: the file
\* stays.
Kill(b) ==
    /\ Running(b)
    /\ Goes(b, "killed")
    /\ UNCHANGED <<file, address, overlapped, clientVars>>

\* Twelve hours have passed since the bridge of the file was launched.
GrowStale ==
    /\ file # NoState
    /\ file.fresh
    /\ file' = [file EXCEPT !.fresh = FALSE]
    /\ UNCHANGED <<status, address, overlapped, clientVars>>

-----------------------------------------------------------------------------
(***************************************************************************)
(* The client.                                                             *)
(***************************************************************************)

Goto(t, label) == pc' = [pc EXCEPT ![t] = label]

\* Where a thread goes on when discover_token has returned: the worker to its
\* request.  What main still does, the health probe or a short request of its
\* own, changes nothing here.
AfterDiscovery(t) == IF t = "worker" THEN "headers" ELSE "idle"

\* Faulty variant: nothing loaded is taken as well.
Load_Unchecked(t) ==
    /\ pc[t] = "load"
    /\ found' = [found EXCEPT ![t] = IF file # NoState /\ file.fresh THEN file.token ELSE NoState]
    /\ Goto(t, "token")
    /\ UNCHANGED <<bridgeVars, token, base, url, header, answer>>

\* discover_token: load_state.
Load(t) ==
    /\ pc[t] = "load"
    /\ IF file # NoState /\ file.fresh
       THEN /\ found' = [found EXCEPT ![t] = file.token]
            /\ Goto(t, "token")
       ELSE /\ Goto(t, AfterDiscovery(t))
            /\ UNCHANGED found
    /\ UNCHANGED <<bridgeVars, token, base, url, header, answer>>

\* discover_token: the assignment of auth_token, then that of base_url.
TakeToken(t) ==
    /\ pc[t] = "token"
    /\ token' = found[t]
    /\ Goto(t, "address")
    /\ UNCHANGED <<bridgeVars, base, found, url, header, answer>>

TakeAddress(t) ==
    /\ pc[t] = "address"
    /\ base' = address[found[t]]
    /\ found' = [found EXCEPT ![t] = NoState]
    /\ Goto(t, AfterDiscovery(t))
    /\ UNCHANGED <<bridgeVars, token, url, header, answer>>

\* Faulty variant: the check keeps a token that is there.
CheckConnection_IfNoToken ==
    /\ pc["main"] = "idle"
    /\ token = NoToken
    /\ Goto("main", "load")
    /\ UNCHANGED <<bridgeVars, token, base, found, url, header, answer>>

\* The Check Connection button: check_health discovers whatever token there is.
CheckConnection ==
    /\ pc["main"] = "idle"
    /\ Goto("main", "load")
    /\ UNCHANGED <<bridgeVars, token, base, found, url, header, answer>>

\* cancel_request, get_quota or update_manual_quota, run by an operator.
ShortRequest ==
    /\ pc["main"] = "idle"
    /\ token = NoToken
    /\ Goto("main", "load")
    /\ UNCHANGED <<bridgeVars, token, base, found, url, header, answer>>

\* send_chat_async: the URL is made first; then get_auth_headers discovers, but
\* only if there is no token.
SendChat ==
    /\ pc["worker"] = "idle"
    /\ url' = base
    /\ Goto("worker", IF token = NoToken THEN "load" ELSE "headers")
    /\ UNCHANGED <<bridgeVars, token, base, found, header, answer>>

Headers ==
    /\ pc["worker"] = "headers"
    /\ header' = token
    /\ Goto("worker", "post")
    /\ UNCHANGED <<bridgeVars, token, base, found, url, answer>>

Serving(a) == {b \in Bridges : status[b] = "serving" /\ address[b] = a}

\* _verify_token of the bridge that has the port.
Reply ==
    IF Serving(url) = {} THEN "connection_failed"
    ELSE IF header \in Serving(url) THEN "ok"
    ELSE "auth_failed"

Post ==
    /\ pc["worker"] = "post"
    /\ answer' = Reply
    /\ url' = Default
    /\ header' = NoToken
    /\ Goto("worker", "idle")
    /\ UNCHANGED <<bridgeVars, token, base, found>>

Discover(t) == Load(t) \/ TakeToken(t) \/ TakeAddress(t)

-----------------------------------------------------------------------------
ClientStep(t) ==
    \/ Discover(t)
    \/ t = "worker" /\ (Headers \/ Post)

Next ==
    \/ \E b \in Bridges :
          \/ \E a \in Addresses : Launch(b, a)
          \/ LaunchFails(b)
          \/ Bind(b) \/ BindFails(b)
          \/ Stop(b) \/ Cleanup(b) \/ Kill(b)
    \/ GrowStale
    \/ CheckConnection \/ ShortRequest \/ SendChat
    \/ \E t \in Threads : ClientStep(t)

Spec == Init /\ [][Next]_vars

\* The threads of Blender run on; the user checks the connection again and again
\* and goes on chatting.  Nothing is assumed of the bridges.
CheckingSpec ==
    /\ Spec
    /\ \A t \in Threads : WF_vars(ClientStep(t))
    /\ SF_vars(CheckConnection)
    /\ WF_vars(SendChat)

-----------------------------------------------------------------------------
(***************************************************************************)
(* Properties.                                                             *)
(***************************************************************************)

\* A bridge whose run overlaps no other's is named by the state file as long as
\* it serves, whatever the runs before it have left behind.  (A second bridge
\* on the same port overwrites the file of the first, fails to bind, and removes
\* it: bridge/server.py:66, bridge/__main__.py:62-66.)
LoneBridgeIsPublished ==
    \A b \in Bridges :
        status[b] = "serving" /\ b \notin overlapped =>
            file # NoState /\ file.token = b

\* No state file outlives a bridge that has ended in good order: the token in the
\* file is that of a bridge still running, or of one that was killed.
NoTokenOfAFinishedBridge ==
    file # NoState => status[file.token] \notin {"new", "gone"}

\* The one bridge that can be reached through the file.
Named(b) ==
    /\ status[b] = "serving"
    /\ file = Published(b)

Paired(b) == token = b /\ base = address[b]

\* If a bridge stays up and stays named by a fresh file, a user who keeps
\* checking the connection ends with its token and its address, and from then on
\* every chat is let in, whatever tokens earlier runs have left in the client and
\* however the discoveries of the two threads interleave.  (A user who only chats
\* keeps an old token for ever: client.py:112 looks for a missing one only.)
CheckingReconnects ==
    \A b \in Bridges :
        <>[]Named(b) => <>[](Paired(b) /\ answer = "ok")
=============================================================================
