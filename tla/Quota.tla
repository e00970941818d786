------------------------------- MODULE Quota -------------------------------
(***************************************************************************)
(* The quota a user reads off a provider's page and types into Blender:    *)
(* the add-on's dialog (operators.py) posts it to the bridge (server.py),  *)
(* which keeps it in one JSON file for all accounts (storage/manager.py),  *)
(* and answers later questions from that file when the provider itself     *)
(* does not know.                                                          *)
(*                                                                         *)
(* The bridge's handlers do not await between reading and writing the      *)
(* file, so each is one step.  Any authenticated client may post for any   *)
(* account; the add-on posts for "default".                                *)
(*                                                                         *)
(* The names of an account are joined with colons into its key, and may    *)
(* contain colons themselves.  A name is modelled by its parts, the text   *)
(* split at the colons, so that joining names is concatenation.  What was   *)
(* typed, an amount, a total, a unit, a date, is modelled by the number of  *)
(* the entry it was typed for.                                              *)
(***************************************************************************)
EXTENDS Naturals, Sequences

CONSTANTS
    Profiles,      \* account profiles that are asked about or signed out
    Named,         \* accounts that a client may post for, beside those
    MaxEntries,    \* bound on the entries ever made
    None           \* what is not there, Python's None

Text == Seq(STRING) \ {<<>>}

ASSUME QuotaAssumption ==
    /\ Profiles \subseteq Text /\ <<"default">> \in Profiles
    /\ Named \subseteq [profile : Text, provider : Text, model : Text]
    /\ {"mock", "mock-model", "antigravity", "gemini", "mock-hunyuan-assistant"}
          \subseteq STRING
    /\ None \notin Nat

VARIABLES
    bridge,        \* the provider and model of the running bridge, None if down
    panel,         \* the provider and model that the add-on's panel shows
    file,          \* quota_snapshots.json, an entry or None for each key
    damaged,       \* does the file's content no longer parse?
    quotaAnswer,   \* the last answer of GET /quota
    entries        \* history: how many entries were made, the newest of each
                   \* account, and what has happened to the file since it was

quotaVars == <<bridge, panel, file, damaged, quotaAnswer, entries>>

Service(provider, model) == [provider |-> <<provider>>, model |-> <<model>>]

(* The add-on starts with the provider "mock" and a model no bridge has,    *)
(* until a connection check tells it better.                                *)
Bridges == {Service("mock", "mock-model"), Service("antigravity", "gemini")}
Unchecked == Service("mock", "mock-hunyuan-assistant")

Account(profile, service) ==
    [profile |-> profile, provider |-> service.provider, model |-> service.model]
Accounts ==
    Named \cup {Account(p, s) : p \in Profiles, s \in Bridges \cup {Unchecked}}

Key(account) == account.profile \o account.provider \o account.model
Keys == {Key(a) : a \in Accounts}

(* key.startswith(f"{profile}:") *)
StartsWith(key, profile) ==
    /\ Len(profile) < Len(key)
    /\ \A i \in 1..Len(profile) : key[i] = profile[i]

NoFile == [k \in Keys |-> None]

----------------------------------------------------------------------------
(* The file *)

(* _safe_read_json: content that does not parse reads as an empty file. *)
ReadFile == IF damaged THEN NoFile ELSE file

(* _atomic_write_json replaces the whole file. *)
WriteFile(data) == file' = data /\ damaged' = FALSE

save_quota_snapshot(account, entry) ==
    WriteFile([ReadFile EXCEPT ![Key(account)] = entry])

(* A slip: the profile asked about is not looked at. *)
load_quota_snapshot_AnyProfile(account) ==
    ReadFile[Key([account EXCEPT !.profile = <<"default">>])]

load_quota_snapshot(account) == ReadFile[Key(account)]

(* Called by no handler; sign-out is left to a caller outside the package.  *)
invalidate_snapshots_for_profile(profile) ==
    WriteFile([k \in Keys |-> IF StartsWith(k, profile) THEN None ELSE ReadFile[k]])

----------------------------------------------------------------------------
(* Behaviour *)

Unanswered == [of |-> None, source |-> None, entry |-> None]

QuotaInit ==
    /\ bridge = None
    /\ panel = Unchecked
    /\ file = NoFile /\ damaged = FALSE
    /\ quotaAnswer = Unanswered
    /\ entries = [count |-> 0, newest |-> [a \in Accounts |-> None], spoilt |-> {},
                  signedOut |-> [a \in Accounts |-> {}]]

Restart ==
    /\ \E b \in Bridges \cup {None} : b # bridge /\ bridge' = b
    /\ quotaAnswer' = Unanswered
    /\ UNCHANGED <<panel, file, damaged, entries>>

(* RIGMATE_OT_check_connection *)
CheckConnection ==
    /\ bridge # None
    /\ panel' = bridge
    /\ UNCHANGED <<bridge, file, damaged, quotaAnswer, entries>>

(* POST /quota/manual, stored under the names the client sent. *)
update_manual_quota(account) ==
    LET entry == entries.count + 1 IN
    /\ bridge # None
    /\ entries.count < MaxEntries
    /\ save_quota_snapshot(account, entry)
    /\ entries' = [count |-> entry, newest |-> [entries.newest EXCEPT ![account] = entry],
                   spoilt |-> entries.spoilt \ {account},
                   signedOut |-> [entries.signedOut EXCEPT ![account] = {}]]
    /\ quotaAnswer' = Unanswered
    /\ UNCHANGED <<bridge, panel>>

(* RIGMATE_OT_manual_quota_dialog posts for the service the panel shows.    *)
Enter == update_manual_quota(Account(<<"default">>, panel))

PostManual == \E account \in Accounts : update_manual_quota(account)

(* GET /quota: the mock answers with demonstration data; antigravity knows  *)
(* nothing and the saved entry stands in.                                   *)
GetQuota ==
    /\ bridge # None
    /\ \E profile \in Profiles :
          LET account == Account(profile, bridge)
              saved == load_quota_snapshot(account)
              demo == bridge.provider = <<"mock">>
          IN  quotaAnswer' =
                 [of |-> account,
                  source |-> CASE demo                  -> "DEMO"
                               [] ~demo /\ saved # None -> "MANUAL"
                               [] OTHER                 -> "UNKNOWN",
                  entry |-> IF demo THEN None ELSE saved]
    /\ UNCHANGED <<bridge, panel, file, damaged, entries>>

SignOut ==
    \E profile \in Profiles :
        /\ invalidate_snapshots_for_profile(profile)
        /\ entries' = [entries EXCEPT !.signedOut = [a \in Accounts |->
                          IF entries.newest[a] = None THEN {} ELSE @[a] \cup {profile}]]
        /\ quotaAnswer' = Unanswered
        /\ UNCHANGED <<bridge, panel>>

(* Something else spoils the file: its content is lost, and with it every   *)
(* entry (a copy goes to .corrupt.bak, which nothing reads).                *)
SpoilFile ==
    /\ file # NoFile /\ ~damaged
    /\ damaged' = TRUE
    /\ entries' = [entries EXCEPT !.spoilt = {a \in Accounts : entries.newest[a] # None}]
    /\ quotaAnswer' = Unanswered
    /\ UNCHANGED <<bridge, panel, file>>

QuotaNext ==
    \/ Restart \/ CheckConnection \/ Enter \/ PostManual \/ GetQuota \/ SignOut
    \/ SpoilFile

QuotaSpec == QuotaInit /\ [][QuotaNext]_quotaVars

----------------------------------------------------------------------------
(* Properties *)

(* No name of the account contains a colon.                                *)
Plain(a) == Len(a.profile) = 1 /\ Len(a.provider) = 1 /\ Len(a.model) = 1

(* The sign-outs that take the entry of such an account with them: that of  *)
(* its profile, and that of a profile whose name is the account's own and   *)
(* its provider's with a colon between.                                     *)
TakenBy(a) == {a.profile, a.profile \o a.provider}

(* About an account without a colon in its names, GET /quota answers with   *)
(* the newest entry made for that account, and with none only if none was   *)
(* made, or one of those profiles has signed out since, or the file was     *)
(* spoilt: whatever is entered for other accounts, over their entries or    *)
(* over a spoilt file, and whoever else signs out.                          *)
(* storage/manager.py:94-127, bridge/server.py:116-126                      *)
AnswerIsTheAccounts ==
    LET a == quotaAnswer.of IN
    a # None =>
        (Plain(a) =>
            /\ quotaAnswer.source = "MANUAL" <=>
                  /\ a.provider # <<"mock">>
                  /\ entries.newest[a] # None
                  /\ a \notin entries.spoilt
                  /\ entries.signedOut[a] \cap TakenBy(a) = {}
            /\ quotaAnswer.source = "MANUAL" =>
                  quotaAnswer.entry = entries.newest[a])
=============================================================================
