---------------------------- MODULE SessionContext ----------------------------
(***************************************************************************)
(* The session context tracker of the Openclaw adapter:                    *)
(*   src/go/openclaw-adapter/internal/session/context_manager.go           *)
(*                                                                         *)
(* Both Go maps are TLA+ functions whose domain is the set of keys         *)
(* present.  A SessionContext (sender, thread, group flag) is a member of  *)
(* the constant set Senders, whatever the user records.  Its Timestamp is *)
(* only read by CleanupExpiredSessions, which nothing in the program      *)
(* calls, so it is left out.  Every operation runs under m.mu: one      *)
(* atomic step.                                                            *)
(***************************************************************************)
EXTENDS Functions, TLC

CONSTANTS
    SessionKeys,        \* session keys in use
    DefaultSessionKey,  \* session.DefaultSessionKey ("main")
    RunIds,             \* run identifiers issued by the agent gateway
    Senders,            \* conversations a SessionContext can name
    NoSender            \* a model value: "nil *SessionContext"

VARIABLES
    sessions,   \* sessions: sessionKey -> SessionContext
    runIDMap    \* runIDMap: runId -> sessionKey

scVars == <<sessions, runIDMap>>

\* f is a Go map from K to V: its keys are some of K, its values in V.
IsMap(f, K, V) == DOMAIN f \subseteq K /\ \A k \in DOMAIN f : f[k] \in V

ScTypeOK ==
    /\ IsMap(sessions, SessionKeys, Senders)
    /\ IsMap(runIDMap, RunIds, SessionKeys)

ScInit ==
    /\ sessions = <<>>
    /\ runIDMap = <<>>

\* RegisterSession: overwrite the entry for the key, fresh timestamp.
RegisterSession(key, sender) ==
    /\ sessions' = (key :> sender) @@ sessions
    /\ UNCHANGED runIDMap

\* GetSession: the context stored under the key, or nil.
GetSession(key) == IF key \in DOMAIN sessions THEN sessions[key] ELSE NoSender

\* AssociateRunID: record (or overwrite) runId -> sessionKey.
AssociateRunID(runID, key) ==
    /\ runIDMap' = (runID :> key) @@ runIDMap
    /\ UNCHANGED sessions

\* GetContextByRunID: the session the run was associated with, if both
\* the association and the session still exist.
GetContextByRunID(runID) ==
    IF runID \in DOMAIN runIDMap THEN GetSession(runIDMap[runID]) ELSE NoSender

GetDefaultSessionContext == GetSession(DefaultSessionKey)

=============================================================================
