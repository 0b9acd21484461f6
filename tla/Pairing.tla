------------------------------- MODULE Pairing -------------------------------
(***************************************************************************)
(* Pairing a phone with the car (PairingManager).  Two kinds of thread     *)
(* share its state: the BLE thread, which runs one characteristic callback *)
(* after the other, and for each PIN session a poller that asks the server *)
(* whether the PIN has been entered.  _pin_state_lock protects single      *)
(* accesses; requests to the server, files and the stop of a poller are    *)
(* outside of it, and that stop waits 1.5 s for the poller at most.        *)
(*                                                                         *)
(* A callback is a sequence of steps, one for each access to what another  *)
(* thread also uses.  The server hands out each session once, in any       *)
(* order; the phone may name any of them at any time.                      *)
(***************************************************************************)
EXTENDS Naturals, FiniteSets

CONSTANTS
  Sessions,     \* identifiers of PIN sessions
  Expiring,     \* those whose expires_at, in whatever the server answers, is
                \* a number of milliseconds
  Keys,         \* identifiers of digital keys
  None

ASSUME NoneAssumption == None \notin Sessions
ASSUME ExpiringAssumption == Expiring \subseteq Sessions
ASSUME BleAssumption == "ble" \notin Sessions
ASSUME FileAssumption ==   \* no file is different from any content of one
  /\ None \notin [session : Sessions, entry : {"derived", "signed"}]
  /\ \A content \in SUBSET Keys : content # None

VARIABLES
  session, status, active,  \* _pin_session_state: its id, status and flag
  pki,         \* _pki_sessions: how far the session key of each session is
  pki_state,   \* _pki_state: the session whose key is exported
  pkiFile,     \* pki_session_state.json: a session and its entry in pki;
               \* None if there is no readable one
  keys,        \* KeyStore._keys
  keysFile,    \* keys.json; None if it is unreadable
  flag,        \* the file pairing_enabled
  at,          \* where each thread is
  task,        \* the BLE callback that is running, its session and the
               \* entry it is about to install
  victim,      \* the poller each thread is stopping
  thread,      \* _pin_poll_thread
  stopSet,     \* whether the current _pin_poll_stop is set
  answer,      \* the status each poller has got and is acting upon
  server,      \* the server's status of each session
  mishaps,     \* history: "late": a stop gave up waiting for its poller;
               \* "unusable": a verified PIN brought no usable public key;
               \* "stray": a result for another session than the active one
  losses,      \* history: "unwritten": a file could not be written or
               \* removed; "torn", "lost": a restart found the session's
               \* export, or the key store, cut short; "incomplete": it
               \* found an export that lacks what a restart needs
  acked,       \* history: the session whose handshake was answered last, and
               \* its entry in pki, until a key is installed or exported in
               \* place of its key
  closed,      \* history: a key was stored, and pairing not enabled since
  seeded,      \* history: the phone has sent a session key of its own
  granted      \* history: the sessions that got a key by a PKI command

pinVars == <<session, status, active>>
pkiVars == <<pki, pki_state, pkiFile>>
keyVars == <<keys, keysFile, flag>>
stopVars == <<victim, thread, stopSet>>
grantVars == <<seeded, granted>>
historyVars == <<mishaps, losses, acked, closed, grantVars>>
vars == <<pinVars, pkiVars, keyVars, at, task, stopVars, answer, server,
          historyVars>>

Threads == Sessions \cup {"ble"}

Idle == [op |-> "none", session |-> None, entry |-> "none"]
Task(op, s) == [op |-> op, session |-> s, entry |-> "none"]

(* A poller in its wait for the stop event: on the current event, on one   *)
(* that was set and replaced, or on one that was replaced without.         *)
Waiting == {"wait", "told", "deaf"}

Init ==
  /\ session = None /\ status = "NONE" /\ active = FALSE
  /\ pki = [s \in Sessions |-> "none"]
  /\ pki_state = None
  /\ pkiFile = None
  /\ keys \in {{}, Keys} /\ keysFile = keys /\ flag = FALSE
  /\ at = [t \in Threads |-> IF t = "ble" THEN "idle" ELSE "done"]
  /\ task = Idle
  /\ victim = [t \in Threads |-> None]
  /\ thread = None
  /\ stopSet = FALSE
  /\ answer = [s \in Sessions |-> "none"]
  /\ server = [s \in Sessions |-> "unused"]
  /\ mishaps = {} /\ losses = {}
  /\ acked = None /\ closed = FALSE
  /\ seeded = FALSE /\ granted = {}

Goto(t, place) == at' = [at EXCEPT ![t] = place]

-----------------------------------------------------------------------------
(* _stop_pin_status_poller, called by the BLE thread or by a poller.  Its  *)
(* target is the poller in _pin_poll_thread, whoever calls.                *)

(* Mutant: the signed session is not exported. *)
AfterStopUnsaved(t) ==
  IF t # "ble" THEN IF answer[t] = "expired" THEN "cancel" ELSE "done"
  ELSE CASE task.op = "challenge" -> "open"
         [] task.op = "handshake" -> "reply"
         [] task.op = "store" -> "sync"

AfterStop(t) ==
  IF t # "ble" THEN IF answer[t] = "expired" THEN "cancel" ELSE "done"
  ELSE CASE task.op = "challenge" -> "open"
         [] task.op = "handshake" -> "export"
         [] task.op = "store" -> "sync"

StopSet(t) ==
  /\ at[t] = "stop"
  /\ IF thread = None
     THEN /\ Goto(t, AfterStop(t))
          /\ UNCHANGED <<victim, stopSet>>
     ELSE /\ Goto(t, "join")
          /\ victim' = [victim EXCEPT ![t] = thread]
          /\ stopSet' = TRUE
  /\ UNCHANGED <<pinVars, pkiVars, keyVars, task, thread, answer, server,
                 historyVars>>

(* A poller does not wait for itself; another one is waited for until it   *)
(* ends, but for 1.5 s at most.  That is too short while it waits for the  *)
(* server or, for 2 s, on an event that nobody can set any more.           *)
StopJoin(t) ==
  /\ at[t] = "join"
  /\ \/ /\ victim[t] = t \/ at[victim[t]] = "done"
        /\ UNCHANGED mishaps
     \/ /\ victim[t] # t /\ at[victim[t]] \in {"deaf", "http", "cancel"}
        /\ mishaps' = mishaps \cup {"late"}
  /\ Goto(t, "forget")
  /\ UNCHANGED <<pinVars, pkiVars, keyVars, task, stopVars, answer, server,
                 losses, acked, closed, grantVars>>

StopForget(t) ==
  /\ at[t] = "forget"
  /\ thread' = None
  /\ Goto(t, "fresh")
  /\ UNCHANGED <<pinVars, pkiVars, keyVars, task, victim, stopSet, answer,
                 server, historyVars>>

(* A new event takes the place of _pin_poll_stop; who waits on the old one *)
(* keeps waiting on it.                                                    *)
Replaced(places) ==
  [t \in Threads |-> IF places[t] # "wait" THEN places[t]
                     ELSE IF stopSet THEN "told" ELSE "deaf"]

StopFresh(t) ==
  /\ at[t] = "fresh"
  /\ at' = [Replaced(at) EXCEPT ![t] = AfterStop(t)]
  /\ stopSet' = FALSE
  /\ victim' = [victim EXCEPT ![t] = None]
  /\ UNCHANGED <<pinVars, pkiVars, keyVars, task, thread, answer, server,
                 historyVars>>

Stop(t) == StopSet(t) \/ StopJoin(t) \/ StopForget(t) \/ StopFresh(t)

-----------------------------------------------------------------------------
(* The poller of session s: _pin_status_poll_loop and what it calls.       *)

(* The stop event is set, or the poll interval is over. *)
PollStopped(s) ==
  /\ at[s] = "told" \/ (at[s] = "wait" /\ stopSet)
  /\ Goto(s, "done")
  /\ UNCHANGED <<pinVars, pkiVars, keyVars, task, stopVars, answer, server,
                 historyVars>>

PollInterval(s) ==
  /\ at[s] = "deaf" \/ (at[s] = "wait" /\ ~stopSet)
  /\ Goto(s, "check")
  /\ UNCHANGED <<pinVars, pkiVars, keyVars, task, stopVars, answer, server,
                 historyVars>>

(* The session is not the current one any more or has ended; or it is past *)
(* its expires_at; or the server is asked.                                 *)
PollCheck(s) ==
  /\ at[s] = "check"
  /\ Goto(s, IF session = s /\ active THEN "http" ELSE "done")
  /\ UNCHANGED <<pinVars, pkiVars, keyVars, task, stopVars, answer, server, historyVars>>

(* Mutant: seconds compared with milliseconds, which never reach them. *)
PollExpiredNever(s) ==
  /\ at[s] = "check"
  /\ s \in Expiring /\ session = s /\ active /\ FALSE
  /\ answer' = [answer EXCEPT ![s] = "expired"]
  /\ Goto(s, "terminal")
  /\ UNCHANGED <<pinVars, pkiVars, keyVars, task, stopVars, server, historyVars>>

(* Without an expires_at, or with one that is not a number of milliseconds, *)
(* a session does not expire locally.                                      *)
PollExpired(s) ==
  /\ at[s] = "check"
  /\ s \in Expiring /\ session = s /\ active
  /\ answer' = [answer EXCEPT ![s] = "expired"]
  /\ Goto(s, "terminal")
  /\ UNCHANGED <<pinVars, pkiVars, keyVars, task, stopVars, server, historyVars>>

(* get_pin_status: the server answers, or the request fails. *)
PollAsk(s) ==
  /\ at[s] = "http"
  /\ \/ /\ answer' = [answer EXCEPT ![s] = server[s]]
        /\ Goto(s, "update")
     \/ /\ Goto(s, "wait")
        /\ UNCHANGED answer
  /\ UNCHANGED <<pinVars, pkiVars, keyVars, task, stopVars, server, historyVars>>

(* _handle_pin_status_update: the lock is released before the status of    *)
(* the session just compared is acted upon.                                *)
handle_pin_status_update(s) ==
  /\ at[s] = "update"
  /\ status' = IF session = s THEN answer[s] ELSE status
  /\ Goto(s, CASE session = s /\ answer[s] = "verified" -> "derive"
               [] session = s /\ answer[s] = "failed" -> "terminal"
               [] session # s /\ answer[s] # "pending" -> "done"
               [] OTHER -> "wait")
  /\ answer' = [answer EXCEPT ![s] = IF session = s /\ answer[s] = "failed" THEN @ ELSE "none"]
  /\ UNCHANGED <<session, active, pkiVars, keyVars, task, stopVars, server,
                 historyVars>>

(* Mutant: the key goes to the current session, whosever status it was. *)
handle_pin_verified_any(s) ==
  /\ at[s] = "derive"
  /\ pki_state' = session
  /\ pki' = [pki EXCEPT ![session] = "derived"]
  /\ active' = IF session = s THEN FALSE ELSE active
  /\ status' = IF session = s THEN "verified" ELSE status
  /\ acked' = None
  /\ Goto(s, "stop")
  /\ UNCHANGED <<session, pkiFile, keyVars, task, stopVars, answer, server,
                 mishaps, losses, closed, grantVars>>

(* _handle_pin_verified: the session key is derived and installed, unless  *)
(* the server has sent no usable public key.                               *)
handle_pin_verified(s) ==
  /\ at[s] = "derive"
  /\ pki_state' = s
  /\ pki' = [pki EXCEPT ![s] = "derived"]
  /\ active' = IF session = s THEN FALSE ELSE active
  /\ status' = IF session = s THEN "verified" ELSE status
  /\ acked' = None
  /\ Goto(s, "stop")
  /\ UNCHANGED <<session, pkiFile, keyVars, task, stopVars, answer, server,
                 mishaps, losses, closed, grantVars>>

PinVerifiedUnusable(s) ==
  /\ at[s] = "derive"
  /\ mishaps' = mishaps \cup {"unusable"}
  /\ Goto(s, "done")
  /\ UNCHANGED <<pinVars, pkiVars, keyVars, task, stopVars, answer, server,
                 losses, acked, closed, grantVars>>

handle_pin_terminal(s) ==
  /\ at[s] = "terminal"
  /\ active' = IF session = s THEN FALSE ELSE active
  /\ status' = IF session = s THEN answer[s] ELSE status
  /\ Goto(s, IF session = s THEN "stop" ELSE "done")
  /\ UNCHANGED <<session, pkiVars, keyVars, task, stopVars, answer, server,
                 historyVars>>

(* _cancel_remote_session, which may fail. *)
cancel_remote_session(s) ==
  /\ at[s] = "cancel"
  /\ \/ UNCHANGED server
     \/ server[s] = "pending" /\ server' = [server EXCEPT ![s] = "failed"]
  /\ Goto(s, "done")
  /\ UNCHANGED <<pinVars, pkiVars, keyVars, task, stopVars, answer,
                 historyVars>>

Poller(s) ==
  \/ PollStopped(s) \/ PollInterval(s) \/ PollCheck(s) \/ PollExpired(s)
  \/ PollAsk(s)
  \/ handle_pin_status_update(s) \/ handle_pin_verified(s)
  \/ PinVerifiedUnusable(s) \/ handle_pin_terminal(s)
  \/ cancel_remote_session(s) \/ Stop(s)

-----------------------------------------------------------------------------
(* The BLE thread.                                                         *)

is_pairing_allowed == keys = {} \/ flag

(* Mutant: the previous poller is not stopped. *)
build_challenge_unstopped ==
  /\ at["ble"] = "idle"
  /\ is_pairing_allowed
  /\ \E s \in Sessions :
       /\ server[s] = "unused"
       /\ server' = [server EXCEPT ![s] = "pending"]
       /\ task' = Task("challenge", s)
  /\ Goto("ble", "open")
  /\ UNCHANGED <<pinVars, pkiVars, keyVars, stopVars, answer,
                 historyVars>>

(* build_challenge: the server opens a new session (if it refuses, nothing *)
(* changes); _initialize_pin_session stops the previous poller, ...        *)
build_challenge ==
  /\ at["ble"] = "idle"
  /\ is_pairing_allowed
  /\ \E s \in Sessions :
       /\ server[s] = "unused"
       /\ server' = [server EXCEPT ![s] = "pending"]
       /\ task' = Task("challenge", s)
  /\ Goto("ble", "stop")
  /\ UNCHANGED <<pinVars, pkiVars, keyVars, stopVars, answer,
                 historyVars>>

(* ... makes the new session the current one, ... *)
OpenSession ==
  /\ at["ble"] = "open"
  /\ session' = task.session /\ status' = "pending" /\ active' = TRUE
  /\ pki_state' = None
  /\ pki' = [pki EXCEPT ![task.session] = "none"]
  /\ acked' = None
  /\ Goto("ble", "export")
  /\ UNCHANGED <<pkiFile, keyVars, task, stopVars, answer, server,
                 mishaps, losses, closed, grantVars>>

(* ... exports the session key there is, or discards all if there is none  *)
(* (the clearing is outside of the lock), ...                              *)
AfterExport ==
  CASE task.op = "challenge" -> "start"
    [] task.op = "recover" -> "finalize"
    [] OTHER -> "reply"

(* An export that fails is passed over in silence.  It leaves the file as  *)
(* it was, or opened for writing and with nothing readable in it.          *)
ExportTo(content) ==
  \/ pkiFile' = content /\ UNCHANGED losses
  \/ pkiFile' \in {pkiFile, None} /\ losses' = losses \cup {"unwritten"}

ExportState ==
  /\ at["ble"] = "export"
  /\ \/ /\ pki_state = None
        /\ Goto("ble", "clear")
        /\ UNCHANGED <<pkiFile, losses>>
     \/ /\ pki_state # None
        /\ ExportTo([session |-> pki_state, entry |-> pki[pki_state]])
        /\ Goto("ble", AfterExport)
  /\ UNCHANGED <<pinVars, pki, pki_state, keyVars, task, stopVars, answer,
                 server, mishaps, acked, closed, grantVars>>

ExportNothing ==
  /\ at["ble"] = "clear"
  /\ pki' = [s \in Sessions |-> "none"]
  /\ ExportTo(None)
  /\ Goto("ble", AfterExport)
  /\ UNCHANGED <<pinVars, pki_state, keyVars, task, stopVars, answer, server,
                 mishaps, acked, closed, grantVars>>

(* ... and starts the new poller, on a new event. *)
start_pin_status_poller ==
  /\ at["ble"] = "start"
  /\ at' = [Replaced(at) EXCEPT !["ble"] = "idle", ![task.session] = "wait"]
  /\ stopSet' = FALSE
  /\ thread' = task.session
  /\ task' = Idle
  /\ UNCHANGED <<pinVars, pkiVars, keyVars, victim, answer, server, historyVars>>

(* handle_pairing_handshake: only for a session with a key; with a valid   *)
(* signature, or with none, it is acknowledged.                            *)
handle_pairing_handshake(s) ==
  /\ at["ble"] = "idle"
  /\ pki[s] # "none"
  /\ \/ pki' = [pki EXCEPT ![s] = "signed"]
     \/ UNCHANGED pki
  /\ acked' = IF pki_state = s THEN [session |-> s, entry |-> pki'[s]] ELSE None
  /\ task' = Task("handshake", s)
  /\ Goto("ble", "ack")
  /\ UNCHANGED <<pinVars, pki_state, pkiFile, keyVars, stopVars, answer,
                 server, mishaps, losses, closed, grantVars>>

(* A result for another session stops the current session's poller. *)
Stray(s) == mishaps' = IF active /\ session # s THEN mishaps \cup {"stray"} ELSE mishaps

AcknowledgeHandshake ==
  /\ at["ble"] = "ack"
  /\ Stray(task.session)
  /\ active' = IF session = task.session THEN FALSE ELSE active
  /\ status' = IF session = task.session THEN "HANDSHAKE_ACK" ELSE status
  /\ Goto("ble", "stop")
  /\ UNCHANGED <<session, pkiVars, keyVars, task, stopVars, answer, server,
                 losses, acked, closed, grantVars>>

SendReply ==
  /\ at["ble"] = "reply"
  /\ task' = Idle
  /\ Goto("ble", "idle")
  /\ UNCHANGED <<pinVars, pkiVars, keyVars, stopVars, answer, server,
                 historyVars>>

-----------------------------------------------------------------------------
(* The key store.  It is changed in memory first and then written in       *)
(* place: a write that fails leaves the file as it was or cut short.       *)

Flushed(new) ==
  /\ keys' = new
  /\ keysFile' = new
  /\ UNCHANGED losses

FlushFails(new) ==
  /\ keys' = new
  /\ keysFile' \in {keysFile, None}
  /\ losses' = losses \cup {"unwritten"}

(* Mutant: an empty answer of the server is taken over as well. *)
ServerListsAny == SUBSET Keys

(* What sync_keys_from_server takes over: any list that is not empty. *)
ServerLists == (SUBSET Keys) \ {{}}

sync_keys_from_server ==
  \/ UNCHANGED <<keys, keysFile, losses>>
  \/ \E list \in ServerLists : Flushed(list) \/ FlushFails(list)

(* handle_pairing_key_storage: an error is answered if the key cannot be   *)
(* stored; ...                                                             *)
handle_pairing_key_storage(s) ==
  /\ at["ble"] = "idle"
  /\ \E k \in Keys :
       \/ /\ Flushed(keys \cup {k})
          /\ task' = Task("store", s)
          /\ Goto("ble", "kept")
       \/ /\ FlushFails(keys \cup {k})
          /\ UNCHANGED <<task, at>>
  /\ UNCHANGED <<pinVars, pkiVars, flag, stopVars, answer, server, mishaps,
                 acked, closed, grantVars>>

(* ... otherwise the session ends and disable_pairing_flag follows, whose  *)
(* failure is passed over in silence, ...                                  *)
KeyStored ==
  /\ at["ble"] = "kept"
  /\ active' = IF session = task.session THEN FALSE ELSE active
  /\ status' = IF session = task.session THEN "KEY_STORED" ELSE status
  /\ Stray(task.session)
  /\ \/ flag' = FALSE /\ UNCHANGED losses
     \/ flag /\ UNCHANGED flag /\ losses' = losses \cup {"unwritten"}
  /\ closed' = TRUE
  /\ Goto("ble", "stop")
  /\ UNCHANGED <<session, pkiVars, keys, keysFile, task, stopVars, answer,
                 server, acked, grantVars>>

(* ... and the server's list, the poller being stopped, is fetched. *)
SyncStoredKey ==
  /\ at["ble"] = "sync"
  /\ sync_keys_from_server
  /\ task' = Idle
  /\ Goto("ble", "idle")
  /\ UNCHANGED <<pinVars, pkiVars, flag, stopVars, answer, server, mishaps,
                 acked, closed, grantVars>>

(* A vehicle command with an unknown key. *)
SyncOnMiss ==
  /\ at["ble"] = "idle"
  /\ sync_keys_from_server
  /\ UNCHANGED <<pinVars, pkiVars, flag, at, task, stopVars, answer, server,
                 mishaps, acked, closed, grantVars>>

-----------------------------------------------------------------------------
(* The commands of the PKI protocol, with which the phone brings or        *)
(* recovers a session key.  None of them asks for a PIN.                   *)

(* A certificate that names a key registers it; a failure is passed over.  *)
RegisterKey ==
  \/ UNCHANGED <<keys, keysFile, losses>>
  \/ \E k \in Keys : Flushed(keys \cup {k}) \/ FlushFails(keys \cup {k})

(* seed_pki_session: the phone sends the session key itself. *)
seed_pki_session(s) ==
  /\ at["ble"] = "idle"
  /\ task' = [op |-> "seed", session |-> s, entry |-> "signed"]
  /\ Goto("ble", "install")
  /\ UNCHANGED <<pinVars, pkiVars, keyVars, stopVars, answer, server, historyVars>>

(* begin_pki_handshake for a session with a key (for another one nothing   *)
(* of this is touched): the entry is looked up and then put back.          *)
begin_pki_handshake(s) ==
  /\ at["ble"] = "idle"
  /\ pki[s] # "none"
  /\ task' = [op |-> "begin", session |-> s, entry |-> pki[s]]
  /\ Goto("ble", "install")
  /\ UNCHANGED <<pinVars, pkiVars, keyVars, stopVars, answer, server, historyVars>>

InstallKey ==
  /\ at["ble"] = "install"
  /\ pki_state' = task.session
  /\ pki' = [pki EXCEPT ![task.session] = task.entry]
  /\ seeded' = (seeded \/ task.op = "seed")
  /\ granted' = IF task.op = "begin" THEN granted ELSE granted \cup {task.session}
  /\ acked' = IF task.op = "begin" /\ acked # None /\ acked.session = task.session
              THEN acked ELSE None
  /\ Goto("ble", "export")
  /\ UNCHANGED <<pinVars, pkiFile, keyVars, task, stopVars, answer, server,
                 mishaps, losses, closed>>

(* store_pki_certificate: registers the key and adds the certificate to    *)
(* the session's entry, if there is one.                                   *)
store_pki_certificate(s) ==
  /\ at["ble"] = "idle"
  /\ RegisterKey
  /\ IF pki[s] = "none"
     THEN UNCHANGED <<pki_state, task, at, acked>>
     ELSE /\ pki_state' = s
          /\ task' = Task("certificate", s)
          /\ acked' = IF acked # None /\ acked.session = s THEN acked ELSE None
          /\ Goto("ble", "export")
  /\ UNCHANGED <<pinVars, pki, pkiFile, flag, stopVars, answer, server,
                 mishaps, closed, grantVars>>

(* handle_pki_command: registers the key of its certificate and recovers   *)
(* the session's entry if there is none; then ...                          *)
handle_pki_command(s) ==
  /\ at["ble"] = "idle"
  /\ RegisterKey
  /\ task' = Task("command", s)
  /\ Goto("ble", IF pki[s] = "none" THEN "recover" ELSE "finalize")
  /\ UNCHANGED <<pinVars, pkiVars, flag, stopVars, answer, server, mishaps,
                 acked, closed, grantVars>>

(* Mutant: the recovery goes on without material of an earlier pairing. *)
RecoverableAlways == TRUE

(* recover_pki_session derives a key from the pairing token and nonce of   *)
(* the latest entry.  (_cached_pki_payload and the nonce of the PIN        *)
(* session are dropped with it: they are no source of their own.)          *)
Recoverable == pki_state # None

(* The recovered entry counts as signed if the one it comes from does, or  *)
(* the last export did: either is possible here.                           *)
recover_pki_session ==
  /\ at["ble"] = "recover"
  /\ \/ /\ Recoverable
        /\ \E entry \in {"derived", "signed"} :
             task' = [op |-> "recover", session |-> task.session, entry |-> entry]
        /\ Goto("ble", "install")
     \/ /\ task' = Idle
        /\ Goto("ble", "idle")
  /\ UNCHANGED <<pinVars, pkiVars, keyVars, stopVars, answer, server, historyVars>>

(* ... finalize_session_state: a valid signature is noted, in memory only. *)
FinalizeCommand ==
  /\ at["ble"] = "finalize"
  /\ \/ pki[task.session] # "none" /\ pki' = [pki EXCEPT ![task.session] = "signed"]
     \/ UNCHANGED pki
  /\ task' = Idle
  /\ Goto("ble", "idle")
  /\ UNCHANGED <<pinVars, pki_state, pkiFile, keyVars, stopVars, answer,
                 server, historyVars>>

PkiCallback(s) ==
  \/ seed_pki_session(s) \/ begin_pki_handshake(s)
  \/ store_pki_certificate(s) \/ handle_pki_command(s)

Callback ==
  \/ build_challenge \/ SyncOnMiss
  \/ \E s \in Sessions :
       handle_pairing_handshake(s) \/ handle_pairing_key_storage(s) \/ PkiCallback(s)

Continue ==
  \/ OpenSession \/ ExportState \/ ExportNothing \/ start_pin_status_poller
  \/ AcknowledgeHandshake \/ KeyStored \/ SyncStoredKey
  \/ InstallKey \/ recover_pki_session \/ FinalizeCommand
  \/ SendReply \/ Stop("ble")

-----------------------------------------------------------------------------
(* The world: the owner, the phone's user, the server, time, power.        *)

enable_pairing ==
  /\ flag' = TRUE
  /\ closed' = FALSE
  /\ UNCHANGED <<pinVars, pkiVars, keys, keysFile, at, task, stopVars, answer,
                 server, mishaps, losses, acked, grantVars>>

(* The user enters the PIN, wrongly too often, or cancels. *)
UserEntersPin(s) ==
  /\ server[s] = "pending"
  /\ \E result \in {"verified", "failed"} : server' = [server EXCEPT ![s] = result]
  /\ UNCHANGED <<pinVars, pkiVars, keyVars, at, task, stopVars, answer, historyVars>>

(* The program dies, perhaps while it writes one of the two files (it      *)
(* overwrites them in place), and starts again.                            *)
Writing ==
  {file \in {"session", "keys"} :
     \/ file = "session" /\ at["ble"] = "export" /\ pki_state # None
     \/ file = "keys" /\ at["ble"] \in {"idle", "sync"}}

(* Mutant: the flag of the exported PIN session is restored. *)
NoPinSessionActive == session' = None /\ status' = "NONE" /\ active' = active

NoPinSession == session' = None /\ status' = "NONE" /\ active' = FALSE

(* _load_from_disk and the synchronisation at start-up, without which (or  *)
(* if it cannot write) the program starts again.                           *)
LoadKeys(file) ==
  \/ keysFile' = file /\ keys' = IF file = None THEN {} ELSE file
  \/ \E list \in ServerLists : keysFile' = list /\ keys' = list

Restored(file) ==
  [s \in Sessions |-> IF file # None /\ file.session = s THEN file.entry ELSE "none"]

(* _load_cached_pki_session.  A session that came by a PKI command may     *)
(* lack a pairing token or a public key: its file is deleted; or its key   *)
(* has not the usual length: its file stays.                               *)
LoadSession(file) ==
  /\ pkiFile' = file
  /\ pki' = Restored(file)
  /\ pki_state' = IF file = None THEN None ELSE file.session

LoadNoSession(file) ==
  /\ file # None /\ file.session \in granted
  /\ pkiFile' \in {file, None}
  /\ pki' = Restored(None)
  /\ pki_state' = None

Restart ==
  /\ NoPinSession
  /\ \E torn \in SUBSET Writing :
       LET session_file == IF "session" \in torn THEN None ELSE pkiFile
           keys_file == IF "keys" \in torn THEN None ELSE keysFile
           found == losses \cup (IF "session" \in torn THEN {"torn"} ELSE {})
                           \cup (IF keys_file = None THEN {"lost"} ELSE {})
       IN /\ LoadKeys(keys_file)
          /\ \/ LoadSession(session_file) /\ losses' = found
             \/ LoadNoSession(session_file) /\ losses' = found \cup {"incomplete"}
  /\ acked' = IF task.op = "handshake" THEN None ELSE acked
  /\ at' = [t \in Threads |-> IF t = "ble" THEN "idle" ELSE "done"]
  /\ task' = Idle
  /\ victim' = [t \in Threads |-> None]
  /\ thread' = None
  /\ stopSet' = FALSE
  /\ answer' = [s \in Sessions |-> "none"]
  /\ UNCHANGED <<flag, server, mishaps, closed, grantVars>>

World ==
  \/ enable_pairing \/ Restart
  \/ \E s \in Sessions : UserEntersPin(s)

Next == Callback \/ Continue \/ World \/ \E s \in Sessions : Poller(s)

Spec == Init /\ [][Next]_vars

(* A callback that has begun and a poller run on, as threads do; a session *)
(* with an expiry time that is compared with the clock again and again     *)
(* expires.  The server need not ever answer, nor the user do anything.    *)
LiveSpec ==
  /\ Spec /\ WF_vars(Continue)
  /\ \A s \in Sessions : WF_vars(Poller(s))
  /\ \A s \in Expiring : SF_vars(PollExpired(s))

-----------------------------------------------------------------------------

Entries == {"none", "derived", "signed"}
Exported == [session : Sessions, entry : Entries \ {"none"}]

TypeOK ==
  /\ session \in Sessions \cup {None}
  /\ status \in {"NONE", "pending", "verified", "failed", "expired",
                "HANDSHAKE_ACK", "KEY_STORED"}
  /\ active \in BOOLEAN /\ (active => session # None)
  /\ pki \in [Sessions -> Entries]
  /\ pki_state \in Sessions \cup {None}
  /\ pkiFile \in Exported \cup {None}
  /\ keys \subseteq Keys /\ (keysFile = None \/ keysFile \subseteq Keys) /\ flag \in BOOLEAN
  /\ at \in [Threads -> Waiting \cup {"idle", "done", "check", "http", "update",
               "derive", "terminal", "cancel", "stop", "join", "forget", "fresh",
               "open", "export", "clear", "start", "ack", "reply", "kept", "sync",
               "install", "recover", "finalize"}]
  /\ thread \in Sessions \cup {None}
  /\ stopSet \in BOOLEAN
  /\ server \in [Sessions -> {"unused", "pending", "verified", "failed"}]

(* A session that is waiting for its PIN is watched: between callbacks its *)
(* poller is alive and nobody has told it to stop.  This is what stopping  *)
(* and starting pollers without a lock around them must guarantee, and it  *)
(* does as long as a stop really waits for the poller's end, the server    *)
(* sends what a verified PIN needs and no late result of another session   *)
(* comes in.                                                               *)
Watched(s) ==
  at[s] \in {"deaf", "check", "http", "update", "derive", "terminal"}
    \/ (at[s] = "wait" /\ ~stopSet)

ActiveIsWatched ==
  mishaps = {} /\ at["ble"] = "idle" /\ active => Watched(session)

(* What the phone was told of its handshake stays true until another key   *)
(* is installed or exported: the key it shares with the car is there and   *)
(* as far as it was acknowledged, also after a crash and restart, unless   *)
(* its file could not be written, was cut short or lacks what a restart    *)
(* needs.                                                                  *)
AcknowledgedSurvives ==
  losses = {} /\ at["ble"] = "idle" /\ acked # None =>
    /\ pki[acked.session] # "none"
    /\ acked.entry = "signed" => pki[acked.session] = "signed"

(* Where a session key comes from, in memory and on disk: the server has   *)
(* seen the right PIN for this very session, or a command of the phone     *)
(* brought or recovered the key of this very session; and what was         *)
(* recovered goes back to a session of the first kind or to a key the      *)
(* phone sent.  A poller that outlives its session must not mix them up.   *)
HasKey(s) == pki[s] # "none" \/ (pkiFile # None /\ pkiFile.session = s)

KeyHasOrigin ==
  /\ \A s \in Sessions : HasKey(s) => server[s] = "verified" \/ s \in granted
  /\ granted # {} => seeded \/ \E s \in Sessions : server[s] = "verified"

(* Once a pairing has stored its key, pairing stays closed to other phones *)
(* until the owner opens it again: whatever the server answers later, also *)
(* after writes that failed and after restarts, unless a restart found the *)
(* key store unreadable or the flag could not be removed.                  *)
PairingStaysClosed ==
  closed => /\ keys # {} \/ "lost" \in losses
            /\ ~flag \/ "unwritten" \in losses

(* A session that has an expiry time does not wait for its PIN for ever,   *)
(* unless the same mishaps left it without a poller.                       *)
ActiveEnds ==
  \A s \in Expiring :
    [](mishaps = {}) =>
      (session = s /\ active ~> ~(session = s /\ active))

=============================================================================
