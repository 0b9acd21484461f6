----------------------------- MODULE PairingProofs ----------------------------
(* Type correctness of the pairing, where every session key comes from, and*)
(* that pairing stays closed once a key is stored, for any number of       *)
(* sessions, keys, mishaps and losses; without mishaps, that a session is  *)
(* watched while it waits for its PIN; and, without losses, that what was  *)
(* acknowledged is kept.                                                   *)
EXTENDS Pairing, TLAPS

BlePlaces ==
  {"idle", "stop", "join", "forget", "fresh", "open", "export", "clear", "start",
   "ack", "reply", "kept", "sync", "install", "recover", "finalize"}

StopPlaces == {"stop", "join", "forget", "fresh"}

PollPlaces ==
  Waiting \cup {"done", "check", "http", "update", "derive", "terminal", "cancel",
                "stop", "join", "forget", "fresh"}

(* What the callback at a place can be. *)
PkiOps == {"seed", "begin", "certificate", "command", "recover"}

MayBeAt(op, place) ==
  \/ place \in StopPlaces /\ op \in {"challenge", "handshake", "store"}
  \/ place \in {"open", "start"} /\ op = "challenge"
  \/ place \in {"export", "clear"}
       /\ op \in {"challenge", "handshake", "seed", "begin", "certificate", "recover"}
  \/ place = "ack" /\ op = "handshake"
  \/ place = "reply" /\ op \in {"handshake", "seed", "begin", "certificate"}
  \/ place \in {"kept", "sync"} /\ op = "store"
  \/ place = "install" /\ op \in {"seed", "begin", "recover"}
  \/ place = "recover" /\ op = "command"
  \/ place = "finalize" /\ op \in {"command", "recover"}

(* The strengthening of the type invariant, in parts: types and places, *)
Types ==
  /\ session \in Sessions \cup {None}
  /\ status \in {"NONE", "pending", "verified", "failed", "expired",
                "HANDSHAKE_ACK", "KEY_STORED"}
  /\ active \in BOOLEAN /\ (active => session # None)
  /\ pki \in [Sessions -> Entries]
  /\ pki_state \in Sessions \cup {None}
  /\ pkiFile \in Exported \cup {None}
  /\ keys \subseteq Keys /\ (keysFile = None \/ keysFile \subseteq Keys) /\ flag \in BOOLEAN
  /\ thread \in Sessions \cup {None}
  /\ stopSet \in BOOLEAN
  /\ server \in [Sessions -> {"unused", "pending", "verified", "failed"}]

Places ==
  /\ at \in [Threads -> BlePlaces \cup PollPlaces]
  /\ at["ble"] \in BlePlaces
  /\ \A s \in Sessions : at[s] \in PollPlaces
  /\ \A s \in Sessions : at[s] # "done" => server[s] # "unused"

(* the callback that runs is one that gets to this place, and the server   *)
(* knows the session that a challenge opens,                               *)
TaskSound ==
  at["ble"] # "idle" =>
    /\ MayBeAt(task.op, at["ble"])
    /\ task.session \in Sessions
    /\ task.op = "challenge" => server[task.session] # "unused"

(* a poller acts upon a status that the server has given, *)
AnswerSound ==
  /\ answer \in [Sessions -> {"none", "unused", "pending", "verified", "failed", "expired"}]
  /\ \A s \in Sessions :
       /\ at[s] = "update" => answer[s] \in {"pending", "verified", "failed"}
       /\ at[s] = "terminal" => answer[s] \in {"failed", "expired"}
       /\ answer[s] = "verified" => server[s] = "verified"
       /\ at[s] = "derive" => server[s] = "verified"

(* the exported session has a key: the key of pki_state is there as soon   *)
(* as any is, and one is there while a handshake is acknowledged,          *)
ExportSound ==
  /\ pki_state # None /\ (\E s \in Sessions : pki[s] # "none")
       => pki[pki_state] # "none"
  /\ at["ble"] = "export" /\ pki_state # None => pki[pki_state] # "none"
  /\ at["ble"] \in StopPlaces \cup {"ack"} /\ task.op = "handshake"
       => pki[task.session] # "none"

(* every key has its origin, the one of pki_state too when its session is  *)
(* no longer known,                                                        *)
Sourced == seeded \/ \E s \in Sessions : server[s] = "verified"

OriginSound ==
  /\ \A s \in Sessions : HasKey(s) => server[s] = "verified" \/ s \in granted
  /\ pki_state # None \/ granted # {} => Sourced

(* and so has the key that is about to be installed.                       *)
InstallSound ==
  at["ble"] = "install" =>
    /\ task.entry \in {"derived", "signed"}
    /\ task.op = "begin" => server[task.session] = "verified" \/ task.session \in granted
    /\ task.op = "recover" => Sourced

PairInv ==
  /\ Types /\ Places /\ TaskSound /\ AnswerSound /\ ExportSound
  /\ OriginSound /\ InstallSound

LEMMA InitPairInv == Init => PairInv
<1> SUFFICES ASSUME Init PROVE PairInv
  OBVIOUS
<1>1. Types
  BY DEF Init, Types, Entries
<1>2. at["ble"] = "idle" /\ \A s \in Sessions : at[s] = "done"
  BY BleAssumption DEF Init, Threads
<1>3. Places
  BY <1>2 DEF Init, Places, BlePlaces, PollPlaces, Threads
<1>4. AnswerSound
  BY <1>2 DEF Init, AnswerSound
<1>5. TaskSound /\ ExportSound /\ InstallSound
  BY <1>2 DEF Init, TaskSound, ExportSound, StopPlaces, InstallSound
<1>6. OriginSound
  BY DEF Init, OriginSound, HasKey
<1>7. QED
  BY <1>1, <1>3, <1>4, <1>5, <1>6 DEF PairInv

-----------------------------------------------------------------------------

(* What a step leaves alone that only moves threads.                       *)
Still == UNCHANGED <<session, status, active, pki, pki_state, pkiFile, keys, keysFile,
                     flag, server, seeded, granted>>


(* A thread goes to another place, with or without a new stop event, which *)
(* changes nothing but the places of who waits on the old one.             *)
Moved(t, place) ==
  \/ at' = [at EXCEPT ![t] = place]
  \/ at' = [Replaced(at) EXCEPT ![t] = place]

LEMMA MovedPlaces ==
  ASSUME Places, NEW t \in Threads, NEW place \in BlePlaces \cup PollPlaces,
         Moved(t, place),
         t = "ble" => place \in BlePlaces, t # "ble" => place \in PollPlaces,
         t # "ble" /\ place # "done" => server'[t] # "unused",
         \A s \in Sessions : server[s] # "unused" => server'[s] # "unused"
  PROVE  /\ Places'
         /\ at'[t] = place
         /\ \A r \in Threads : r # t =>
              \/ at'[r] = at[r]
              \/ at[r] = "wait" /\ at'[r] \in {"told", "deaf"}
<1>1. {"told", "deaf"} \subseteq PollPlaces
  BY DEF PollPlaces, Waiting
<1>2. /\ at'[t] = place
      /\ \A r \in Threads : r # t =>
           \/ at'[r] = at[r]
           \/ at[r] = "wait" /\ at'[r] \in {"told", "deaf"}
      /\ at' \in [Threads -> BlePlaces \cup PollPlaces]
  <2>1. CASE at' = [at EXCEPT ![t] = place]
    BY <2>1 DEF Places
  <2>2. CASE at' = [Replaced(at) EXCEPT ![t] = place]
    <3>1. Replaced(at) \in [Threads -> BlePlaces \cup PollPlaces]
      BY <1>1 DEF Places, Replaced
    <3>2. \A r \in Threads : \/ Replaced(at)[r] = at[r]
                             \/ at[r] = "wait" /\ Replaced(at)[r] \in {"told", "deaf"}
      BY DEF Replaced
    <3>3. QED
      BY <2>2, <3>1, <3>2
  <2>3. QED
    BY <2>1, <2>2 DEF Moved
<1>3. at'["ble"] \in BlePlaces
  <2>1. "ble" \in Threads /\ at["ble"] # "wait"
    BY DEF Threads, Places, BlePlaces
  <2>2. QED
    BY <1>2, <2>1 DEF Places
<1>4. ASSUME NEW s \in Sessions
      PROVE  at'[s] \in PollPlaces /\ (at'[s] # "done" => server'[s] # "unused")
  <2>1. s \in Threads /\ s # "ble"
    BY BleAssumption DEF Threads
  <2>2. QED
    BY <1>1, <1>2, <2>1 DEF Places
<1>5. QED
  BY <1>2, <1>3, <1>4 DEF Places

LEMMA StillTypes ==
  ASSUME Types, Still, thread' \in Sessions \cup {None}, stopSet' \in BOOLEAN
  PROVE  Types'
  BY DEF Types, Still, Exported

(* A poller goes from place to place, and no key changes.                  *)
(* A poller goes from place to place, and no key changes.                  *)
LEMMA PollerMoves ==
  ASSUME PairInv, Types', NEW s \in Sessions, NEW place \in PollPlaces,
         Moved(s, place), task' = task, at[s] # "done",
         UNCHANGED <<pki, pki_state, pkiFile, seeded, granted>>,
         \A r \in Sessions : server'[r] = server[r]
           \/ (server[r] = "pending" /\ server'[r] = "failed"),
         answer' = answer \/ \E a \in {"none", server[s], "expired"} :
                               answer' = [answer EXCEPT ![s] = a],
         place = "update" => answer'[s] \in {"pending", "verified", "failed"},
         place = "terminal" => answer'[s] \in {"failed", "expired"},
         place = "derive" => server[s] = "verified"
  PROVE  PairInv'
<1> USE DEF PairInv
<1>1. s \in Threads /\ "ble" \in Threads /\ s # "ble"
      /\ (\A r \in Sessions : server[r] # "unused" => server'[r] # "unused")
  BY BleAssumption DEF Threads
<1>2. server[s] # "unused" /\ server'[s] # "unused"
  BY <1>1 DEF Places
<1>3. /\ Places' /\ at'[s] = place
      /\ \A r \in Threads : r # s =>
           \/ at'[r] = at[r]
           \/ at[r] = "wait" /\ at'[r] \in {"told", "deaf"}
  BY <1>1, <1>2, MovedPlaces
<1>4. at'["ble"] = at["ble"]
  BY <1>1, <1>3 DEF Places, BlePlaces
<1>5. TaskSound'
  BY <1>1, <1>4 DEF TaskSound
<1>6. ExportSound'
  BY <1>4 DEF ExportSound
<1>7. \A r \in Sessions : server[r] = "verified" => server'[r] = "verified"
  OBVIOUS
<1>8. OriginSound' /\ InstallSound'
  BY <1>4, <1>7 DEF OriginSound, InstallSound, Sourced, HasKey, TaskSound, Types
<1>9. server[s] \in {"unused", "pending", "verified", "failed"}
  BY DEF Types
<1>10. /\ answer' \in [Sessions -> {"none", "unused", "pending", "verified", "failed", "expired"}]
       /\ \A r \in Sessions : r # s => answer'[r] = answer[r]
       /\ answer'[s] = "verified" => server[s] = "verified"
  BY <1>9 DEF AnswerSound
<1>11. AnswerSound'
  BY <1>1, <1>3, <1>7, <1>10 DEF AnswerSound, Threads
<1>12. QED
  BY <1>3, <1>5, <1>6, <1>8, <1>11

(* A poller goes from place to place, and nothing else changes.            *)
LEMMA PollerGoes ==
  ASSUME PairInv, Still, NEW s \in Sessions, NEW place \in PollPlaces,
         Moved(s, place), task' = task,
         stopSet' \in BOOLEAN, thread' \in Sessions \cup {None},
         at[s] # "done",
         answer' = answer \/ \E a \in {"none", server[s], "expired"} :
                               answer' = [answer EXCEPT ![s] = a],
         place = "update" => answer'[s] \in {"pending", "verified", "failed"},
         place = "terminal" => answer'[s] \in {"failed", "expired"},
         place = "derive" => server[s] = "verified"
  PROVE  PairInv'
<1>1. Types'
  BY StillTypes DEF PairInv
<1>2. /\ UNCHANGED <<pki, pki_state, pkiFile, seeded, granted>>
      /\ \A r \in Sessions : server'[r] = server[r]
  BY DEF Still
<1>3. QED
  BY <1>1, <1>2, PollerMoves

(* A callback goes on, begins or ends: what it leaves the pollers, and the *)
(* place it gets to.                                                       *)
LEMMA BleGoes ==
  ASSUME PairInv, NEW place \in BlePlaces, Moved("ble", place), answer' = answer,
         \A s \in Sessions : server'[s] = server[s]
           \/ (server[s] = "unused" /\ server'[s] = "pending"),
         place # "idle" =>
           /\ MayBeAt(task'.op, place)
           /\ task'.session \in Sessions
           /\ task'.op = "challenge" => server'[task'.session] # "unused"
  PROVE  Places' /\ at'["ble"] = place /\ TaskSound' /\ AnswerSound'
<1> USE DEF PairInv
<1>1. "ble" \in Threads /\ \A s \in Sessions : server[s] # "unused" => server'[s] # "unused"
  BY DEF Threads
<1>2. /\ Places' /\ at'["ble"] = place
      /\ \A r \in Threads : r # "ble" =>
           \/ at'[r] = at[r]
           \/ at[r] = "wait" /\ at'[r] \in {"told", "deaf"}
  BY <1>1, MovedPlaces
<1>3. TaskSound'
  BY <1>2 DEF TaskSound
<1>4. AnswerSound'
  BY <1>2, BleAssumption DEF AnswerSound, Threads
<1>5. QED
  BY <1>2, <1>3, <1>4

(* A callback goes on, begins or ends, and no key changes.                 *)
LEMMA BleMoves ==
  ASSUME PairInv, Types', NEW place \in BlePlaces, Moved("ble", place),
         UNCHANGED <<pki, pki_state, pkiFile, answer, seeded, granted>>,
         \A s \in Sessions : server'[s] = server[s]
           \/ (server[s] = "unused" /\ server'[s] = "pending"),
         place # "idle" =>
           /\ MayBeAt(task'.op, place)
           /\ task'.session \in Sessions
           /\ task'.op = "challenge" => server'[task'.session] # "unused",
         place = "export" /\ pki_state # None => pki[pki_state] # "none",
         place \in StopPlaces \cup {"ack"} /\ task'.op = "handshake"
           => pki[task'.session] # "none",
         place = "install" =>
           /\ task'.entry \in {"derived", "signed"}
           /\ task'.op = "begin" => HasKey(task'.session)
           /\ task'.op = "recover" => Sourced
  PROVE  PairInv'
<1> USE DEF PairInv
<1>1. Places' /\ at'["ble"] = place /\ TaskSound' /\ AnswerSound'
  BY BleGoes
<1>2. ExportSound'
  BY <1>1 DEF ExportSound
<1>3. \A s \in Sessions : server[s] = "verified" => server'[s] = "verified"
  OBVIOUS
<1>4. OriginSound' /\ (Sourced => Sourced')
  BY <1>3 DEF OriginSound, Sourced, HasKey, Types
<1>5. InstallSound'
  BY <1>1, <1>3, <1>4 DEF InstallSound, OriginSound, BlePlaces
<1>6. QED
  BY <1>1, <1>2, <1>4, <1>5

-----------------------------------------------------------------------------
(* The stop of a poller.                                                   *)

LEMMA StopKeeps ==
  ASSUME PairInv, NEW t \in Threads, Stop(t)
  PROVE  PairInv'
<1> DEFINE end == AfterStop(t)
<1>1. /\ t # "ble" => t \in Sessions
      /\ at[t] \in StopPlaces
  BY DEF Threads, Stop, StopSet, StopJoin, StopForget, StopFresh, StopPlaces
<1>2. t # "ble" => end \in {"cancel", "done"}
  BY DEF AfterStop
<1>3. t = "ble" =>
        /\ task.op \in {"challenge", "handshake", "store"}
        /\ task.session \in Sessions
        /\ task.op = "challenge" => server[task.session] # "unused"
        /\ end \in {"open", "export", "sync"} /\ MayBeAt(task.op, end)
        /\ end = "export" /\ pki_state # None => pki[pki_state] # "none"
  <2> SUFFICES ASSUME t = "ble"
               PROVE  /\ task.op \in {"challenge", "handshake", "store"}
                      /\ task.session \in Sessions
                      /\ task.op = "challenge" => server[task.session] # "unused"
                      /\ end \in {"open", "export", "sync"} /\ MayBeAt(task.op, end)
                      /\ end = "export" /\ pki_state # None
                           => pki[pki_state] # "none"
    OBVIOUS
  <2>1. /\ task.op \in {"challenge", "handshake", "store"}
        /\ task.session \in Sessions
        /\ task.op = "challenge" => server[task.session] # "unused"
    BY <1>1 DEF PairInv, TaskSound, StopPlaces, MayBeAt
  <2>2. /\ task.op = "challenge" => end = "open"
        /\ task.op = "handshake" => end = "export"
        /\ task.op = "store" => end = "sync"
    BY DEF AfterStop
  <2>3. task.op = "handshake" => pki[task.session] # "none"
    BY <1>1 DEF PairInv, ExportSound
  <2>4. task.op = "handshake" /\ pki_state # None => pki[pki_state] # "none"
    BY <2>1, <2>3 DEF PairInv, ExportSound
  <2> HIDE DEF end
  <2>5. MayBeAt(task.op, end)
    BY <2>1, <2>2 DEF MayBeAt, StopPlaces
  <2>6. QED
    BY <2>1, <2>2, <2>4, <2>5
<1> HIDE DEF end
<1>4. ASSUME NEW place \in {"join", "forget", "fresh", end}, Moved(t, place),
             stopSet' \in BOOLEAN, thread' \in Sessions \cup {None},
             Still, answer' = answer, task' = task
      PROVE  PairInv'
  <2>1. CASE t = "ble"
    <3>1. place \in BlePlaces /\ place # "install"
      BY <1>3, <2>1 DEF BlePlaces
    <3>2. place = "export" /\ pki_state # None => pki[pki_state] # "none"
      BY <1>3, <2>1
    <3>3. place \in StopPlaces \cup {"ack"} /\ task.op = "handshake"
            => pki[task.session] # "none"
      BY <1>1, <2>1 DEF PairInv, ExportSound
    <3>4. /\ MayBeAt(task'.op, place)
          /\ task'.session \in Sessions
          /\ task'.op = "challenge" => server'[task'.session] # "unused"
      <4>1. place # end => place \in StopPlaces
        BY DEF StopPlaces
      <4>2. MayBeAt(task.op, place)
        BY <1>3, <2>1, <4>1 DEF MayBeAt
      <4>3. QED
        BY <1>3, <1>4, <2>1, <4>2 DEF Still
    <3>5. Types'
      BY <1>4, StillTypes DEF PairInv
    <3>6. UNCHANGED <<pki, pki_state, pkiFile, answer, server, seeded, granted>>
      BY <1>4 DEF Still
    <3>7. QED
      BY <1>4, <2>1, <3>1, <3>2, <3>3, <3>4, <3>5, <3>6, BleMoves
  <2>2. CASE t # "ble"
    <3>1. t \in Sessions /\ at[t] # "done"
      BY <1>1, <2>2 DEF StopPlaces
    <3>2. place \in PollPlaces /\ place \notin {"update", "terminal", "derive"}
      BY <1>2, <2>2 DEF PollPlaces
    <3>3. QED
      BY <1>4, <3>1, <3>2, PollerGoes
  <2>3. QED
    BY <2>1, <2>2
<1>5. stopSet \in BOOLEAN /\ thread \in Sessions \cup {None}
  BY DEF PairInv, Types
<1> USE DEF Still, Moved, Goto, pinVars, pkiVars, keyVars, stopVars, historyVars, grantVars
<1>6. CASE StopSet(t)
  <2>1. PICK place \in {"join", end} : Moved(t, place)
    BY <1>6 DEF StopSet, end
  <2>2. stopSet' \in BOOLEAN /\ thread' = thread
    BY <1>5, <1>6 DEF StopSet
  <2>3. Still /\ answer' = answer /\ task' = task
    BY <1>6 DEF StopSet
  <2>4. QED
    BY <1>4, <1>5, <2>1, <2>2, <2>3
<1>7. CASE StopJoin(t)
  <2>1. /\ Moved(t, "forget") /\ stopSet' = stopSet /\ thread' = thread
        /\ Still /\ answer' = answer /\ task' = task
    BY <1>7 DEF StopJoin
  <2>2. QED
    BY <1>4, <1>5, <2>1
<1>8. CASE StopForget(t)
  <2>1. /\ Moved(t, "fresh") /\ stopSet' = stopSet /\ thread' = None
        /\ Still /\ answer' = answer /\ task' = task
    BY <1>8 DEF StopForget
  <2>2. QED
    BY <1>4, <1>5, <2>1
<1>9. CASE StopFresh(t)
  <2>1. /\ Moved(t, end) /\ stopSet' = FALSE /\ thread' = thread
        /\ Still /\ answer' = answer /\ task' = task
    BY <1>9 DEF StopFresh, end
  <2>2. QED
    BY <1>4, <1>5, <2>1
<1>10. QED
  BY <1>6, <1>7, <1>8, <1>9 DEF Stop

-----------------------------------------------------------------------------
(* The pollers.                                                            *)

LEMMA PollerKeeps ==
  ASSUME PairInv, NEW s \in Sessions, Poller(s)
  PROVE  PairInv'
<1> USE DEF Still, Moved, Goto, pinVars, pkiVars, keyVars, stopVars, historyVars,
            grantVars
<1>1. stopSet \in BOOLEAN /\ thread \in Sessions \cup {None}
      /\ server[s] \in {"unused", "pending", "verified", "failed"}
  BY DEF PairInv, Types
<1>2. s \in Threads /\ s # "ble"
  BY BleAssumption DEF Threads
<1>3. ASSUME NEW place \in {"done", "check", "wait"}, Moved(s, place), Still,
             UNCHANGED <<task, thread, stopSet, answer>>, at[s] # "done"
      PROVE  PairInv'
  <2>1. place \in PollPlaces
    BY DEF PollPlaces, Waiting
  <2> HIDE DEF Still, Moved
  <2>2. QED
    BY <1>1, <1>3, <2>1, PollerGoes
<1>4. CASE PollStopped(s) \/ PollInterval(s)
  <2>1. PICK place \in {"done", "check"} : Moved(s, place)
    BY <1>4 DEF PollStopped, PollInterval
  <2>2. Still /\ UNCHANGED <<task, thread, stopSet, answer>> /\ at[s] # "done"
    BY <1>4 DEF PollStopped, PollInterval
  <2>3. QED
    BY <1>3, <2>1, <2>2
<1>5. CASE PollCheck(s)
  <2>1. PICK place \in {"done", "http"} : Moved(s, place)
    BY <1>5 DEF PollCheck
  <2>2. Still /\ UNCHANGED <<task, thread, stopSet, answer>> /\ at[s] # "done"
    BY <1>5 DEF PollCheck
  <2>3. place \in PollPlaces
    BY DEF PollPlaces
  <2> HIDE DEF Still, Moved
  <2>4. QED
    BY <1>1, <2>1, <2>2, <2>3, PollerGoes
<1>6. CASE PollExpired(s)
  <2>1. /\ Moved(s, "terminal") /\ Still /\ UNCHANGED <<task, thread, stopSet>>
        /\ at[s] # "done" /\ answer' = [answer EXCEPT ![s] = "expired"]
    BY <1>6 DEF PollExpired
  <2>2. "terminal" \in PollPlaces /\ answer'[s] = "expired"
    BY <2>1 DEF PollPlaces, PairInv, AnswerSound
  <2> HIDE DEF Still, Moved
  <2>3. QED
    BY <1>1, <2>1, <2>2, PollerGoes
<1>7. CASE PollAsk(s)
  <2>1. Still /\ UNCHANGED <<task, thread, stopSet>> /\ at[s] = "http"
    BY <1>7 DEF PollAsk
  <2>2. CASE answer' = [answer EXCEPT ![s] = server[s]] /\ Moved(s, "update")
    <3>1. answer'[s] = server[s] /\ "update" \in PollPlaces
      BY <2>2 DEF PollPlaces, PairInv, AnswerSound
    <3>2. server[s] \in {"pending", "verified", "failed"}
      BY <1>1, <2>1 DEF PairInv, Places
    <3> HIDE DEF Still, Moved
    <3>3. QED
      BY <1>1, <2>1, <2>2, <3>1, <3>2, PollerGoes
  <2>3. CASE Moved(s, "wait") /\ UNCHANGED answer
    BY <1>3, <2>1, <2>3
  <2>4. QED
    BY <1>7, <2>2, <2>3 DEF PollAsk
<1>8. CASE handle_pin_status_update(s)
  <2>1. at[s] = "update" /\ answer[s] \in {"pending", "verified", "failed"}
        /\ (answer[s] = "verified" => server[s] = "verified")
    BY <1>8 DEF handle_pin_status_update, PairInv, AnswerSound
  <2>2. PICK place \in {"derive", "terminal", "done", "wait"} :
           /\ Moved(s, place)
           /\ place = "terminal" => session = s /\ answer[s] = "failed"
           /\ place = "derive" => answer[s] = "verified"
    BY <1>8 DEF handle_pin_status_update
  <2>3. Types'
    BY <1>8, <2>1 DEF handle_pin_status_update, PairInv, Types, Exported
  <2>4. /\ UNCHANGED <<task, pki, pki_state, pkiFile, seeded, granted>>
        /\ \A r \in Sessions : server'[r] = server[r]
    BY <1>8 DEF handle_pin_status_update
  <2>5. \/ answer' = answer /\ answer[s] = "failed"
        \/ answer' = [answer EXCEPT ![s] = "none"]
           /\ ~(session = s /\ answer[s] = "failed")
    BY <1>8 DEF handle_pin_status_update, PairInv, AnswerSound
  <2>6. place = "terminal" => answer'[s] \in {"failed", "expired"}
    BY <2>2, <2>5
  <2>7. place \in PollPlaces
    BY DEF PollPlaces, Waiting
  <2> HIDE DEF Moved
  <2>8. QED
    BY <2>1, <2>2, <2>3, <2>4, <2>5, <2>6, <2>7, PollerMoves
<1>9. CASE handle_pin_verified(s)
  <2>1. /\ at[s] = "derive" /\ server[s] = "verified"
        /\ pki_state' = s /\ pki' = [pki EXCEPT ![s] = "derived"]
        /\ at' = [at EXCEPT ![s] = "stop"]
        /\ UNCHANGED <<pkiFile, task, answer, server, seeded, granted>>
    BY <1>9 DEF handle_pin_verified, PairInv, AnswerSound
  <2>2. Types'
    BY <1>9, <2>1 DEF handle_pin_verified, PairInv, Types, Exported, Entries
  <2>3. /\ pki'[s] = "derived"
        /\ \A r \in Sessions : r # s => pki'[r] = pki[r]
    BY <2>1 DEF PairInv, Types
  <2>4. /\ Places' /\ at'[s] = "stop"
        /\ \A r \in Threads : r # s => at'[r] = at[r]
    <3>1. "stop" \in PollPlaces /\ Moved(s, "stop")
      BY <2>1 DEF PollPlaces
    <3>2. server'[s] # "unused"
      BY <2>1
    <3> HIDE DEF Moved
    <3>3. Places' /\ at'[s] = "stop"
      BY <1>2, <2>1, <3>1, <3>2, MovedPlaces DEF PairInv
    <3>4. QED
      BY <2>1, <3>3 DEF PairInv, Places
  <2>5. at'["ble"] = at["ble"]
    BY <1>2, <2>4 DEF Threads
  <2>6. TaskSound'
    BY <2>1, <2>5 DEF PairInv, TaskSound
  <2>7. AnswerSound'
    BY <2>1, <2>4, BleAssumption DEF PairInv, AnswerSound, Threads
  <2>8. ExportSound'
    <3>1. pki'[pki_state'] # "none"
      BY <2>1, <2>3
    <3>2. at["ble"] \in StopPlaces \cup {"ack"} => task.session \in Sessions
      BY DEF PairInv, TaskSound, StopPlaces
    <3>3. at["ble"] \in StopPlaces \cup {"ack"} /\ task.op = "handshake"
            => pki'[task.session] # "none"
      BY <2>3, <3>2 DEF PairInv, ExportSound
    <3>4. QED
      BY <2>1, <2>5, <3>1, <3>3 DEF ExportSound
  <2>9. OriginSound' /\ InstallSound'
    BY <2>1, <2>3, <2>5
       DEF PairInv, OriginSound, InstallSound, Sourced, HasKey, TaskSound
  <2>10. QED
    BY <2>2, <2>4, <2>6, <2>7, <2>8, <2>9 DEF PairInv
<1>10. CASE PinVerifiedUnusable(s)
  <2>1. /\ Moved(s, "done") /\ Still /\ UNCHANGED <<task, thread, stopSet, answer>>
        /\ at[s] # "done"
    BY <1>10 DEF PinVerifiedUnusable
  <2>2. QED
    BY <1>3, <2>1
<1>11. CASE handle_pin_terminal(s)
  <2>1. at[s] = "terminal" /\ answer[s] \in {"failed", "expired"}
    BY <1>11 DEF handle_pin_terminal, PairInv, AnswerSound
  <2>2. PICK place \in {"stop", "done"} : Moved(s, place)
    BY <1>11 DEF handle_pin_terminal
  <2>3. Types'
    BY <1>11, <2>1 DEF handle_pin_terminal, PairInv, Types, Exported
  <2>4. /\ UNCHANGED <<task, pki, pki_state, pkiFile, answer, seeded, granted>>
        /\ \A r \in Sessions : server'[r] = server[r]
    BY <1>11 DEF handle_pin_terminal
  <2>5. place \in PollPlaces
    BY DEF PollPlaces
  <2> HIDE DEF Moved
  <2>6. QED
    BY <2>1, <2>2, <2>3, <2>4, <2>5, PollerMoves
<1>12. CASE cancel_remote_session(s)
  <2>1. /\ at[s] = "cancel" /\ Moved(s, "done")
        /\ UNCHANGED <<task, pki, pki_state, pkiFile, answer, seeded, granted>>
    BY <1>12 DEF cancel_remote_session
  <2>2. Types'
    BY <1>12 DEF cancel_remote_session, PairInv, Types, Exported
  <2>3. \A r \in Sessions : server'[r] = server[r]
           \/ (server[r] = "pending" /\ server'[r] = "failed")
    BY <1>12 DEF cancel_remote_session, PairInv, Types
  <2>4. "done" \in PollPlaces
    BY DEF PollPlaces
  <2> HIDE DEF Moved
  <2>5. QED
    BY <2>1, <2>2, <2>3, <2>4, PollerMoves
<1>13. CASE Stop(s)
  BY <1>2, <1>13, StopKeeps
<1>14. QED
  BY <1>4, <1>5, <1>6, <1>7, <1>8, <1>9, <1>10, <1>11, <1>12, <1>13 DEF Poller

-----------------------------------------------------------------------------
(* The callbacks of the BLE thread.                                        *)

KeyRegistered == \E k \in Keys : Flushed(keys \cup {k}) \/ FlushFails(keys \cup {k})

LEMMA StoreTypes ==
  ASSUME Types, sync_keys_from_server \/ RegisterKey \/ KeyRegistered
  PROVE  keys' \subseteq Keys /\ (keysFile' = None \/ keysFile' \subseteq Keys)
<1>1. ASSUME NEW new \in SUBSET Keys, Flushed(new) \/ FlushFails(new)
      PROVE  keys' \subseteq Keys /\ (keysFile' = None \/ keysFile' \subseteq Keys)
  BY <1>1 DEF Flushed, FlushFails, Types
<1>2. CASE UNCHANGED <<keys, keysFile>>
  BY <1>2 DEF Types
<1>3. CASE \E list \in ServerLists : Flushed(list) \/ FlushFails(list)
  BY <1>1, <1>3 DEF ServerLists
<1>4. CASE KeyRegistered
  <2>1. PICK k \in Keys : Flushed(keys \cup {k}) \/ FlushFails(keys \cup {k})
    BY <1>4 DEF KeyRegistered
  <2>2. keys \cup {k} \subseteq Keys
    BY DEF Types
  <2>3. QED
    BY <1>1, <2>1, <2>2
<1>5. QED
  BY <1>2, <1>3, <1>4 DEF sync_keys_from_server, RegisterKey, KeyRegistered

LEMMA CallbackKeeps ==
  ASSUME PairInv, Callback
  PROVE  PairInv'
<1> USE DEF pinVars, pkiVars, keyVars, stopVars, historyVars, grantVars, Goto
<1>1. CASE build_challenge
  <2>1. PICK s \in Sessions :
           /\ server[s] = "unused" /\ server' = [server EXCEPT ![s] = "pending"]
           /\ task' = Task("challenge", s)
    BY <1>1 DEF build_challenge
  <2>2. /\ at' = [at EXCEPT !["ble"] = "stop"]
        /\ UNCHANGED <<session, status, active, pki, pki_state, pkiFile, keys, keysFile,
                       flag, thread, stopSet, answer, seeded, granted>>
    BY <1>1 DEF build_challenge
  <2>3. Types'
    BY <2>1, <2>2 DEF PairInv, Types, Exported
  <2>4. \A r \in Sessions : server'[r] = server[r]
           \/ (server[r] = "unused" /\ server'[r] = "pending")
    BY <2>1 DEF PairInv, Types
  <2>5. /\ task'.op = "challenge" /\ task'.session = s
        /\ server'[task'.session] # "unused"
    BY <2>1 DEF PairInv, Types, Task
  <2>6. Moved("ble", "stop") /\ "stop" \in BlePlaces /\ MayBeAt("challenge", "stop")
    BY <2>2 DEF Moved, BlePlaces, MayBeAt, StopPlaces
  <2>7. QED
    BY <2>2, <2>3, <2>4, <2>5, <2>6, BleMoves
<1>2. CASE SyncOnMiss
  <2>1. keys' \subseteq Keys /\ (keysFile' = None \/ keysFile' \subseteq Keys)
    BY <1>2, StoreTypes DEF SyncOnMiss, PairInv
  <2>2. UNCHANGED <<session, status, active, flag, thread, stopSet, at, task, pki,
                    pki_state, pkiFile, answer, server, seeded, granted>>
    BY <1>2 DEF SyncOnMiss
  <2>3. Types'
    BY <2>1, <2>2 DEF PairInv, Types, Exported
  <2>4. Places' /\ TaskSound' /\ AnswerSound' /\ ExportSound'
    BY <2>2 DEF PairInv, Places, TaskSound, AnswerSound, ExportSound
  <2>5. OriginSound' /\ InstallSound'
    BY <2>2 DEF PairInv, OriginSound, InstallSound, Sourced, HasKey
  <2>6. QED
    BY <2>3, <2>4, <2>5 DEF PairInv
<1>3. ASSUME NEW s \in Sessions, handle_pairing_handshake(s)
      PROVE  PairInv'
  <2>1. /\ at["ble"] = "idle" /\ pki[s] # "none"
        /\ task' = Task("handshake", s)
        /\ at' = [at EXCEPT !["ble"] = "ack"]
        /\ pki' = [pki EXCEPT ![s] = "signed"] \/ pki' = pki
        /\ UNCHANGED <<session, status, active, pki_state, pkiFile, keys, keysFile, flag,
                       thread, stopSet, answer, server, seeded, granted>>
    BY <1>3 DEF handle_pairing_handshake
  <2>2. Types'
    BY <2>1 DEF PairInv, Types, Exported, Entries
  <2>3. \A r \in Sessions : pki'[r] # "none" <=> pki[r] # "none"
    BY <2>1 DEF PairInv, Types
  <2>4. task'.op = "handshake" /\ task'.session = s
    BY <2>1 DEF Task
  <2>5. Moved("ble", "ack") /\ "ack" \in BlePlaces /\ MayBeAt("handshake", "ack")
    BY <2>1 DEF Moved, BlePlaces, MayBeAt
  <2>6. Places' /\ at'["ble"] = "ack" /\ TaskSound' /\ AnswerSound'
    BY <2>1, <2>4, <2>5, BleGoes
  <2>7. ExportSound'
    BY <2>1, <2>3, <2>4, <2>6 DEF PairInv, ExportSound, Types
  <2>8. OriginSound' /\ InstallSound'
    BY <2>1, <2>3, <2>6 DEF PairInv, OriginSound, InstallSound, Sourced, HasKey
  <2>9. QED
    BY <2>2, <2>6, <2>7, <2>8 DEF PairInv
<1>4. ASSUME NEW s \in Sessions, handle_pairing_key_storage(s)
      PROVE  PairInv'
  <2>1. UNCHANGED <<session, status, active, flag, pki, pki_state, pkiFile, thread,
                    stopSet, answer, server, seeded, granted>>
    BY <1>4 DEF handle_pairing_key_storage
  <2>2. KeyRegistered
    BY <1>4 DEF handle_pairing_key_storage, KeyRegistered
  <2>3. Types'
    BY <2>1, <2>2, StoreTypes DEF PairInv, Types, Exported
  <2>4. CASE task' = Task("store", s) /\ at' = [at EXCEPT !["ble"] = "kept"]
    <3>1. Moved("ble", "kept") /\ "kept" \in BlePlaces /\ "kept" \notin StopPlaces
          /\ MayBeAt("store", "kept")
      BY <2>4 DEF Moved, BlePlaces, MayBeAt, StopPlaces
    <3>2. task'.op = "store" /\ task'.session = s
      BY <2>4 DEF Task
    <3>3. QED
      BY <2>1, <2>3, <3>1, <3>2, BleMoves
  <2>5. CASE UNCHANGED <<task, at>>
    <3>1. Places' /\ TaskSound' /\ AnswerSound' /\ ExportSound'
      BY <2>1, <2>5 DEF PairInv, Places, TaskSound, AnswerSound, ExportSound
    <3>2. OriginSound' /\ InstallSound'
      BY <2>1, <2>5 DEF PairInv, OriginSound, InstallSound, Sourced, HasKey
    <3>3. QED
      BY <2>3, <3>1, <3>2 DEF PairInv
  <2>6. QED
    BY <1>4, <2>4, <2>5 DEF handle_pairing_key_storage
<1>5. ASSUME NEW s \in Sessions, seed_pki_session(s)
      PROVE  PairInv'
  <2>1. /\ task' = [op |-> "seed", session |-> s, entry |-> "signed"]
        /\ at' = [at EXCEPT !["ble"] = "install"]
        /\ UNCHANGED <<session, status, active, pki, pki_state, pkiFile, keys, keysFile,
                       flag, thread, stopSet, answer, server, seeded, granted>>
    BY <1>5 DEF seed_pki_session
  <2>2. task'.op = "seed" /\ task'.session = s /\ task'.entry = "signed"
    BY <2>1
  <2>3. Moved("ble", "install") /\ "install" \in BlePlaces \ StopPlaces
        /\ MayBeAt("seed", "install")
    BY <2>1 DEF Moved, BlePlaces, MayBeAt, StopPlaces
  <2>4. Types'
    BY <2>1 DEF PairInv, Types, Exported
  <2>5. QED
    BY <2>1, <2>2, <2>3, <2>4, BleMoves
<1>6. ASSUME NEW s \in Sessions, begin_pki_handshake(s)
      PROVE  PairInv'
  <2>1. /\ pki[s] # "none"
        /\ task' = [op |-> "begin", session |-> s, entry |-> pki[s]]
        /\ at' = [at EXCEPT !["ble"] = "install"]
        /\ UNCHANGED <<session, status, active, pki, pki_state, pkiFile, keys, keysFile,
                       flag, thread, stopSet, answer, server, seeded, granted>>
    BY <1>6 DEF begin_pki_handshake
  <2>2. /\ task'.op = "begin" /\ task'.session = s
        /\ task'.entry \in {"derived", "signed"}
    BY <2>1 DEF PairInv, Types, Entries
  <2>3. Moved("ble", "install") /\ "install" \in BlePlaces \ StopPlaces
        /\ MayBeAt("begin", "install") /\ HasKey(s)
    BY <2>1 DEF Moved, BlePlaces, MayBeAt, StopPlaces, HasKey
  <2>4. Types'
    BY <2>1 DEF PairInv, Types, Exported
  <2>5. QED
    BY <2>1, <2>2, <2>3, <2>4, BleMoves
<1>7. ASSUME NEW s \in Sessions, store_pki_certificate(s)
      PROVE  PairInv'
  <2>1. /\ UNCHANGED <<session, status, active, flag, pki, pkiFile, thread,
                       stopSet, answer, server, seeded, granted>>
        /\ keys' \subseteq Keys /\ (keysFile' = None \/ keysFile' \subseteq Keys)
    BY <1>7, StoreTypes DEF store_pki_certificate, PairInv
  <2>2. CASE pki[s] = "none"
    <3>1. UNCHANGED <<pki_state, task, at>>
      BY <1>7, <2>2 DEF store_pki_certificate
    <3>2. Types'
      BY <2>1, <3>1 DEF PairInv, Types, Exported
    <3>3. Places' /\ TaskSound' /\ AnswerSound' /\ ExportSound'
      BY <2>1, <3>1 DEF PairInv, Places, TaskSound, AnswerSound, ExportSound
    <3>4. OriginSound' /\ InstallSound'
      BY <2>1, <3>1 DEF PairInv, OriginSound, InstallSound, Sourced, HasKey
    <3>5. QED
      BY <3>2, <3>3, <3>4 DEF PairInv
  <2>3. CASE pki[s] # "none"
    <3>1. /\ pki_state' = s /\ task' = Task("certificate", s)
          /\ at' = [at EXCEPT !["ble"] = "export"]
      BY <1>7, <2>3 DEF store_pki_certificate
    <3>2. Types'
      BY <2>1, <3>1 DEF PairInv, Types, Exported
    <3>3. task'.op = "certificate" /\ task'.session = s
      BY <3>1 DEF Task
    <3>4. Moved("ble", "export") /\ "export" \in BlePlaces /\ MayBeAt("certificate", "export")
      BY <3>1 DEF Moved, BlePlaces, MayBeAt
    <3>5. Places' /\ at'["ble"] = "export" /\ TaskSound' /\ AnswerSound'
      BY <2>1, <3>3, <3>4, BleGoes
    <3>6. ExportSound'
      BY <2>1, <2>3, <3>1, <3>3, <3>5 DEF ExportSound
    <3>7. Sourced
      BY <2>3 DEF PairInv, OriginSound, Sourced, HasKey
    <3>8. OriginSound' /\ InstallSound'
      BY <2>1, <3>1, <3>5, <3>7 DEF PairInv, OriginSound, InstallSound, Sourced, HasKey
    <3>9. QED
      BY <3>2, <3>5, <3>6, <3>8 DEF PairInv
  <2>4. QED
    BY <2>2, <2>3
<1>8. ASSUME NEW s \in Sessions, handle_pki_command(s)
      PROVE  PairInv'
  <2>1. /\ UNCHANGED <<session, status, active, flag, pki, pki_state, pkiFile, thread,
                       stopSet, answer, server, seeded, granted>>
        /\ keys' \subseteq Keys /\ (keysFile' = None \/ keysFile' \subseteq Keys)
        /\ task' = Task("command", s)
    BY <1>8, StoreTypes DEF handle_pki_command, PairInv
  <2>2. PICK place \in {"recover", "finalize"} : at' = [at EXCEPT !["ble"] = place]
    BY <1>8 DEF handle_pki_command
  <2>3. task'.op = "command" /\ task'.session = s
    BY <2>1 DEF Task
  <2>4. Moved("ble", place) /\ place \in BlePlaces /\ MayBeAt("command", place)
        /\ place \notin StopPlaces \cup {"ack", "install", "export"}
    BY <2>2 DEF Moved, BlePlaces, MayBeAt, StopPlaces
  <2>5. Types'
    BY <2>1 DEF PairInv, Types, Exported
  <2>6. QED
    BY <2>1, <2>3, <2>4, <2>5, BleMoves
<1>9. QED
  BY <1>1, <1>2, <1>3, <1>4, <1>5, <1>6, <1>7, <1>8 DEF Callback, PkiCallback

LEMMA ContinueKeeps ==
  ASSUME PairInv, Continue
  PROVE  PairInv'
<1> USE DEF pinVars, pkiVars, keyVars, stopVars, historyVars, grantVars, Goto
<1>0. "ble" \in Threads /\ stopSet \in BOOLEAN /\ thread \in Sessions \cup {None}
  BY DEF Threads, PairInv, Types
<1>1. at["ble"] # "idle" =>
        /\ MayBeAt(task.op, at["ble"]) /\ task.session \in Sessions
        /\ task.op = "challenge" => server[task.session] # "unused"
  BY DEF PairInv, TaskSound
<1>2. CASE OpenSession
  <2>1. /\ at["ble"] = "open" /\ at' = [at EXCEPT !["ble"] = "export"]
        /\ session' = task.session /\ status' = "pending" /\ active' = TRUE
        /\ pki_state' = None /\ pki' = [pki EXCEPT ![task.session] = "none"]
        /\ UNCHANGED <<pkiFile, keys, keysFile, flag, task, thread, stopSet, answer,
                       server, seeded, granted>>
    BY <1>2 DEF OpenSession
  <2>2. Types'
    BY <1>1, <2>1, NoneAssumption DEF PairInv, Types, Exported, Entries
  <2>3. Moved("ble", "export") /\ "export" \in BlePlaces /\ MayBeAt(task.op, "export")
    BY <1>1, <2>1 DEF Moved, BlePlaces, MayBeAt, StopPlaces
  <2>4. Places' /\ at'["ble"] = "export" /\ TaskSound' /\ AnswerSound'
    BY <1>1, <2>1, <2>3, BleGoes
  <2>5. ExportSound'
    BY <2>1, <2>4 DEF ExportSound, StopPlaces
  <2>6. \A r \in Sessions : pki'[r] # "none" => pki[r] # "none"
    BY <2>1 DEF PairInv, Types
  <2>7. OriginSound' /\ InstallSound'
    BY <2>1, <2>4, <2>6 DEF PairInv, OriginSound, InstallSound, Sourced, HasKey
  <2>8. QED
    BY <2>2, <2>4, <2>5, <2>7 DEF PairInv
<1>3. CASE ExportState
  <2>1. /\ at["ble"] = "export"
        /\ UNCHANGED <<session, status, active, pki, pki_state, keys, keysFile, flag,
                       task, thread, stopSet, answer, server, seeded, granted>>
        /\ \/ at' = [at EXCEPT !["ble"] = "clear"] /\ pkiFile' = pkiFile
           \/ /\ at' = [at EXCEPT !["ble"] = AfterExport]
              /\ pki_state # None
              /\ \/ pkiFile' = [session |-> pki_state, entry |-> pki[pki_state]]
                 \/ pkiFile' \in {pkiFile, None}
    BY <1>3 DEF ExportState, ExportTo
  <2>2. PICK place \in {"clear", "start", "reply", "finalize"} :
           /\ at' = [at EXCEPT !["ble"] = place]
           /\ MayBeAt(task.op, place)
    BY <1>1, <2>1 DEF AfterExport, MayBeAt, StopPlaces
  <2>3. /\ pkiFile' \in Exported \cup {None}
        /\ pkiFile' # None =>
             server[pkiFile'.session] = "verified" \/ pkiFile'.session \in granted
    <3>1. CASE pkiFile' \in {pkiFile, None}
      BY <3>1 DEF PairInv, Types, OriginSound, HasKey, Exported
    <3>2. CASE /\ pki_state # None
               /\ pkiFile' = [session |-> pki_state, entry |-> pki[pki_state]]
      <4>1. pki_state \in Sessions /\ pki[pki_state] \in Entries \ {"none"}
        BY <2>1, <3>2 DEF PairInv, Types, ExportSound
      <4>2. server[pki_state] = "verified" \/ pki_state \in granted
        BY <4>1 DEF PairInv, OriginSound, HasKey
      <4>3. pkiFile' \in Exported /\ pkiFile'.session = pki_state
        BY <3>2, <4>1 DEF Exported
      <4>4. QED
        BY <4>2, <4>3
    <3>3. QED
      BY <2>1, <3>1, <3>2
  <2>4. Types'
    BY <2>1, <2>3 DEF PairInv, Types, Exported
  <2>5. Moved("ble", place) /\ place \in BlePlaces
    BY <2>2 DEF Moved, BlePlaces
  <2>6. Places' /\ at'["ble"] = place /\ TaskSound' /\ AnswerSound'
    BY <1>1, <2>1, <2>2, <2>5, BleGoes
  <2>7. ExportSound'
    BY <2>1, <2>6 DEF PairInv, ExportSound, StopPlaces
  <2>8. OriginSound' /\ InstallSound'
    BY <2>1, <2>3, <2>6 DEF PairInv, OriginSound, InstallSound, Sourced, HasKey
  <2>9. QED
    BY <2>4, <2>6, <2>7, <2>8 DEF PairInv
<1>4. CASE ExportNothing
  <2>1. /\ at["ble"] = "clear"
        /\ pki' = [s \in Sessions |-> "none"] /\ pkiFile' \in {None, pkiFile}
        /\ UNCHANGED <<session, status, active, pki_state, keys, keysFile, flag, task,
                       thread, stopSet, answer, server, seeded, granted>>
    BY <1>4 DEF ExportNothing, ExportTo
  <2>2. PICK place \in {"start", "reply", "finalize"} :
           /\ at' = [at EXCEPT !["ble"] = place]
           /\ MayBeAt(task.op, place)
    BY <1>1, <1>4 DEF ExportNothing, AfterExport, MayBeAt, StopPlaces
  <2>3. Types'
    BY <2>1 DEF PairInv, Types, Entries, Exported
  <2>4. Moved("ble", place) /\ place \in BlePlaces
    BY <2>2 DEF Moved, BlePlaces
  <2>5. Places' /\ at'["ble"] = place /\ TaskSound' /\ AnswerSound'
    BY <1>1, <2>1, <2>2, <2>4, BleGoes
  <2>6. ExportSound'
    BY <2>1, <2>5 DEF ExportSound, StopPlaces
  <2>7. OriginSound' /\ InstallSound'
    BY <2>1, <2>5 DEF PairInv, OriginSound, InstallSound, Sourced, HasKey
  <2>8. QED
    BY <2>3, <2>5, <2>6, <2>7 DEF PairInv
<1>5. CASE start_pin_status_poller
  <2>1. /\ at["ble"] = "start"
        /\ at' = [Replaced(at) EXCEPT !["ble"] = "idle", ![task.session] = "wait"]
        /\ stopSet' = FALSE /\ thread' = task.session
        /\ UNCHANGED <<session, status, active, pki, pki_state, pkiFile, keys, keysFile,
                       flag, answer, server, seeded, granted>>
    BY <1>5 DEF start_pin_status_poller
  <2>2. task.session \in Sessions /\ server[task.session] # "unused"
    BY <1>1, <2>1 DEF MayBeAt, StopPlaces
  <2>3. Types'
    BY <2>1, <2>2 DEF PairInv, Types, Exported
  <2>4. \A r \in Threads :
          Replaced(at)[r] = at[r] \/ (at[r] = "wait" /\ Replaced(at)[r] \in {"told", "deaf"})
    BY DEF Replaced
  <2>5. /\ at'["ble"] = "idle" /\ at'[task.session] = "wait"
        /\ \A r \in Sessions : r # task.session =>
             \/ at'[r] = at[r]
             \/ at[r] = "wait" /\ at'[r] \in {"told", "deaf"}
        /\ at' \in [Threads -> BlePlaces \cup PollPlaces]
    <3>1. task.session \in Threads /\ task.session # "ble"
      BY <2>2, BleAssumption DEF Threads
    <3>2. {"told", "deaf", "wait"} \subseteq PollPlaces /\ "idle" \in BlePlaces
      BY DEF PollPlaces, Waiting, BlePlaces
    <3>3. Replaced(at) \in [Threads -> BlePlaces \cup PollPlaces]
      BY <2>4, <3>2 DEF PairInv, Places, Replaced
    <3>4. QED
      BY <1>0, <2>1, <2>4, <3>1, <3>2, <3>3, BleAssumption DEF Threads
  <2>6. Places'
    <3>1. {"told", "deaf", "wait"} \subseteq PollPlaces /\ "idle" \in BlePlaces
      BY DEF PollPlaces, Waiting, BlePlaces
    <3>2. QED
      BY <2>1, <2>2, <2>5, <3>1 DEF PairInv, Places
  <2>7. TaskSound' /\ ExportSound'
    BY <2>1, <2>5 DEF PairInv, TaskSound, ExportSound, StopPlaces
  <2>8. OriginSound' /\ InstallSound'
    BY <2>1, <2>5 DEF PairInv, OriginSound, InstallSound, Sourced, HasKey
  <2>9. AnswerSound'
    <3>1. \A r \in Sessions :
            at'[r] \in {"update", "terminal", "derive"} => at'[r] = at[r]
      BY <2>5
    <3>2. QED
      BY <2>1, <3>1 DEF PairInv, AnswerSound
  <2>10. QED
    BY <2>3, <2>6, <2>7, <2>8, <2>9 DEF PairInv
<1>6. CASE AcknowledgeHandshake
  <2>1. /\ at["ble"] = "ack" /\ at' = [at EXCEPT !["ble"] = "stop"]
        /\ active' = IF session = task.session THEN FALSE ELSE active
        /\ status' = IF session = task.session THEN "HANDSHAKE_ACK" ELSE status
        /\ UNCHANGED <<session, pki, pki_state, pkiFile, keys, keysFile, flag, task,
                       thread, stopSet, answer, server, seeded, granted>>
    BY <1>6 DEF AcknowledgeHandshake
  <2>2. Types'
    BY <2>1 DEF PairInv, Types, Exported
  <2>3. Moved("ble", "stop") /\ "stop" \in BlePlaces /\ MayBeAt(task.op, "stop")
    BY <1>1, <2>1 DEF Moved, BlePlaces, MayBeAt, StopPlaces
  <2>4. task.op = "handshake" => pki[task.session] # "none"
    BY <2>1 DEF PairInv, ExportSound
  <2>5. QED
    BY <1>1, <2>1, <2>2, <2>3, <2>4, BleMoves
<1>7. CASE KeyStored
  <2>1. /\ at["ble"] = "kept" /\ at' = [at EXCEPT !["ble"] = "stop"]
        /\ active' = IF session = task.session THEN FALSE ELSE active
        /\ status' = IF session = task.session THEN "KEY_STORED" ELSE status
        /\ flag' \in {FALSE, flag}
        /\ UNCHANGED <<session, pki, pki_state, pkiFile, keys, keysFile, task,
                       thread, stopSet, answer, server, seeded, granted>>
    BY <1>7 DEF KeyStored
  <2>2. Types'
    BY <2>1 DEF PairInv, Types, Exported
  <2>3. /\ Moved("ble", "stop") /\ "stop" \in BlePlaces
        /\ MayBeAt(task.op, "stop") /\ task.op = "store"
    BY <1>1, <2>1 DEF Moved, BlePlaces, MayBeAt, StopPlaces
  <2>4. QED
    BY <1>1, <2>1, <2>2, <2>3, BleMoves
<1>8. CASE SendReply \/ SyncStoredKey
  <2>1. /\ at' = [at EXCEPT !["ble"] = "idle"]
        /\ keys' \subseteq Keys /\ (keysFile' = None \/ keysFile' \subseteq Keys)
        /\ UNCHANGED <<session, status, active, pki, pki_state, pkiFile, flag,
                       thread, stopSet, answer, server, seeded, granted>>
    BY <1>8, StoreTypes DEF SendReply, SyncStoredKey, PairInv, Types
  <2>2. Types'
    BY <2>1 DEF PairInv, Types, Exported
  <2>3. Moved("ble", "idle") /\ "idle" \in BlePlaces /\ "idle" \notin StopPlaces
    BY <2>1 DEF Moved, BlePlaces, StopPlaces
  <2>4. QED
    BY <2>1, <2>2, <2>3, BleMoves
<1>9. CASE InstallKey
  <2>1. /\ at["ble"] = "install" /\ at' = [at EXCEPT !["ble"] = "export"]
        /\ pki_state' = task.session
        /\ pki' = [pki EXCEPT ![task.session] = task.entry]
        /\ seeded' = (seeded \/ task.op = "seed")
        /\ granted' = IF task.op = "begin" THEN granted ELSE granted \cup {task.session}
        /\ UNCHANGED <<session, status, active, pkiFile, keys, keysFile, flag, task,
                       thread, stopSet, answer, server>>
    BY <1>9 DEF InstallKey
  <2>2. task.op \in {"seed", "begin", "recover"} /\ task.entry \in {"derived", "signed"}
        /\ task.session \in Sessions
    BY <1>1, <2>1 DEF PairInv, InstallSound, MayBeAt, StopPlaces
  <2>3. Types'
    BY <2>1, <2>2 DEF PairInv, Types, Exported, Entries
  <2>4. Moved("ble", "export") /\ "export" \in BlePlaces /\ MayBeAt(task.op, "export")
    BY <2>1, <2>2 DEF Moved, BlePlaces, MayBeAt
  <2>5. Places' /\ at'["ble"] = "export" /\ TaskSound' /\ AnswerSound'
    BY <1>1, <2>1, <2>4, BleGoes
  <2>6. /\ pki'[task.session] # "none"
        /\ \A r \in Sessions : r # task.session => pki'[r] = pki[r]
    BY <2>1, <2>2 DEF PairInv, Types
  <2>7. ExportSound'
    BY <2>1, <2>5, <2>6 DEF ExportSound, StopPlaces
  <2>8. Sourced'
    <3>1. CASE task.op = "seed"
      BY <2>1, <3>1 DEF Sourced
    <3>2. CASE task.op # "seed"
      <4>1. Sourced
        BY <2>1, <2>2, <3>2 DEF PairInv, InstallSound, OriginSound, Sourced
      <4>2. QED
        BY <2>1, <4>1 DEF Sourced
    <3>3. QED
      BY <3>1, <3>2
  <2>9. server[task.session] = "verified" \/ task.session \in granted'
    BY <2>1, <2>2 DEF PairInv, InstallSound
  <2>10. granted \subseteq granted'
    BY <2>1
  <2>11. OriginSound'
    BY <2>1, <2>6, <2>8, <2>9, <2>10 DEF PairInv, OriginSound, HasKey
  <2>12. InstallSound'
    BY <2>5 DEF InstallSound
  <2>13. QED
    BY <2>3, <2>5, <2>7, <2>11, <2>12 DEF PairInv
<1>10. CASE recover_pki_session
  <2>1. /\ at["ble"] = "recover"
        /\ UNCHANGED <<session, status, active, pki, pki_state, pkiFile, keys, keysFile,
                       flag, thread, stopSet, answer, server, seeded, granted>>
    BY <1>10 DEF recover_pki_session
  <2>2. Types'
    BY <2>1 DEF PairInv, Types, Exported
  <2>3. ASSUME Recoverable, NEW entry \in {"derived", "signed"},
               task' = [op |-> "recover", session |-> task.session, entry |-> entry],
               at' = [at EXCEPT !["ble"] = "install"]
        PROVE  PairInv'
    <3>1. /\ task'.op = "recover" /\ task'.session = task.session
          /\ task'.entry \in {"derived", "signed"}
      BY <2>3
    <3>2. Moved("ble", "install") /\ "install" \in BlePlaces \ StopPlaces
          /\ MayBeAt("recover", "install")
      BY <2>3 DEF Moved, BlePlaces, MayBeAt, StopPlaces
    <3>3. Sourced
      BY <2>3 DEF Recoverable, PairInv, OriginSound
    <3>4. QED
      BY <1>1, <2>1, <2>2, <3>1, <3>2, <3>3, BleMoves
  <2>4. CASE at' = [at EXCEPT !["ble"] = "idle"]
    <3>1. Moved("ble", "idle") /\ "idle" \in BlePlaces \ StopPlaces
      BY <2>4 DEF Moved, BlePlaces, StopPlaces
    <3>2. QED
      BY <2>1, <2>2, <3>1, BleMoves
  <2>5. QED
    BY <1>10, <2>3, <2>4 DEF recover_pki_session
<1>11. CASE FinalizeCommand
  <2>1. /\ at["ble"] = "finalize" /\ at' = [at EXCEPT !["ble"] = "idle"]
        /\ \/ pki[task.session] # "none" /\ pki' = [pki EXCEPT ![task.session] = "signed"]
           \/ pki' = pki
        /\ UNCHANGED <<session, status, active, pki_state, pkiFile, keys, keysFile,
                       flag, thread, stopSet, answer, server, seeded, granted>>
    BY <1>11 DEF FinalizeCommand
  <2>2. Types'
    BY <2>1 DEF PairInv, Types, Exported, Entries
  <2>3. \A r \in Sessions : pki'[r] # "none" <=> pki[r] # "none"
    BY <2>1 DEF PairInv, Types
  <2>4. Moved("ble", "idle") /\ "idle" \in BlePlaces
    BY <2>1 DEF Moved, BlePlaces
  <2>5. Places' /\ at'["ble"] = "idle" /\ TaskSound' /\ AnswerSound'
    BY <2>1, <2>4, BleGoes
  <2>6. ExportSound'
    BY <2>1, <2>3, <2>5 DEF PairInv, ExportSound, StopPlaces, Types
  <2>7. OriginSound' /\ InstallSound'
    BY <2>1, <2>3, <2>5 DEF PairInv, OriginSound, InstallSound, Sourced, HasKey
  <2>8. QED
    BY <2>2, <2>5, <2>6, <2>7 DEF PairInv
<1>12. CASE Stop("ble")
  BY <1>0, <1>12, StopKeeps
<1>13. QED
  BY <1>2, <1>3, <1>4, <1>5, <1>6, <1>7, <1>8, <1>9, <1>10, <1>11, <1>12 DEF Continue

-----------------------------------------------------------------------------
(* The owner, the user and restarts; and all together.                     *)

(* What a restart finds in the two files.                                  *)
LEMMA RestartLoads ==
  ASSUME Restart
  PROVE  \E torn \in SUBSET Writing :
           LET session_file == IF "session" \in torn THEN None ELSE pkiFile
               keys_file == IF "keys" \in torn THEN None ELSE keysFile
           IN /\ LoadKeys(keys_file)
              /\ \/ LoadSession(session_file)
                 \/ LoadNoSession(session_file) /\ "incomplete" \in losses'
              /\ losses \subseteq losses'
              /\ "session" \in torn => "torn" \in losses'
              /\ keys_file = None => "lost" \in losses'
  BY DEF Restart

LEMMA WorldKeeps ==
  ASSUME PairInv, World
  PROVE  PairInv'
<1> USE DEF pinVars, pkiVars, keyVars, stopVars, historyVars, grantVars
<1>1. CASE enable_pairing
  <2>1. UNCHANGED <<session, status, active, pki, pki_state, pkiFile, keys, keysFile,
                    at, task, thread, stopSet, answer, server, seeded, granted>>
        /\ flag' = TRUE
    BY <1>1 DEF enable_pairing
  <2>2. Types' /\ Places' /\ TaskSound' /\ AnswerSound' /\ ExportSound'
    BY <2>1 DEF PairInv, Types, Exported, Places, TaskSound, AnswerSound, ExportSound
  <2>3. OriginSound' /\ InstallSound'
    BY <2>1 DEF PairInv, OriginSound, InstallSound, Sourced, HasKey
  <2>4. QED
    BY <2>2, <2>3 DEF PairInv
<1>2. ASSUME NEW s \in Sessions, UserEntersPin(s)
      PROVE  PairInv'
  <2>1. /\ server[s] = "pending"
        /\ UNCHANGED <<session, status, active, pki, pki_state, pkiFile, keys, keysFile,
                       flag, at, task, thread, stopSet, answer, seeded, granted>>
    BY <1>2 DEF UserEntersPin
  <2>2. PICK result \in {"verified", "failed"} : server' = [server EXCEPT ![s] = result]
    BY <1>2 DEF UserEntersPin
  <2>3. Types'
    BY <2>1, <2>2 DEF PairInv, Types, Exported
  <2>4. \A r \in Sessions :
          /\ server[r] # "unused" => server'[r] # "unused"
          /\ server[r] = "verified" => server'[r] = "verified"
    BY <2>1, <2>2 DEF PairInv, Types
  <2>5. Places' /\ TaskSound' /\ AnswerSound' /\ ExportSound'
    BY <2>1, <2>4 DEF PairInv, Places, TaskSound, AnswerSound, ExportSound
  <2>6. OriginSound' /\ InstallSound'
    BY <2>1, <2>4
       DEF PairInv, OriginSound, InstallSound, Sourced, HasKey, TaskSound, Types
  <2>7. QED
    BY <2>3, <2>5, <2>6 DEF PairInv
<1>3. CASE Restart
  <2>1. /\ session' = None /\ status' = "NONE" /\ active' = FALSE
        /\ at' = [t \in Threads |-> IF t = "ble" THEN "idle" ELSE "done"]
        /\ thread' = None /\ stopSet' = FALSE
        /\ answer' = [s \in Sessions |-> "none"]
        /\ UNCHANGED <<flag, server, seeded, granted>>
    BY <1>3 DEF Restart, NoPinSession
  <2>2. PICK torn \in SUBSET Writing :
          /\ LoadKeys(IF "keys" \in torn THEN None ELSE keysFile)
          /\ LET session_file == IF "session" \in torn THEN None ELSE pkiFile
             IN LoadSession(session_file) \/ LoadNoSession(session_file)
    BY <1>3, RestartLoads
  <2>3. keys' \subseteq Keys /\ (keysFile' = None \/ keysFile' \subseteq Keys)
    BY <2>2 DEF LoadKeys, ServerLists, PairInv, Types
  <2>4. pkiFile # None =>
          /\ pkiFile.session \in Sessions /\ pkiFile.entry \in Entries \ {"none"}
          /\ server[pkiFile.session] = "verified" \/ pkiFile.session \in granted
    BY DEF PairInv, Types, Exported, OriginSound, HasKey
  <2>5. PICK file \in {None, pkiFile} :
          /\ pki' = Restored(file)
          /\ pki_state' = IF file = None THEN None ELSE file.session
          /\ pkiFile' \in {None, pkiFile}
    BY <2>2 DEF LoadSession, LoadNoSession
  <2>6. /\ pki' \in [Sessions -> Entries]
        /\ \A s \in Sessions : pki'[s] # "none" => file # None /\ file.session = s
        /\ file # None => pki'[file.session] # "none"
    BY <2>4, <2>5 DEF Restored, Entries
  <2>7. Types'
    BY <2>1, <2>3, <2>4, <2>5, <2>6 DEF PairInv, Types
  <2>8. at'["ble"] = "idle" /\ \A s \in Sessions : at'[s] = "done"
    BY <2>1, BleAssumption DEF Threads
  <2>9. Places'
    BY <2>1, <2>8 DEF Places, BlePlaces, PollPlaces, Threads
  <2>10. TaskSound' /\ AnswerSound' /\ InstallSound'
    BY <2>1, <2>8 DEF TaskSound, AnswerSound, InstallSound
  <2>11. ExportSound'
    BY <2>5, <2>6, <2>8 DEF ExportSound, StopPlaces
  <2>12. \A s \in Sessions : HasKey(s)' => server[s] = "verified" \/ s \in granted
    BY <2>4, <2>5, <2>6 DEF HasKey
  <2>13. pki_state' # None \/ granted # {} => Sourced
    BY <2>4, <2>5 DEF PairInv, OriginSound, Sourced
  <2>14. OriginSound'
    BY <2>1, <2>12, <2>13 DEF OriginSound, Sourced
  <2>15. QED
    BY <2>7, <2>9, <2>10, <2>11, <2>14 DEF PairInv
<1>4. QED
  BY <1>1, <1>2, <1>3 DEF World

LEMMA PairInvHolds == Spec => []PairInv
<1>1. PairInv /\ [Next]_vars => PairInv'
  <2> SUFFICES ASSUME PairInv, [Next]_vars PROVE PairInv'
    OBVIOUS
  <2>1. CASE UNCHANGED vars
    <3>1. UNCHANGED <<session, status, active, pki, pki_state, pkiFile, keys, keysFile,
                      flag, at, task, thread, stopSet, answer, server, seeded, granted>>
      BY <2>1 DEF vars, pinVars, pkiVars, keyVars, stopVars, historyVars, grantVars
    <3>2. Types' /\ Places' /\ TaskSound' /\ AnswerSound' /\ ExportSound'
      BY <3>1 DEF PairInv, Types, Exported, Places, TaskSound, AnswerSound, ExportSound
    <3>3. OriginSound' /\ InstallSound'
      BY <3>1 DEF PairInv, OriginSound, InstallSound, Sourced, HasKey
    <3>4. QED
      BY <3>2, <3>3 DEF PairInv
  <2>2. QED
    BY <2>1, CallbackKeeps, ContinueKeeps, WorldKeeps, PollerKeeps DEF Next
<1>2. QED
  BY <1>1, InitPairInv, PTL DEF Spec

(* Everything has its type, in every reachable state; an open session is a *)
(* session, and an exported key is a key.                                  *)
THEOREM PairingTypeCorrect == Spec => []TypeOK
<1>1. PairInv => TypeOK
  <2> SUFFICES ASSUME PairInv PROVE TypeOK
    OBVIOUS
  <2>1. BlePlaces \cup PollPlaces \subseteq
          Waiting \cup {"idle", "done", "check", "http", "update",
               "derive", "terminal", "cancel", "stop", "join", "forget", "fresh",
               "open", "export", "clear", "start", "ack", "reply", "kept", "sync",
               "install", "recover", "finalize"}
    BY DEF BlePlaces, PollPlaces
  <2>2. QED
    BY <2>1 DEF PairInv, Types, Places, TypeOK
<1>2. QED
  BY <1>1, PairInvHolds, PTL

(* However pollers, callbacks, their stops, PKI commands and restarts      *)
(* interleave, a session with a key, in memory or in the file, is one      *)
(* whose PIN the server has verified or one that a PKI command gave a key; *)
(* and what was recovered goes back to one of these or to a key the phone  *)
(* sent (handle_pin_verified, seed_pki_session, recover_pki_session).      *)
THEOREM KeysHaveOrigin == Spec => []KeyHasOrigin
<1>1. PairInv => KeyHasOrigin
  BY DEF PairInv, OriginSound, Sourced, KeyHasOrigin
<1>2. QED
  BY <1>1, PairInvHolds, PTL

-----------------------------------------------------------------------------
(* What pollers and stops leave to the callbacks.                          *)

LEMMA StopAside ==
  ASSUME PairInv, NEW t \in Threads, Stop(t)
  PROVE  /\ UNCHANGED <<session, active, pki, pki_state, pkiFile, keys, keysFile, flag,
                        task, losses, acked, closed>>
         /\ t # "ble" => at'["ble"] = at["ble"]
         /\ t = "ble" => /\ at["ble"] \in StopPlaces
                         /\ at'["ble"] \in {"join", "forget", "fresh", AfterStop("ble")}
<1> USE DEF pinVars, pkiVars, keyVars, stopVars, historyVars, grantVars, Goto
<1>1. UNCHANGED <<session, active, pki, pki_state, pkiFile, keys, keysFile, flag,
                  task, losses, acked, closed>>
  BY DEF Stop, StopSet, StopJoin, StopForget, StopFresh
<1>2. PICK place \in {"join", "forget", "fresh", AfterStop(t)} : Moved(t, place)
  BY DEF Stop, StopSet, StopJoin, StopForget, StopFresh, Moved
<1>3. at[t] \in StopPlaces
  BY DEF Stop, StopSet, StopJoin, StopForget, StopFresh, StopPlaces
<1>4. "ble" \in Threads /\ at["ble"] # "wait"
  BY DEF Threads, PairInv, Places, BlePlaces
<1>5. at'[t] = place /\ (t # "ble" => at'["ble"] = at["ble"])
  BY <1>2, <1>4 DEF Moved, PairInv, Places, Replaced
<1>6. QED
  BY <1>1, <1>2, <1>3, <1>5

LEMMA PollerAside ==
  ASSUME PairInv, NEW s \in Sessions, Poller(s)
  PROVE  /\ UNCHANGED <<session, pkiFile, keys, keysFile, flag, task, losses, closed>>
         /\ at'["ble"] = at["ble"]
         /\ \/ UNCHANGED <<pki, pki_state, acked>>
            \/ handle_pin_verified(s)
<1> USE DEF pinVars, pkiVars, keyVars, stopVars, historyVars, grantVars, Goto
<1>1. s \in Threads /\ "ble" \in Threads /\ s # "ble"
  BY BleAssumption DEF Threads
<1>2. CASE Stop(s)
  BY <1>1, <1>2, StopAside
<1>3. CASE PollStopped(s) \/ PollInterval(s) \/ PollCheck(s)
  BY <1>1, <1>3 DEF PollStopped, PollInterval, PollCheck, PairInv, Places
<1>4. CASE PollExpired(s) \/ PollAsk(s)
  BY <1>1, <1>4 DEF PollExpired, PollAsk, PairInv, Places
<1>5. CASE handle_pin_status_update(s) \/ handle_pin_verified(s)
  BY <1>1, <1>5 DEF handle_pin_status_update, handle_pin_verified, PairInv, Places
<1>6. CASE PinVerifiedUnusable(s) \/ handle_pin_terminal(s) \/ cancel_remote_session(s)
  BY <1>1, <1>6 DEF PinVerifiedUnusable, handle_pin_terminal, cancel_remote_session,
                    PairInv, Places
<1>7. QED
  BY <1>2, <1>3, <1>4, <1>5, <1>6 DEF Poller

LEMMA BlePlace ==
  ASSUME PairInv, NEW place, at' = [at EXCEPT !["ble"] = place]
  PROVE  at'["ble"] = place /\ \A r \in Sessions : at'[r] = at[r]
  BY BleAssumption DEF PairInv, Places, Threads

-----------------------------------------------------------------------------
(* Once closed, pairing stays closed.  In memory and on disk the key store *)
(* has a key: a restart reads the file, and a store leaves both filled, or *)
(* the file unreadable.                                                    *)
Filled == keys # {} /\ keysFile # {}

Closed ==
  /\ closed => Filled \/ "lost" \in losses
  /\ closed => ~flag \/ "unwritten" \in losses
  /\ at["ble"] = "kept" => Filled

LEMMA StoreFills ==
  ASSUME sync_keys_from_server \/ RegisterKey \/ KeyRegistered
  PROVE  (Filled => Filled') /\ losses \subseteq losses'
<1>1. None # {}
  BY FileAssumption
<1>2. ASSUME NEW new, new # {}, Flushed(new) \/ FlushFails(new)
      PROVE  (Filled => Filled') /\ losses \subseteq losses'
  BY <1>1, <1>2 DEF Flushed, FlushFails, Filled
<1>3. CASE UNCHANGED <<keys, keysFile, losses>>
  BY <1>3 DEF Filled
<1>4. CASE \E list \in ServerLists : Flushed(list) \/ FlushFails(list)
  BY <1>2, <1>4 DEF ServerLists
<1>5. CASE KeyRegistered
  <2>1. PICK k \in Keys : Flushed(keys \cup {k}) \/ FlushFails(keys \cup {k})
    BY <1>5 DEF KeyRegistered
  <2>2. keys \cup {k} # {}
    OBVIOUS
  <2>3. QED
    BY <1>2, <2>1, <2>2
<1>6. QED
  BY <1>3, <1>4, <1>5 DEF sync_keys_from_server, RegisterKey, KeyRegistered

(* A step that does not close pairing and is not about to.                 *)
LEMMA ClosedApart ==
  ASSUME Closed, UNCHANGED <<flag, closed>>, losses \subseteq losses',
         Filled => Filled', at'["ble"] = at["ble"] \/ at'["ble"] # "kept"
  PROVE  Closed'
  BY DEF Closed

LEMMA CallbackClosed ==
  ASSUME PairInv, Closed, Callback
  PROVE  Closed'
<1> USE DEF Goto, pinVars, pkiVars, keyVars, stopVars, historyVars, grantVars
<1>1. CASE build_challenge
  <2>1. UNCHANGED <<keys, keysFile, flag, losses, closed>> /\ at' = [at EXCEPT !["ble"] = "stop"]
    BY <1>1 DEF build_challenge
  <2>2. QED
    BY <2>1, BlePlace, ClosedApart DEF Filled
<1>2. CASE SyncOnMiss
  <2>1. UNCHANGED <<flag, closed, at>>
    BY <1>2 DEF SyncOnMiss
  <2>2. QED
    BY <1>2, <2>1, StoreFills, ClosedApart DEF SyncOnMiss
<1>3. ASSUME NEW s \in Sessions, handle_pairing_key_storage(s)
      PROVE  Closed'
  <2>1. UNCHANGED <<flag, closed>> /\ KeyRegistered
    BY <1>3 DEF handle_pairing_key_storage, KeyRegistered
  <2>2. ASSUME NEW k \in Keys, Flushed(keys \cup {k}), at' = [at EXCEPT !["ble"] = "kept"]
        PROVE  Closed'
    <3>1. Filled' /\ losses' = losses
      BY <2>2 DEF Flushed, Filled
    <3>2. QED
      BY <2>1, <3>1 DEF Closed
  <2>3. CASE UNCHANGED at
    BY <2>1, <2>3, StoreFills, ClosedApart
  <2>4. QED
    BY <1>3, <2>2, <2>3 DEF handle_pairing_key_storage
<1>4. ASSUME NEW s \in Sessions,
             handle_pairing_handshake(s) \/ seed_pki_session(s) \/ begin_pki_handshake(s)
      PROVE  Closed'
  <2>1. /\ UNCHANGED <<keys, keysFile, flag, losses, closed>>
        /\ \E place \in {"ack", "install"} : at' = [at EXCEPT !["ble"] = place]
    BY <1>4 DEF handle_pairing_handshake, seed_pki_session, begin_pki_handshake
  <2>2. at'["ble"] # "kept"
    BY <2>1, BlePlace
  <2>3. QED
    BY <2>1, <2>2, ClosedApart DEF Filled
<1>5. ASSUME NEW s \in Sessions, store_pki_certificate(s) \/ handle_pki_command(s)
      PROVE  Closed'
  <2>1. /\ UNCHANGED <<flag, closed>> /\ RegisterKey
        /\ at' = at \/ \E place \in {"export", "recover", "finalize"} :
                         at' = [at EXCEPT !["ble"] = place]
    BY <1>5 DEF store_pki_certificate, handle_pki_command
  <2>2. at'["ble"] = at["ble"] \/ at'["ble"] # "kept"
    BY <2>1, BlePlace
  <2>3. QED
    BY <2>1, <2>2, StoreFills, ClosedApart
<1>6. QED
  BY <1>1, <1>2, <1>3, <1>4, <1>5 DEF Callback, PkiCallback

LEMMA ContinueClosed ==
  ASSUME PairInv, Closed, Continue
  PROVE  Closed'
<1> USE DEF Goto, pinVars, pkiVars, keyVars, stopVars, historyVars, grantVars
<1>1. CASE KeyStored
  <2>1. /\ UNCHANGED <<keys, keysFile>> /\ at["ble"] = "kept"
        /\ (flag' = FALSE /\ losses' = losses) \/ losses' = losses \cup {"unwritten"}
        /\ at' = [at EXCEPT !["ble"] = "stop"]
    BY <1>1 DEF KeyStored
  <2>2. at'["ble"] = "stop"
    BY <2>1, BlePlace
  <2>3. QED
    BY <2>1, <2>2 DEF Closed, Filled
<1>2. CASE SyncStoredKey
  <2>1. UNCHANGED <<flag, closed>> /\ at' = [at EXCEPT !["ble"] = "idle"]
    BY <1>2 DEF SyncStoredKey
  <2>2. at'["ble"] = "idle"
    BY <2>1, BlePlace
  <2>3. QED
    BY <1>2, <2>1, <2>2, StoreFills, ClosedApart DEF SyncStoredKey
<1>3. ASSUME UNCHANGED <<keys, keysFile, flag, closed>>, losses \subseteq losses',
             NEW place, place # "kept", at' = [at EXCEPT !["ble"] = place]
      PROVE  Closed'
  <2>1. at'["ble"] # "kept"
    BY <1>3, BlePlace
  <2>2. QED
    BY <1>3, <2>1, ClosedApart DEF Filled
<1>4. AfterExport # "kept" /\ (at["ble"] \in StopPlaces => AfterStop("ble") # "kept")
  <2>1. AfterExport # "kept"
    BY DEF AfterExport
  <2>2. at["ble"] \in StopPlaces => AfterStop("ble") # "kept"
    BY DEF AfterStop, PairInv, TaskSound, MayBeAt, StopPlaces
  <2>3. QED
    BY <2>1, <2>2
<1>5. CASE OpenSession \/ AcknowledgeHandshake \/ SendReply \/ InstallKey
  <2>1. /\ UNCHANGED <<keys, keysFile, flag, losses, closed>>
        /\ \E place \in {"export", "stop", "idle"} : at' = [at EXCEPT !["ble"] = place]
    BY <1>5 DEF OpenSession, AcknowledgeHandshake, SendReply, InstallKey
  <2>2. QED
    BY <1>3, <2>1
<1>6. CASE ExportState \/ ExportNothing
  <2>1. /\ UNCHANGED <<keys, keysFile, flag, closed>> /\ losses \subseteq losses'
        /\ \E place \in {"clear", AfterExport} : at' = [at EXCEPT !["ble"] = place]
    BY <1>6 DEF ExportState, ExportNothing, ExportTo
  <2>2. QED
    BY <1>3, <1>4, <2>1
<1>7. CASE recover_pki_session \/ FinalizeCommand
  <2>1. /\ UNCHANGED <<keys, keysFile, flag, losses, closed>>
        /\ \E place \in {"install", "idle"} : at' = [at EXCEPT !["ble"] = place]
    BY <1>7 DEF recover_pki_session, FinalizeCommand
  <2>2. QED
    BY <1>3, <2>1
<1>8. CASE start_pin_status_poller
  <2>1. /\ UNCHANGED <<keys, keysFile, flag, losses, closed>>
        /\ at' = [Replaced(at) EXCEPT !["ble"] = "idle", ![task.session] = "wait"]
        /\ at["ble"] = "start"
    BY <1>8 DEF start_pin_status_poller
  <2>2. task.session # "ble" /\ "ble" \in Threads
    BY <2>1, BleAssumption DEF PairInv, TaskSound, Threads
  <2>3. at'["ble"] = "idle"
    BY <2>1, <2>2 DEF Replaced
  <2>4. QED
    BY <2>1, <2>3, ClosedApart DEF Filled
<1>9. CASE Stop("ble")
  <2>1. "ble" \in Threads
    BY DEF Threads
  <2>2. /\ UNCHANGED <<keys, keysFile, flag, losses, closed>>
        /\ at["ble"] \in StopPlaces
        /\ at'["ble"] \in {"join", "forget", "fresh", AfterStop("ble")}
    BY <1>9, <2>1, StopAside
  <2>3. QED
    BY <1>4, <2>2, ClosedApart DEF Filled
<1>10. QED
  BY <1>1, <1>2, <1>5, <1>6, <1>7, <1>8, <1>9 DEF Continue

LEMMA WorldClosed ==
  ASSUME PairInv, Closed, World
  PROVE  Closed'
<1> USE DEF pinVars, pkiVars, keyVars, stopVars, historyVars, grantVars
<1>1. CASE enable_pairing
  <2>1. UNCHANGED <<keys, keysFile, at>> /\ closed' = FALSE
    BY <1>1 DEF enable_pairing
  <2>2. QED
    BY <2>1 DEF Closed, Filled
<1>2. CASE \E s \in Sessions : UserEntersPin(s)
  <2>1. UNCHANGED <<keys, keysFile, flag, at, losses, closed>>
    BY <1>2 DEF UserEntersPin
  <2>2. QED
    BY <2>1, ClosedApart DEF Filled
<1>3. CASE Restart
  <2>1. UNCHANGED <<flag, closed>> /\ at'["ble"] = "idle"
    BY <1>3 DEF Restart, Threads
  <2>2. PICK torn \in SUBSET Writing :
          LET keys_file == IF "keys" \in torn THEN None ELSE keysFile
          IN /\ LoadKeys(keys_file)
             /\ losses \subseteq losses'
             /\ keys_file = None => "lost" \in losses'
    BY <1>3, RestartLoads
  <2>3. CASE "lost" \in losses'
    BY <2>1, <2>2, <2>3 DEF Closed
  <2>4. CASE "lost" \notin losses'
    <3>1. LoadKeys(keysFile) /\ keysFile # None
      BY <2>2, <2>4
    <3>2. Filled => Filled'
      BY <3>1 DEF LoadKeys, ServerLists, Filled
    <3>3. QED
      BY <2>1, <2>2, <3>2, ClosedApart
  <2>5. QED
    BY <2>3, <2>4
<1>4. QED
  BY <1>1, <1>2, <1>3 DEF World

(* A car that has stored the key of a pairing opens to no other phone      *)
(* before its owner says so: not by an answer of the server, a failed      *)
(* write or a restart (handle_pairing_key_storage, sync_keys_from_server,  *)
(* _load_from_disk), as long as a restart finds keys.json readable and the *)
(* flag could be removed.                                                  *)
THEOREM StaysClosed == Spec => []PairingStaysClosed
<1>1. Init => Closed
  BY DEF Init, Closed, Threads
<1>2. PairInv /\ Closed /\ [Next]_vars => Closed'
  <2> SUFFICES ASSUME PairInv, Closed, [Next]_vars PROVE Closed'
    OBVIOUS
  <2>1. CASE UNCHANGED vars
    <3>1. UNCHANGED <<keys, keysFile, flag, at, losses, closed>>
      BY <2>1 DEF vars, keyVars, historyVars
    <3>2. QED
      BY <3>1, ClosedApart DEF Filled
  <2>2. ASSUME NEW s \in Sessions, Poller(s) PROVE Closed'
    BY <2>2, PollerAside, ClosedApart DEF Filled
  <2>3. QED
    BY <2>1, <2>2, CallbackClosed, ContinueClosed, WorldClosed DEF Next
<1>3. Closed => PairingStaysClosed
  BY DEF Closed, Filled, PairingStaysClosed
<1>4. QED
  BY <1>1, <1>2, <1>3, PairInvHolds, PTL DEF Spec

-----------------------------------------------------------------------------
(* Without mishaps: what the stops of pollers, which are not protected by  *)
(* a lock, keep true all the same.  A poller asks as long as it watches    *)
(* over its session, and is gone once nothing can come of it any more.     *)
Asking == {"wait", "told", "deaf", "check", "http", "update", "derive", "terminal"}
Gone == {"done", "fresh", "cancel"}

NoneLive == \A s \in Sessions : at[s] \in Gone

(* The callback has stopped the poller; or it has not yet, or never will.  *)
Stopped ==
  \/ at["ble"] \in {"forget", "fresh", "open", "start", "sync"}
  \/ at["ble"] \in {"export", "clear", "reply"} /\ task.op \in {"challenge", "handshake"}

Before == {"idle", "ack", "kept"}

Aside == at["ble"] \in Before \/ task.op \in PkiOps

(* At most one poller lives, the registered one; a stop that has waited    *)
(* leaves none.                                                            *)
OnePoller ==
  /\ DOMAIN victim = Threads
  /\ \A s \in Sessions : at[s] \notin Gone => thread = s
  /\ at["ble"] = "join" => victim["ble"] \in Sessions /\ thread \in {None, victim["ble"]}
  /\ Stopped => NoneLive

(* An active session is the one just opened or has a poller that nobody    *)
(* has told to stop; a callback with a result leaves none active.          *)
CallbackSound ==
  /\ at["ble"] \notin Before /\ task.op \in {"handshake", "store"} => ~active
  /\ at["ble"] \in {"export", "clear", "start"} /\ task.op = "challenge"
       => session = task.session
  /\ Aside /\ active => ~stopSet /\ at[session] \in Asking \ {"told"}

Calm == OnePoller /\ CallbackSound

(* The other threads stay where they are, or their stop event is replaced. *)
OthersStay(t) ==
  \A r \in Threads : r # t =>
    \/ at'[r] = at[r]
    \/ at[r] = "wait" /\ at'[r] = IF stopSet THEN "told" ELSE "deaf"

(* A poller goes on, or ends.                                              *)
LEMMA PollerCalm ==
  ASSUME PairInv, Calm, NEW s \in Sessions, OthersStay(s),
         UNCHANGED <<session, task>>,
         victim'["ble"] = victim["ble"], DOMAIN victim' = DOMAIN victim,
         active' => active,
         at'[s] \in Asking => at[s] \in Asking,
         at[s] \in Gone => at'[s] \in Gone,
         thread' = thread \/ (thread' = None /\ thread = s /\ at'[s] \in Gone),
         Aside /\ active' =>
           /\ stopSet' => stopSet
           /\ session = s => at'[s] \in Asking \ {"told"}
  PROVE  Calm'
<1>1. s \in Threads /\ "ble" \in Threads /\ s # "ble" /\ at["ble"] # "wait"
  BY BleAssumption DEF Threads, PairInv, Places, BlePlaces
<1>2. at'["ble"] = at["ble"] /\ (Stopped' <=> Stopped) /\ (Aside' <=> Aside)
  BY <1>1 DEF OthersStay, Stopped, Aside
<1>3. \A r \in Sessions : r \in Threads /\ r # "ble"
  BY BleAssumption DEF Threads
<1>4. \A r \in Sessions : /\ at'[r] \in Asking => at[r] \in Asking
                          /\ at[r] \in Gone => at'[r] \in Gone
  BY <1>3 DEF OthersStay, Asking, Gone
<1>5. OnePoller'
  BY <1>2, <1>4 DEF Calm, OnePoller, NoneLive
<1>6. CallbackSound'
  <2>1. ASSUME Aside, active'
        PROVE  ~stopSet' /\ at'[session] \in Asking \ {"told"}
    <3>1. /\ active /\ ~stopSet /\ session \in Sessions
          /\ at[session] \in Asking \ {"told"}
      BY <2>1 DEF Calm, CallbackSound, PairInv, Types
    <3>2. CASE session = s
      BY <2>1, <3>1, <3>2
    <3>3. CASE session # s
      <4>1. at'[session] \in {at[session], "deaf"}
        BY <1>3, <3>1, <3>3 DEF OthersStay
      <4>2. QED
        BY <2>1, <3>1, <4>1 DEF Asking
    <3>4. QED
      BY <3>2, <3>3
  <2>2. QED
    BY <1>2, <2>1 DEF Calm, CallbackSound
<1>7. QED
  BY <1>5, <1>6 DEF Calm

(* A single place changes, with or without a new stop event.               *)
LEMMA MovedOthers ==
  ASSUME PairInv, NEW t \in Threads, NEW place, Moved(t, place)
  PROVE  at'[t] = place /\ OthersStay(t)
<1>1. CASE at' = [at EXCEPT ![t] = place]
  BY <1>1 DEF PairInv, Places, OthersStay
<1>2. CASE at' = [Replaced(at) EXCEPT ![t] = place]
  BY <1>2 DEF PairInv, Places, OthersStay, Replaced
<1>3. QED
  BY <1>1, <1>2 DEF Moved

(* The poller that stops itself.                                           *)
LEMMA PollerStopCalm ==
  ASSUME PairInv, Calm, NEW s \in Sessions, Stop(s), mishaps' = {}
  PROVE  Calm'
<1> USE DEF Moved, Goto, pinVars, pkiVars, keyVars, stopVars, historyVars, grantVars
<1>1. s \in Threads /\ s # "ble" /\ "ble" \in Threads
  BY BleAssumption DEF Threads
<1>2. AfterStop(s) \in {"cancel", "done"}
  BY <1>1 DEF AfterStop
<1>3. at[s] \in {"stop", "join", "forget"} => thread = s
  BY DEF Calm, OnePoller, Gone
<1>4. ~(Aside /\ active /\ at[s] \in {"stop", "join", "forget"})
  <2> SUFFICES ASSUME Aside, active,
                      at[s] \in {"stop", "join", "forget"}
               PROVE  FALSE
    OBVIOUS
  <2>1. session \in Sessions /\ at[session] \in Asking
    BY DEF Calm, CallbackSound, PairInv, Types
  <2>2. thread = session
    BY <2>1 DEF Calm, OnePoller, Asking, Gone
  <2>3. QED
    BY <1>3, <2>1, <2>2 DEF Asking
<1>5. CASE StopSet(s)
  <2>1. thread # None /\ at[s] = "stop"
    BY <1>3, <1>5, NoneAssumption DEF StopSet
  <2>2. Moved(s, "join") /\ victim'["ble"] = victim["ble"] /\ DOMAIN victim' = DOMAIN victim
    BY <1>1, <1>5, <2>1 DEF StopSet, Calm, OnePoller
  <2>3. at'[s] = "join" /\ OthersStay(s)
    BY <1>1, <2>2, MovedOthers
  <2>4. UNCHANGED <<session, active, task, thread>>
    BY <1>5 DEF StopSet
  <2>5. QED
    BY <1>4, <2>1, <2>2, <2>3, <2>4, PollerCalm DEF Asking, Gone
<1>6. CASE StopJoin(s)
  <2>1. Moved(s, "forget") /\ victim'["ble"] = victim["ble"] /\ at[s] = "join"
        /\ DOMAIN victim' = DOMAIN victim
    BY <1>6 DEF StopJoin
  <2>2. at'[s] = "forget" /\ OthersStay(s)
    BY <1>1, <2>1, MovedOthers
  <2>3. UNCHANGED <<session, active, task, thread>>
    BY <1>6 DEF StopJoin
  <2>4. QED
    BY <1>4, <2>1, <2>2, <2>3, PollerCalm DEF Asking, Gone
<1>7. CASE StopForget(s)
  <2>1. Moved(s, "fresh") /\ victim'["ble"] = victim["ble"] /\ at[s] = "forget"
        /\ DOMAIN victim' = DOMAIN victim
    BY <1>7 DEF StopForget
  <2>2. at'[s] = "fresh" /\ OthersStay(s)
    BY <1>1, <2>1, MovedOthers
  <2>3. /\ UNCHANGED <<session, active, task>>
        /\ thread' = None /\ thread = s
    BY <1>3, <1>7, <2>1 DEF StopForget
  <2>4. QED
    BY <1>4, <2>1, <2>2, <2>3, PollerCalm DEF Asking, Gone
<1>8. CASE StopFresh(s)
  <2>1. Moved(s, AfterStop(s)) /\ victim'["ble"] = victim["ble"] /\ at[s] = "fresh"
        /\ DOMAIN victim' = DOMAIN victim
    BY <1>1, <1>8 DEF StopFresh, Calm, OnePoller
  <2>2. at'[s] \in {"cancel", "done"} /\ OthersStay(s)
    BY <1>1, <1>2, <2>1, MovedOthers
  <2>3. /\ UNCHANGED <<session, active, task, thread>>
        /\ stopSet' = FALSE
    BY <1>8 DEF StopFresh
  <2>4. Aside /\ active => session # s
    BY <2>1 DEF Calm, CallbackSound, Asking
  <2>5. QED
    BY <2>1, <2>2, <2>3, <2>4, PollerCalm DEF Asking, Gone
<1>9. QED
  BY <1>5, <1>6, <1>7, <1>8 DEF Stop

LEMMA PollersCalm ==
  ASSUME PairInv, Calm, NEW s \in Sessions, Poller(s), mishaps' = {}
  PROVE  Calm'
<1> USE DEF Moved, Goto, pinVars, pkiVars, keyVars, stopVars, historyVars, grantVars
<1>1. s \in Threads /\ s # "ble" /\ "ble" \in Threads
  BY BleAssumption DEF Threads
<1>2. ASSUME NEW place \in Asking \cup {"done"}, Moved(s, place), at[s] \in Asking,
             UNCHANGED <<session, active, stopVars, task>>,
             Aside /\ active /\ session = s
               => place \in Asking \ {"told"}
      PROVE  Calm'
  <2>1. at'[s] = place /\ OthersStay(s)
    BY <1>1, <1>2, MovedOthers
  <2>2. at[s] \notin Gone /\ (place = "done" => place \in Gone)
    BY <1>2 DEF Asking, Gone
  <2>3. UNCHANGED <<session, active, victim, thread, stopSet, task>>
    BY <1>2
  <2>4. QED
    BY <1>2, <2>1, <2>2, <2>3, PollerCalm
<1>3. Aside /\ active /\ session = s
        => ~stopSet /\ at[s] # "told"
  BY DEF Calm, CallbackSound
<1>4. CASE PollStopped(s)
  <2>1. /\ Moved(s, "done") /\ (at[s] = "told" \/ stopSet) /\ at[s] \in Asking
        /\ UNCHANGED <<session, active, stopVars, task>>
    BY <1>4 DEF PollStopped, Asking
  <2>2. QED
    BY <1>2, <1>3, <2>1
<1>5. CASE PollInterval(s)
  <2>1. /\ Moved(s, "check") /\ at[s] \in Asking
        /\ "check" \in Asking \ {"told"}
        /\ UNCHANGED <<session, active, stopVars, task>>
    BY <1>5 DEF PollInterval, Asking
  <2>2. QED
    BY <1>2, <2>1
<1>6. CASE PollCheck(s)
  <2>1. PICK place \in {"http", "done"} :
          /\ Moved(s, place)
          /\ session = s /\ active => place = "http"
    BY <1>6 DEF PollCheck
  <2>2. /\ at[s] \in Asking /\ "http" \in Asking \ {"told"}
        /\ UNCHANGED <<session, active, stopVars, task>>
    BY <1>6 DEF PollCheck, Asking
  <2>3. QED
    BY <1>2, <2>1, <2>2
<1>7. CASE PollExpired(s)
  <2>1. /\ Moved(s, "terminal") /\ at[s] \in Asking
        /\ "terminal" \in Asking \ {"told"}
        /\ UNCHANGED <<session, active, stopVars, task>>
    BY <1>7 DEF PollExpired, Asking
  <2>2. QED
    BY <1>2, <2>1
<1>8. CASE PollAsk(s)
  <2>1. PICK place \in {"update", "wait"} : Moved(s, place)
    BY <1>8 DEF PollAsk
  <2>2. /\ at[s] \in Asking /\ place \in Asking \ {"told"}
        /\ UNCHANGED <<session, active, stopVars, task>>
    BY <1>8 DEF PollAsk, Asking
  <2>3. QED
    BY <1>2, <2>1, <2>2
<1>9. CASE handle_pin_status_update(s)
  <2>1. PICK place \in {"derive", "terminal", "done", "wait"} :
          /\ Moved(s, place)
          /\ session = s => place # "done"
    BY <1>9 DEF handle_pin_status_update
  <2>2. /\ at[s] \in Asking /\ (place # "done" => place \in Asking \ {"told"})
        /\ UNCHANGED <<session, active, stopVars, task>>
    BY <1>9 DEF handle_pin_status_update, Asking
  <2>3. QED
    BY <1>2, <2>1, <2>2
<1>10. CASE handle_pin_verified(s)
  <2>1. /\ at[s] = "derive"
        /\ active' = IF session = s THEN FALSE ELSE active
        /\ Moved(s, "stop")
        /\ UNCHANGED <<session, task, victim, thread, stopSet>>
    BY <1>10 DEF handle_pin_verified
  <2>2. at'[s] = "stop" /\ OthersStay(s)
    BY <1>1, <2>1, MovedOthers
  <2>3. active' => active /\ session # s
    BY <2>1 DEF PairInv, Types
  <2>4. QED
    BY <2>1, <2>2, <2>3, PollerCalm DEF Asking, Gone
<1>11. CASE PinVerifiedUnusable(s)
  BY <1>11 DEF PinVerifiedUnusable
<1>12. CASE handle_pin_terminal(s)
  <2>1. PICK place \in {"stop", "done"} :
          /\ Moved(s, place) /\ (place = "done" => session # s)
    BY <1>12 DEF handle_pin_terminal
  <2>2. /\ at[s] = "terminal" /\ (active' <=> session # s /\ active)
        /\ UNCHANGED <<session, victim, thread, stopSet, task>>
    BY <1>12 DEF handle_pin_terminal, PairInv, Types
  <2>3. at'[s] = place /\ OthersStay(s)
    BY <1>1, <2>1, MovedOthers
  <2>4. QED
    BY <2>1, <2>2, <2>3, PollerCalm DEF Asking, Gone
<1>13. CASE cancel_remote_session(s)
  <2>1. /\ Moved(s, "done") /\ at[s] = "cancel"
        /\ UNCHANGED <<session, active, victim, thread, stopSet, task>>
    BY <1>13 DEF cancel_remote_session
  <2>2. at'[s] = "done" /\ OthersStay(s)
    BY <1>1, <2>1, MovedOthers
  <2>3. Aside /\ active => session # s
    BY <2>1 DEF Calm, CallbackSound, Asking
  <2>4. QED
    BY <2>1, <2>2, <2>3, PollerCalm DEF Asking, Gone
<1>14. CASE Stop(s)
  BY <1>14, PollerStopCalm
<1>15. QED
  BY <1>4, <1>5, <1>6, <1>7, <1>8, <1>9, <1>10, <1>11, <1>12, <1>13, <1>14
     DEF Poller

(* A callback begins, goes on or ends that has nothing to do with pollers, *)
(* or not yet.                                                             *)
LEMMA AsideCalm ==
  ASSUME PairInv, Calm, Aside, NEW place, at' = [at EXCEPT !["ble"] = place],
         UNCHANGED <<session, active, victim, thread, stopSet>>,
         \/ place \in Before
         \/ /\ place \in {"install", "export", "clear", "reply", "recover", "finalize"}
            /\ task'.op \in PkiOps
  PROVE  Calm'
<1>1. at'["ble"] = place /\ \A r \in Sessions : at'[r] = at[r]
  BY BlePlace
<1>2. ~Stopped' /\ place \notin StopPlaces
  BY <1>1 DEF Stopped, PkiOps, Before, StopPlaces
<1>3. OnePoller'
  BY <1>1, <1>2 DEF Calm, OnePoller, StopPlaces
<1>4. active => session \in Sessions
  BY DEF PairInv, Types
<1>5. CallbackSound'
  BY <1>1, <1>4 DEF Calm, CallbackSound, Before, PkiOps
<1>6. QED
  BY <1>3, <1>5 DEF Calm

(* The callbacks begin.                                                    *)
LEMMA CallbackCalm ==
  ASSUME PairInv, Calm, Callback
  PROVE  Calm'
<1> USE DEF Goto, pinVars, pkiVars, keyVars, stopVars, historyVars, grantVars
<1>1. CASE build_challenge
  <2>1. /\ at["ble"] = "idle" /\ at' = [at EXCEPT !["ble"] = "stop"]
        /\ task'.op = "challenge"
        /\ UNCHANGED <<session, active, victim, thread, stopSet>>
    BY <1>1 DEF build_challenge, Task
  <2>2. at'["ble"] = "stop" /\ \A r \in Sessions : at'[r] = at[r]
    BY <2>1, BlePlace
  <2>3. OnePoller'
    BY <2>1, <2>2 DEF Calm, OnePoller, Stopped
  <2>4. CallbackSound'
    BY <2>1, <2>2 DEF CallbackSound, Aside, Before, PkiOps
  <2>5. QED
    BY <2>3, <2>4 DEF Calm
<1>2. ASSUME UNCHANGED <<session, active, at, task, stopVars>>
      PROVE  Calm'
  BY <1>2 DEF Calm, OnePoller, CallbackSound, Stopped, Aside, NoneLive
<1>3. CASE SyncOnMiss
  BY <1>2, <1>3 DEF SyncOnMiss
<1>4. ASSUME at["ble"] = "idle" PROVE Aside
  BY <1>4 DEF Aside, Before
<1>5. ASSUME NEW s \in Sessions,
             handle_pairing_handshake(s) \/ handle_pairing_key_storage(s)
      PROVE  Calm'
  <2>1. /\ at["ble"] = "idle" /\ UNCHANGED <<session, active, victim, thread, stopSet>>
        /\ \/ UNCHANGED <<at, task>>
           \/ \E place \in {"ack", "kept"} : at' = [at EXCEPT !["ble"] = place]
    BY <1>5 DEF handle_pairing_handshake, handle_pairing_key_storage
  <2>2. CASE UNCHANGED <<at, task>>
    BY <1>2, <2>1, <2>2
  <2>3. ASSUME NEW place \in {"ack", "kept"}, at' = [at EXCEPT !["ble"] = place]
        PROVE  Calm'
    <3>1. place \in Before
      BY DEF Before
    <3>2. QED
      BY <1>4, <2>1, <2>3, <3>1, AsideCalm
  <2>4. QED
    BY <2>1, <2>2, <2>3
<1>6. ASSUME NEW s \in Sessions, PkiCallback(s)
      PROVE  Calm'
  <2>1. /\ at["ble"] = "idle" /\ UNCHANGED <<session, active, victim, thread, stopSet>>
        /\ \/ UNCHANGED <<at, task>>
           \/ /\ task'.op \in PkiOps
              /\ \E place \in {"install", "export", "recover", "finalize"} :
                   at' = [at EXCEPT !["ble"] = place]
    BY <1>6 DEF PkiCallback, seed_pki_session, begin_pki_handshake,
                store_pki_certificate, handle_pki_command, Task, PkiOps
  <2>2. CASE UNCHANGED <<at, task>>
    BY <1>2, <2>1, <2>2
  <2>3. QED
    BY <1>4, <2>1, <2>2, AsideCalm
<1>7. QED
  BY <1>1, <1>3, <1>5, <1>6 DEF Callback

(* The stop of a poller by the BLE thread.                                 *)
LEMMA BleStopCalm ==
  ASSUME PairInv, Calm, Stop("ble"), mishaps' = {}
  PROVE  Calm'
<1> USE DEF Goto, pinVars, pkiVars, keyVars, stopVars, historyVars, grantVars
<1>1. "ble" \in Threads
  BY DEF Threads
<1>2. /\ task.op = "challenge" => AfterStop("ble") = "open"
      /\ task.op = "handshake" => AfterStop("ble") = "export"
      /\ task.op = "store" => AfterStop("ble") = "sync"
  BY DEF AfterStop
<1>3. /\ at["ble"] \in StopPlaces
      /\ task.op \in {"challenge", "handshake", "store"}
  <2>1. at["ble"] \in StopPlaces
    BY <1>1, StopAside
  <2>2. QED
    BY <2>1 DEF PairInv, TaskSound, MayBeAt, StopPlaces
<1>4. UNCHANGED <<session, active, task>>
  BY DEF Stop, StopSet, StopJoin, StopForget, StopFresh
<1>5. ASSUME at'["ble"] \in {"join", "forget", "fresh"}
      PROVE  CallbackSound'
  BY <1>3, <1>4, <1>5 DEF Calm, CallbackSound, Aside, Before, StopPlaces, PkiOps
<1>6. ASSUME NoneLive, DOMAIN victim' = Threads,
             at' = [at EXCEPT !["ble"] = AfterStop("ble")], thread' = thread
      PROVE  Calm'
  <2>1. at'["ble"] = AfterStop("ble") /\ \A r \in Sessions : at'[r] = at[r]
    BY <1>6, BlePlace
  <2>2. OnePoller'
    BY <1>2, <1>3, <1>6, <2>1 DEF Calm, OnePoller, NoneLive
  <2>3. CallbackSound'
    BY <1>2, <1>3, <1>4, <2>1
       DEF Calm, CallbackSound, Aside, Before, StopPlaces, PkiOps
  <2>4. QED
    BY <2>2, <2>3 DEF Calm
<1>7. CASE StopSet("ble")
  <2>1. at["ble"] = "stop" /\ thread' = thread
    BY <1>7 DEF StopSet
  <2>2. CASE thread = None
    <3>1. NoneLive
      BY <2>2, NoneAssumption DEF Calm, OnePoller, NoneLive
    <3>2. /\ at' = [at EXCEPT !["ble"] = AfterStop("ble")]
          /\ DOMAIN victim' = Threads
      BY <1>7, <2>2 DEF StopSet, Calm, OnePoller
    <3>3. QED
      BY <1>6, <2>1, <3>1, <3>2
  <2>3. CASE thread # None
    <3>1. /\ at' = [at EXCEPT !["ble"] = "join"]
          /\ victim'["ble"] = thread /\ DOMAIN victim' = Threads
      BY <1>1, <1>7, <2>3 DEF StopSet, Calm, OnePoller
    <3>2. at'["ble"] = "join" /\ \A r \in Sessions : at'[r] = at[r]
      BY <3>1, BlePlace
    <3>3. thread \in Sessions
      BY <2>3 DEF PairInv, Types
    <3>4. OnePoller'
      BY <2>1, <3>1, <3>2, <3>3 DEF Calm, OnePoller, Stopped
    <3>5. QED
      BY <1>5, <3>2, <3>4 DEF Calm
  <2>4. QED
    BY <2>2, <2>3
<1>8. CASE StopJoin("ble")
  <2>1. /\ at["ble"] = "join" /\ at' = [at EXCEPT !["ble"] = "forget"]
        /\ victim["ble"] = "ble" \/ at[victim["ble"]] = "done"
        /\ UNCHANGED <<victim, thread>>
    BY <1>8 DEF StopJoin
  <2>2. at'["ble"] = "forget" /\ \A r \in Sessions : at'[r] = at[r]
    BY <2>1, BlePlace
  <2>3. victim["ble"] \in Sessions /\ at[victim["ble"]] = "done"
        /\ thread \in {None, victim["ble"]}
    BY <2>1, BleAssumption DEF Calm, OnePoller
  <2>4. NoneLive
    BY <2>3, NoneAssumption DEF Calm, OnePoller, NoneLive, Gone
  <2>5. OnePoller'
    BY <2>1, <2>2, <2>4 DEF Calm, OnePoller, NoneLive
  <2>6. QED
    BY <1>5, <2>2, <2>5 DEF Calm
<1>9. CASE StopForget("ble")
  <2>1. /\ at["ble"] = "forget" /\ at' = [at EXCEPT !["ble"] = "fresh"]
        /\ victim' = victim
    BY <1>9 DEF StopForget
  <2>2. at'["ble"] = "fresh" /\ \A r \in Sessions : at'[r] = at[r]
    BY <2>1, BlePlace
  <2>3. OnePoller'
    <3>1. Stopped
      BY <2>1 DEF Stopped
    <3>2. QED
      BY <1>9, <2>1, <2>2, <3>1 DEF Calm, OnePoller, NoneLive, StopForget, Gone
  <2>4. QED
    BY <1>5, <2>2, <2>3 DEF Calm
<1>10. CASE StopFresh("ble")
  <2>1. /\ at["ble"] = "fresh" /\ thread' = thread
        /\ at' = [Replaced(at) EXCEPT !["ble"] = AfterStop("ble")]
        /\ DOMAIN victim' = Threads
    BY <1>10 DEF StopFresh, Calm, OnePoller
  <2>2. NoneLive
    BY <2>1 DEF Calm, OnePoller, Stopped
  <2>3. \A r \in Threads : at[r] # "wait"
    BY <2>1, <2>2 DEF NoneLive, Gone, Threads
  <2>4. Replaced(at) = at
    BY <2>3 DEF Replaced, PairInv, Places
  <2>5. QED
    BY <1>6, <2>1, <2>2, <2>4
<1>11. QED
  BY <1>7, <1>8, <1>9, <1>10 DEF Stop

(* The callbacks go on.                                                    *)
LEMMA ContinueCalm ==
  ASSUME PairInv, Calm, Continue, mishaps' = {}
  PROVE  Calm'
<1> USE DEF Goto, pinVars, pkiVars, keyVars, stopVars, historyVars, grantVars
<1>1. at["ble"] # "idle" => MayBeAt(task.op, at["ble"]) /\ task.session \in Sessions
  BY DEF PairInv, TaskSound
<1>2. CASE OpenSession
  <2>1. /\ at["ble"] = "open" /\ at' = [at EXCEPT !["ble"] = "export"]
        /\ session' = task.session
        /\ UNCHANGED <<task, victim, thread, stopSet>>
    BY <1>2 DEF OpenSession
  <2>2. at'["ble"] = "export" /\ \A r \in Sessions : at'[r] = at[r]
    BY <2>1, BlePlace
  <2>3. task.op = "challenge" /\ NoneLive
    BY <1>1, <2>1 DEF MayBeAt, StopPlaces, Calm, OnePoller, Stopped
  <2>4. OnePoller'
    BY <2>1, <2>2, <2>3 DEF Calm, OnePoller, NoneLive
  <2>5. CallbackSound'
    BY <2>1, <2>2, <2>3 DEF CallbackSound, Aside, Before, PkiOps
  <2>6. QED
    BY <2>4, <2>5 DEF Calm
<1>3. CASE ExportState \/ ExportNothing
  <2>1. /\ at["ble"] \in {"export", "clear"}
        /\ UNCHANGED <<session, active, task, victim, thread, stopSet>>
    BY <1>3 DEF ExportState, ExportNothing
  <2>2. PICK place \in {"clear", AfterExport} : at' = [at EXCEPT !["ble"] = place]
    BY <1>3 DEF ExportState, ExportNothing
  <2>3. CASE task.op \in PkiOps
    <3>1. place \in {"clear", "reply", "finalize"} /\ Aside
      BY <2>2, <2>3 DEF AfterExport, PkiOps, Aside
    <3>2. QED
      BY <2>1, <2>2, <2>3, <3>1, AsideCalm
  <2>4. CASE task.op \in {"challenge", "handshake"}
    <3>1. place \in {"clear", "start", "reply"}
          /\ (task.op = "challenge" => place # "reply")
          /\ (task.op = "handshake" => place # "start")
      BY <2>2, <2>4 DEF AfterExport
    <3>2. at'["ble"] = place /\ \A r \in Sessions : at'[r] = at[r]
      BY <2>2, BlePlace
    <3>3. NoneLive
      BY <2>1, <2>4 DEF Calm, OnePoller, Stopped
    <3>4. OnePoller'
      BY <2>1, <3>1, <3>2, <3>3 DEF Calm, OnePoller, NoneLive
    <3>5. CallbackSound'
      BY <2>1, <2>4, <3>1, <3>2 DEF Calm, CallbackSound, Aside, Before, PkiOps
    <3>6. QED
      BY <3>4, <3>5 DEF Calm
  <2>5. QED
    BY <1>1, <2>1, <2>3, <2>4 DEF MayBeAt, StopPlaces, PkiOps
<1>4. CASE start_pin_status_poller
  <2>1. /\ at["ble"] = "start" /\ stopSet' = FALSE /\ thread' = task.session
        /\ at' = [Replaced(at) EXCEPT !["ble"] = "idle", ![task.session] = "wait"]
        /\ task' = Idle
        /\ UNCHANGED <<session, active, victim>>
    BY <1>4 DEF start_pin_status_poller
  <2>2. /\ NoneLive /\ session = task.session /\ task.session \in Sessions
    BY <1>1, <2>1 DEF MayBeAt, StopPlaces, Calm, OnePoller, Stopped, CallbackSound
  <2>3. Replaced(at) = at
    <3>1. \A r \in Threads : at[r] # "wait"
      BY <2>1, <2>2 DEF NoneLive, Gone, Threads
    <3>2. QED
      BY <3>1 DEF Replaced, PairInv, Places
  <2>4. /\ at'["ble"] = "idle" /\ at'[task.session] = "wait"
        /\ \A r \in Sessions : r # task.session => at'[r] = at[r]
    BY <2>1, <2>2, <2>3, BleAssumption DEF PairInv, Places, Threads
  <2>5. OnePoller'
    BY <2>1, <2>2, <2>4 DEF Calm, OnePoller, NoneLive, Stopped
  <2>6. CallbackSound'
    BY <2>1, <2>2, <2>4 DEF CallbackSound, Idle, Asking, Before
  <2>7. QED
    BY <2>5, <2>6 DEF Calm
<1>5. CASE AcknowledgeHandshake \/ KeyStored
  <2>1. /\ at["ble"] \in {"ack", "kept"} /\ at' = [at EXCEPT !["ble"] = "stop"]
        /\ active' = IF session = task.session THEN FALSE ELSE active
        /\ ~(active /\ session # task.session)
        /\ UNCHANGED <<session, task, victim, thread, stopSet>>
    BY <1>5 DEF AcknowledgeHandshake, KeyStored, Stray
  <2>2. at'["ble"] = "stop" /\ \A r \in Sessions : at'[r] = at[r]
    BY <2>1, BlePlace
  <2>3. ~active' /\ task.op \in {"handshake", "store"}
    BY <1>1, <2>1 DEF MayBeAt, StopPlaces
  <2>4. OnePoller'
    BY <2>1, <2>2 DEF Calm, OnePoller, Stopped
  <2>5. CallbackSound'
    BY <2>1, <2>2, <2>3 DEF CallbackSound
  <2>6. QED
    BY <2>4, <2>5 DEF Calm
<1>6. CASE SendReply \/ SyncStoredKey
  <2>1. /\ at["ble"] \in {"reply", "sync"} /\ at' = [at EXCEPT !["ble"] = "idle"]
        /\ task' = Idle
        /\ UNCHANGED <<session, active, victim, thread, stopSet>>
    BY <1>6 DEF SendReply, SyncStoredKey
  <2>2. at'["ble"] = "idle" /\ \A r \in Sessions : at'[r] = at[r]
    BY <2>1, BlePlace
  <2>3. OnePoller'
    BY <2>1, <2>2 DEF Calm, OnePoller, Stopped
  <2>4. Aside \/ ~active
    BY <1>1, <2>1 DEF MayBeAt, StopPlaces, Calm, CallbackSound, Aside, Before, PkiOps
  <2>5. CallbackSound'
    <3>1. active => session \in Sessions
      BY DEF PairInv, Types
    <3>2. QED
      BY <2>1, <2>2, <2>4, <3>1 DEF Calm, CallbackSound, Idle, Before
  <2>6. QED
    BY <2>3, <2>5 DEF Calm
<1>7. CASE InstallKey \/ recover_pki_session \/ FinalizeCommand
  <2>1. /\ at["ble"] \in {"install", "recover", "finalize"}
        /\ UNCHANGED <<session, active, victim, thread, stopSet>>
    BY <1>7 DEF InstallKey, recover_pki_session, FinalizeCommand
  <2>2. task.op \in PkiOps /\ Aside
    BY <1>1, <2>1 DEF MayBeAt, StopPlaces, PkiOps, Aside
  <2>3. \/ at' = [at EXCEPT !["ble"] = "idle"]
        \/ /\ task'.op \in {task.op, "recover"}
           /\ \E place \in {"install", "export"} : at' = [at EXCEPT !["ble"] = place]
    BY <1>7 DEF InstallKey, recover_pki_session, FinalizeCommand
  <2>4. CASE at' = [at EXCEPT !["ble"] = "idle"]
    <3>1. "idle" \in Before
      BY DEF Before
    <3>2. QED
      BY <2>1, <2>2, <2>4, <3>1, AsideCalm
  <2>5. CASE /\ task'.op \in {task.op, "recover"}
             /\ \E place \in {"install", "export"} : at' = [at EXCEPT !["ble"] = place]
    <3>1. task'.op \in PkiOps
      BY <2>2, <2>5 DEF PkiOps
    <3>2. QED
      BY <2>1, <2>2, <2>5, <3>1, AsideCalm
  <2>6. QED
    BY <2>3, <2>4, <2>5
<1>8. CASE Stop("ble")
  BY <1>8, BleStopCalm
<1>9. QED
  BY <1>2, <1>3, <1>4, <1>5, <1>6, <1>7, <1>8 DEF Continue

LEMMA WorldCalm ==
  ASSUME PairInv, Calm, World
  PROVE  Calm'
<1> USE DEF pinVars, pkiVars, keyVars, stopVars, historyVars, grantVars
<1>1. CASE enable_pairing \/ \E s \in Sessions : UserEntersPin(s)
  <2>1. UNCHANGED <<session, active, at, task, victim, thread, stopSet>>
    BY <1>1 DEF enable_pairing, UserEntersPin
  <2>2. QED
    BY <2>1 DEF Calm, OnePoller, CallbackSound, Stopped, Aside, NoneLive
<1>2. CASE Restart
  <2>1. /\ DOMAIN victim' = Threads /\ active' = FALSE
        /\ at'["ble"] = "idle" /\ \A s \in Sessions : at'[s] = "done"
    BY <1>2, BleAssumption DEF Restart, NoPinSession, Threads
  <2>2. QED
    BY <2>1 DEF Calm, OnePoller, CallbackSound, Stopped, NoneLive, Gone
<1>3. QED
  BY <1>1, <1>2 DEF World

(* A mishap is not forgotten, nor is a loss.                               *)
LEMMA HistoryStays ==
  ASSUME [Next]_vars
  PROVE  mishaps \subseteq mishaps' /\ losses \subseteq losses'
<1> USE DEF pinVars, pkiVars, keyVars, stopVars, historyVars, grantVars
<1>1. ASSUME NEW t, Stop(t) PROVE mishaps \subseteq mishaps' /\ losses' = losses
  BY <1>1 DEF Stop, StopSet, StopJoin, StopForget, StopFresh
<1>2. ASSUME NEW s \in Sessions, Poller(s)
      PROVE  mishaps \subseteq mishaps' /\ losses \subseteq losses'
  BY <1>1, <1>2 DEF Poller, PollStopped, PollInterval, PollCheck, PollExpired,
       PollAsk, handle_pin_status_update, handle_pin_verified,
       PinVerifiedUnusable, handle_pin_terminal, cancel_remote_session
<1>3. ASSUME sync_keys_from_server \/ RegisterKey \/ KeyRegistered
      PROVE  losses \subseteq losses'
  BY <1>3, StoreFills
<1>4. CASE Callback
  <2>1. CASE build_challenge \/ SyncOnMiss
    BY <1>3, <2>1 DEF build_challenge, SyncOnMiss
  <2>2. ASSUME NEW s \in Sessions,
               handle_pairing_handshake(s) \/ handle_pairing_key_storage(s)
        PROVE  mishaps \subseteq mishaps' /\ losses \subseteq losses'
    BY <2>2 DEF handle_pairing_handshake, handle_pairing_key_storage, Flushed, FlushFails
  <2>3. ASSUME NEW s \in Sessions, PkiCallback(s)
        PROVE  mishaps \subseteq mishaps' /\ losses \subseteq losses'
    BY <1>3, <2>3 DEF PkiCallback, seed_pki_session, begin_pki_handshake,
                      store_pki_certificate, handle_pki_command
  <2>4. QED
    BY <1>4, <2>1, <2>2, <2>3 DEF Callback
<1>5. CASE Continue
  <2>1. CASE OpenSession \/ start_pin_status_poller \/ SendReply \/ InstallKey
             \/ recover_pki_session \/ FinalizeCommand
    BY <2>1 DEF OpenSession, start_pin_status_poller, SendReply, InstallKey,
                recover_pki_session, FinalizeCommand
  <2>2. CASE ExportState \/ ExportNothing
    BY <2>2 DEF ExportState, ExportNothing, ExportTo
  <2>3. CASE AcknowledgeHandshake \/ KeyStored
    BY <2>3 DEF AcknowledgeHandshake, KeyStored, Stray
  <2>4. CASE SyncStoredKey
    BY <1>3, <2>4 DEF SyncStoredKey
  <2>5. QED
    BY <1>1, <1>5, <2>1, <2>2, <2>3, <2>4 DEF Continue
<1>6. CASE World
  BY <1>6, RestartLoads DEF World, enable_pairing, Restart, UserEntersPin
<1>7. CASE UNCHANGED vars
  BY <1>7 DEF vars
<1>8. QED
  BY <1>2, <1>4, <1>5, <1>6, <1>7 DEF Next

LEMMA AlwaysCalm == Spec => [](mishaps = {} => Calm)
<1> DEFINE Quiet == mishaps = {} => Calm
<1>1. Init => Quiet
  <2> SUFFICES ASSUME Init PROVE Calm
    OBVIOUS
  <2>1. at["ble"] = "idle" /\ \A s \in Sessions : at[s] = "done"
    BY BleAssumption DEF Init, Threads
  <2>2. QED
    BY <2>1 DEF Init, Calm, OnePoller, CallbackSound, Stopped, Gone, Threads
<1>2. PairInv /\ Quiet /\ [Next]_vars => Quiet'
  <2> SUFFICES ASSUME PairInv, Quiet, [Next]_vars, mishaps' = {} PROVE Calm'
    OBVIOUS
  <2>1. Calm
    BY HistoryStays
  <2>2. CASE UNCHANGED vars
    <3>1. UNCHANGED <<session, active, at, task, victim, thread, stopSet>>
      BY <2>2 DEF vars, pinVars, stopVars
    <3>2. QED
      BY <2>1, <3>1 DEF Calm, OnePoller, CallbackSound, Stopped, Aside, NoneLive
  <2>3. QED
    BY <2>1, <2>2, CallbackCalm, ContinueCalm, WorldCalm, PollersCalm DEF Next
<1>3. QED
  BY <1>1, <1>2, PairInvHolds, PTL DEF Spec

(* A session that is waiting for its PIN has a living poller that nobody   *)
(* has told to stop, although stopping and starting pollers is not         *)
(* protected by a lock (_stop_pin_status_poller).                          *)
THEOREM AlwaysWatched == Spec => []ActiveIsWatched
<1>1. (mishaps = {} => Calm) => ActiveIsWatched
  BY DEF Calm, CallbackSound, Aside, Before, ActiveIsWatched, Watched, Asking
<1>2. QED
  BY <1>1, AlwaysCalm, PTL

-----------------------------------------------------------------------------
(* Without losses: what a handshake was acknowledged with is the exported  *)
(* key, and is in the file as well, but for the time from the handshake to *)
(* its export; a key that is looked up and put back loses nothing.         *)
Settled == task.op # "handshake" \/ at["ble"] \in {"idle", "reply"}

OnFile ==
  /\ pkiFile # None /\ pkiFile.session = acked.session
  /\ acked.entry = "signed" => pkiFile.entry = "signed"

Acked ==
  /\ acked.session \in Sessions /\ pki_state = acked.session
  /\ pki[acked.session] # "none"
  /\ acked.entry = "signed" => pki[acked.session] = "signed"
  /\ Settled => OnFile

PutBack ==
  at["ble"] = "install" /\ task.op = "begin" /\ acked.session = task.session
    => (acked.entry = "signed" => task.entry = "signed")

AckKept ==
  /\ acked # None => Acked /\ PutBack
  /\ at["ble"] = "clear" => acked = None

(* A step that changes no key.                                             *)
LEMMA AckApart ==
  ASSUME AckKept, UNCHANGED <<pki, pki_state, pkiFile, acked>>,
         at'["ble"] \notin {"install", "clear"} \/ UNCHANGED <<task, at>>,
         Settled' => Settled
  PROVE  AckKept'
  BY DEF AckKept, Acked, OnFile, PutBack

(* A step that forgets the handshake.                                      *)
LEMMA AckForgotten ==
  ASSUME acked' = None
  PROVE  AckKept'
  BY DEF AckKept

(* An exported key makes a file.                                           *)
LEMMA IsFile ==
  ASSUME PairInv, NEW s \in Sessions, pki[s] # "none"
  PROVE  [session |-> s, entry |-> pki[s]] # None
<1>1. pki[s] \in {"derived", "signed"}
  BY DEF PairInv, Types, Entries
<1>2. [session |-> s, entry |-> pki[s]]
        \in [session : Sessions, entry : {"derived", "signed"}]
  BY <1>1
<1>3. QED
  BY <1>2, FileAssumption

LEMMA CallbackAck ==
  ASSUME PairInv, AckKept, Callback
  PROVE  AckKept'
<1> USE DEF Goto, pinVars, pkiVars, keyVars, stopVars, historyVars, grantVars
<1>1. ASSUME at["ble"] = "idle" PROVE Settled
  BY <1>1 DEF Settled
<1>2. CASE build_challenge
  <2>1. /\ at["ble"] = "idle" /\ at' = [at EXCEPT !["ble"] = "stop"]
        /\ UNCHANGED <<pki, pki_state, pkiFile, acked>>
    BY <1>2 DEF build_challenge
  <2>2. at'["ble"] = "stop"
    BY <2>1, BlePlace
  <2>3. QED
    BY <1>1, <2>1, <2>2, AckApart
<1>3. CASE SyncOnMiss
  <2>1. UNCHANGED <<pki, pki_state, pkiFile, acked, task, at>> /\ at["ble"] = "idle"
    BY <1>3 DEF SyncOnMiss
  <2>2. QED
    BY <1>1, <2>1, AckApart
<1>4. ASSUME NEW s \in Sessions, handle_pairing_handshake(s)
      PROVE  AckKept'
  <2>1. /\ at' = [at EXCEPT !["ble"] = "ack"] /\ pki[s] # "none"
        /\ task' = Task("handshake", s)
        /\ pki' = pki \/ pki' = [pki EXCEPT ![s] = "signed"]
        /\ acked' = IF pki_state = s THEN [session |-> s, entry |-> pki'[s]] ELSE None
        /\ UNCHANGED <<pki_state, pkiFile>>
    BY <1>4 DEF handle_pairing_handshake
  <2>2. at'["ble"] = "ack" /\ task'.op = "handshake"
    BY <2>1, BlePlace DEF Task
  <2>3. ~Settled'
    BY <2>2 DEF Settled
  <2>4. pki'[s] # "none"
    BY <2>1 DEF PairInv, Types
  <2>5. acked' # None => Acked' /\ PutBack'
    <3> SUFFICES ASSUME acked' # None PROVE Acked' /\ PutBack'
      OBVIOUS
    <3>1. /\ acked'.session = s /\ acked'.entry = pki'[s] /\ pki_state' = s
      BY <2>1
    <3>2. QED
      BY <2>2, <2>3, <2>4, <3>1 DEF Acked, PutBack
  <2>6. QED
    BY <2>2, <2>5 DEF AckKept
<1>5. ASSUME NEW s \in Sessions, handle_pairing_key_storage(s)
      PROVE  AckKept'
  <2>1. /\ at["ble"] = "idle" /\ UNCHANGED <<pki, pki_state, pkiFile, acked>>
        /\ at' = [at EXCEPT !["ble"] = "kept"] \/ UNCHANGED <<task, at>>
    BY <1>5 DEF handle_pairing_key_storage
  <2>2. at'["ble"] = "kept" \/ UNCHANGED <<task, at>>
    BY <2>1, BlePlace
  <2>3. QED
    BY <1>1, <2>1, <2>2, AckApart
<1>6. ASSUME NEW s \in Sessions, seed_pki_session(s)
      PROVE  AckKept'
  <2>1. /\ at["ble"] = "idle" /\ at' = [at EXCEPT !["ble"] = "install"]
        /\ task' = [op |-> "seed", session |-> s, entry |-> "signed"]
        /\ UNCHANGED <<pki, pki_state, pkiFile, acked>>
    BY <1>6 DEF seed_pki_session
  <2>2. at'["ble"] = "install" /\ task'.op = "seed"
    BY <2>1, BlePlace
  <2>3. QED
    BY <1>1, <2>1, <2>2 DEF AckKept, Acked, OnFile, PutBack
<1>7. ASSUME NEW s \in Sessions, begin_pki_handshake(s)
      PROVE  AckKept'
  <2>1. /\ at["ble"] = "idle" /\ at' = [at EXCEPT !["ble"] = "install"]
        /\ task' = [op |-> "begin", session |-> s, entry |-> pki[s]]
        /\ UNCHANGED <<pki, pki_state, pkiFile, acked>>
    BY <1>7 DEF begin_pki_handshake
  <2>2. at'["ble"] = "install" /\ task'.session = s /\ task'.entry = pki[s]
    BY <2>1, BlePlace
  <2>3. acked # None => Acked' /\ PutBack'
    BY <1>1, <2>1, <2>2 DEF AckKept, Acked, OnFile, PutBack
  <2>4. QED
    BY <2>1, <2>2, <2>3 DEF AckKept
<1>8. ASSUME NEW s \in Sessions, store_pki_certificate(s)
      PROVE  AckKept'
  <2>1. at["ble"] = "idle" /\ UNCHANGED <<pki, pkiFile>>
    BY <1>8 DEF store_pki_certificate
  <2>2. CASE pki[s] = "none"
    <3>1. UNCHANGED <<pki_state, task, at, acked>>
      BY <1>8, <2>2 DEF store_pki_certificate
    <3>2. QED
      BY <1>1, <2>1, <3>1, AckApart
  <2>3. CASE pki[s] # "none"
    <3>1. /\ pki_state' = s /\ at' = [at EXCEPT !["ble"] = "export"]
          /\ acked' = IF acked # None /\ acked.session = s THEN acked ELSE None
      BY <1>8, <2>3 DEF store_pki_certificate
    <3>2. at'["ble"] = "export"
      BY <3>1, BlePlace
    <3>3. QED
      BY <1>1, <2>1, <3>1, <3>2 DEF AckKept, Acked, OnFile, PutBack
  <2>4. QED
    BY <2>2, <2>3
<1>9. ASSUME NEW s \in Sessions, handle_pki_command(s)
      PROVE  AckKept'
  <2>1. /\ at["ble"] = "idle" /\ UNCHANGED <<pki, pki_state, pkiFile, acked>>
        /\ \E place \in {"recover", "finalize"} : at' = [at EXCEPT !["ble"] = place]
    BY <1>9 DEF handle_pki_command
  <2>2. at'["ble"] \in {"recover", "finalize"}
    BY <2>1, BlePlace
  <2>3. QED
    BY <1>1, <2>1, <2>2, AckApart
<1>10. QED
  BY <1>2, <1>3, <1>4, <1>5, <1>6, <1>7, <1>8, <1>9 DEF Callback, PkiCallback

LEMMA ContinueAck ==
  ASSUME PairInv, AckKept, Continue, losses' = {}
  PROVE  AckKept'
<1> USE DEF Goto, pinVars, pkiVars, keyVars, stopVars, historyVars, grantVars
<1>1. at["ble"] # "idle" => MayBeAt(task.op, at["ble"]) /\ task.session \in Sessions
  BY DEF PairInv, TaskSound
<1>2. CASE OpenSession
  BY <1>2, AckForgotten DEF OpenSession
<1>3. CASE ExportState
  <2>1. /\ at["ble"] = "export" /\ UNCHANGED <<pki, pki_state, task, acked>>
        /\ \/ /\ pki_state = None /\ at' = [at EXCEPT !["ble"] = "clear"]
              /\ pkiFile' = pkiFile
           \/ /\ at' = [at EXCEPT !["ble"] = AfterExport]
              /\ pki_state # None
              /\ pkiFile' = [session |-> pki_state, entry |-> pki[pki_state]]
    BY <1>3 DEF ExportState, ExportTo
  <2>2. CASE pki_state = None
    <3>1. acked = None
      BY <2>2, NoneAssumption DEF AckKept, Acked
    <3>2. QED
      BY <2>1, <3>1, AckForgotten
  <2>3. CASE pki_state # None
    <3>1. /\ at' = [at EXCEPT !["ble"] = AfterExport]
          /\ pkiFile' = [session |-> pki_state, entry |-> pki[pki_state]]
      BY <2>1, <2>3
    <3>2. at'["ble"] \notin {"install", "clear"}
      <4>1. AfterExport \in {"start", "finalize", "reply"}
        BY DEF AfterExport
      <4>2. at'["ble"] = AfterExport
        BY <3>1, BlePlace
      <4>3. QED
        BY <4>1, <4>2
    <3>3. acked # None => OnFile'
      <4> SUFFICES ASSUME acked # None PROVE OnFile'
        OBVIOUS
      <4>1. /\ acked.session \in Sessions /\ pki_state = acked.session
            /\ pki[acked.session] # "none"
            /\ acked.entry = "signed" => pki[acked.session] = "signed"
        BY DEF AckKept, Acked
      <4>2. pkiFile' # None
        BY <3>1, <4>1, IsFile
      <4>3. QED
        BY <2>1, <3>1, <4>1, <4>2 DEF OnFile
    <3>4. QED
      BY <2>1, <3>2, <3>3 DEF AckKept, Acked, PutBack
  <2>4. QED
    BY <2>2, <2>3
<1>4. CASE ExportNothing
  <2>1. acked' = None
    BY <1>4 DEF ExportNothing, AckKept
  <2>2. QED
    BY <2>1, AckForgotten
<1>5. CASE start_pin_status_poller
  <2>1. /\ UNCHANGED <<pki, pki_state, pkiFile, acked>> /\ at["ble"] = "start"
        /\ at' = [Replaced(at) EXCEPT !["ble"] = "idle", ![task.session] = "wait"]
    BY <1>5 DEF start_pin_status_poller
  <2>2. task.op = "challenge" /\ task.session # "ble" /\ "ble" \in Threads
    BY <1>1, <2>1, BleAssumption DEF MayBeAt, StopPlaces, Threads
  <2>3. at'["ble"] = "idle" /\ Settled
    BY <2>1, <2>2 DEF Replaced, Settled
  <2>4. QED
    BY <2>1, <2>3, AckApart
<1>6. CASE AcknowledgeHandshake \/ KeyStored
  <2>1. /\ UNCHANGED <<pki, pki_state, pkiFile, acked, task>>
        /\ at["ble"] \in {"ack", "kept"} /\ at' = [at EXCEPT !["ble"] = "stop"]
    BY <1>6 DEF AcknowledgeHandshake, KeyStored
  <2>2. at'["ble"] = "stop"
    BY <2>1, BlePlace
  <2>3. Settled' => Settled
    BY <2>1, <2>2 DEF Settled
  <2>4. QED
    BY <2>1, <2>2, <2>3, AckApart
<1>7. CASE SendReply \/ SyncStoredKey
  <2>1. /\ UNCHANGED <<pki, pki_state, pkiFile, acked>>
        /\ at["ble"] \in {"reply", "sync"} /\ at' = [at EXCEPT !["ble"] = "idle"]
    BY <1>7 DEF SendReply, SyncStoredKey
  <2>2. at'["ble"] = "idle" /\ Settled
    BY <1>1, <2>1, BlePlace DEF Settled, MayBeAt, StopPlaces
  <2>3. QED
    BY <2>1, <2>2, AckApart
<1>8. CASE InstallKey
  <2>1. /\ at["ble"] = "install" /\ at' = [at EXCEPT !["ble"] = "export"]
        /\ pki_state' = task.session
        /\ pki' = [pki EXCEPT ![task.session] = task.entry]
        /\ acked' = IF task.op = "begin" /\ acked # None /\ acked.session = task.session
                    THEN acked ELSE None
        /\ UNCHANGED <<pkiFile, task>>
    BY <1>8 DEF InstallKey
  <2>2. CASE acked' = None
    BY <2>2, AckForgotten
  <2>3. CASE acked' # None
    <3>1. /\ task.op = "begin" /\ acked' = acked /\ acked # None
          /\ acked.session = task.session
      BY <2>1, <2>3
    <3>2. at'["ble"] = "export"
      BY <2>1, BlePlace
    <3>3. pki'[task.session] = task.entry /\ task.entry # "none"
      BY <1>1, <2>1 DEF PairInv, Types, InstallSound
    <3>4. Settled
      BY <3>1 DEF Settled
    <3>5. Acked /\ PutBack
      BY <3>1 DEF AckKept
    <3>6. Acked'
      BY <2>1, <3>1, <3>3, <3>4, <3>5 DEF Acked, OnFile, PutBack
    <3>7. QED
      BY <3>2, <3>6 DEF AckKept, PutBack
  <2>4. QED
    BY <2>2, <2>3
<1>9. CASE recover_pki_session
  <2>1. /\ UNCHANGED <<pki, pki_state, pkiFile, acked>> /\ at["ble"] = "recover"
        /\ \/ task'.op = "recover" /\ at' = [at EXCEPT !["ble"] = "install"]
           \/ task' = Idle /\ at' = [at EXCEPT !["ble"] = "idle"]
    BY <1>9 DEF recover_pki_session
  <2>2. at'["ble"] # "clear" /\ (at'["ble"] = "install" => task'.op = "recover")
    <3>1. CASE at' = [at EXCEPT !["ble"] = "install"]
      <4>1. at'["ble"] = "install"
        BY <3>1, BlePlace
      <4>2. task'.op = "recover"
        BY <2>1, <4>1, BlePlace
      <4>3. QED
        BY <4>1, <4>2
    <3>2. CASE at' = [at EXCEPT !["ble"] = "idle"]
      <4>1. at'["ble"] = "idle"
        BY <3>2, BlePlace
      <4>2. QED
        BY <4>1
    <3>3. QED
      BY <2>1, <3>1, <3>2
  <2>3. Settled
    BY <1>1, <2>1 DEF Settled, MayBeAt, StopPlaces
  <2>4. QED
    BY <2>1, <2>2, <2>3 DEF AckKept, Acked, OnFile, PutBack
<1>10. CASE FinalizeCommand
  <2>1. /\ at["ble"] = "finalize" /\ at' = [at EXCEPT !["ble"] = "idle"]
        /\ pki' = pki \/ (pki[task.session] # "none"
                          /\ pki' = [pki EXCEPT ![task.session] = "signed"])
        /\ UNCHANGED <<pki_state, pkiFile, acked>>
    BY <1>10 DEF FinalizeCommand
  <2>2. at'["ble"] = "idle" /\ Settled
    BY <1>1, <2>1, BlePlace DEF Settled, MayBeAt, StopPlaces
  <2>3. \A r \in Sessions : /\ pki'[r] # "none" <=> pki[r] # "none"
                            /\ pki[r] = "signed" => pki'[r] = "signed"
    BY <2>1 DEF PairInv, Types
  <2>4. QED
    BY <2>1, <2>2, <2>3 DEF AckKept, Acked, OnFile, PutBack
<1>11. CASE Stop("ble")
  <2>1. "ble" \in Threads
    BY DEF Threads
  <2>2. /\ UNCHANGED <<pki, pki_state, pkiFile, acked, task>>
        /\ at["ble"] \in StopPlaces
        /\ at'["ble"] \in {"join", "forget", "fresh", AfterStop("ble")}
    BY <1>11, <2>1, StopAside
  <2>3. task.op \in {"challenge", "handshake", "store"}
    BY <1>1, <2>2 DEF MayBeAt, StopPlaces
  <2>4. AfterStop("ble") \in {"open", "export", "sync"}
    BY <2>3 DEF AfterStop
  <2>5. Settled' => Settled
    BY <2>2, <2>4 DEF Settled
  <2>6. QED
    BY <2>2, <2>4, <2>5, AckApart
<1>12. QED
  BY <1>2, <1>3, <1>4, <1>5, <1>6, <1>7, <1>8, <1>9, <1>10, <1>11 DEF Continue

(* A restart that finds the file as it was exported restores the key.      *)
LEMMA WorldAck ==
  ASSUME PairInv, AckKept, World, losses' = {}
  PROVE  AckKept'
<1> USE DEF pinVars, pkiVars, keyVars, stopVars, historyVars, grantVars
<1>1. CASE enable_pairing \/ \E s \in Sessions : UserEntersPin(s)
  <2>1. UNCHANGED <<pki, pki_state, pkiFile, acked, task, at>>
    BY <1>1 DEF enable_pairing, UserEntersPin
  <2>2. QED
    BY <2>1, AckApart DEF Settled
<1>2. CASE Restart
  <2>1. /\ acked' = IF task.op = "handshake" THEN None ELSE acked
        /\ at'["ble"] = "idle"
    BY <1>2 DEF Restart, Threads
  <2>2. LoadSession(pkiFile)
    <3>1. PICK torn \in SUBSET Writing :
            LET session_file == IF "session" \in torn THEN None ELSE pkiFile
            IN /\ \/ LoadSession(session_file)
                  \/ LoadNoSession(session_file) /\ "incomplete" \in losses'
               /\ "session" \in torn => "torn" \in losses'
      BY <1>2, RestartLoads
    <3>2. QED
      BY <3>1
  <2>3. CASE acked' = None
    BY <2>3, AckForgotten
  <2>4. CASE acked' # None
    <3>1. acked' = acked /\ acked # None /\ Settled
      BY <2>1, <2>4 DEF Settled
    <3>2. Acked /\ OnFile
      BY <3>1 DEF AckKept, Acked
    <3>3. pkiFile.entry # "none"
      BY <3>2 DEF OnFile, PairInv, Types, Exported
    <3>4. /\ pkiFile' = pkiFile /\ pki_state' = acked.session
          /\ pki'[acked.session] = pkiFile.entry
      BY <2>2, <3>2 DEF LoadSession, Restored, Acked, OnFile
    <3>5. Acked'
      BY <3>1, <3>2, <3>3, <3>4 DEF Acked, OnFile
    <3>6. QED
      BY <2>1, <3>5 DEF AckKept, PutBack
  <2>5. QED
    BY <2>3, <2>4
<1>3. QED
  BY <1>1, <1>2 DEF World

(* The key that a handshake was acknowledged for is kept, as far as it was *)
(* acknowledged, until another key is installed or exported: over PKI      *)
(* commands, a poller that came late and restarts, as long as every export *)
(* was written and read back whole (export_state, _load_cached_pki_session).*)
THEOREM AcknowledgedKept == Spec => []AcknowledgedSurvives
<1> DEFINE Whole == losses = {} => AckKept
<1>1. Init => Whole
  BY AckForgotten DEF Init, AckKept
<1>2. PairInv /\ Whole /\ [Next]_vars => Whole'
  <2> SUFFICES ASSUME PairInv, Whole, [Next]_vars, losses' = {} PROVE AckKept'
    OBVIOUS
  <2>1. AckKept
    BY HistoryStays
  <2>2. CASE UNCHANGED vars
    <3>1. UNCHANGED <<pki, pki_state, pkiFile, acked, task, at>>
      BY <2>2 DEF vars, pkiVars, historyVars
    <3>2. QED
      BY <2>1, <3>1, AckApart DEF Settled
  <2>3. ASSUME NEW s \in Sessions, Poller(s) PROVE AckKept'
    <3>1. CASE handle_pin_verified(s)
      BY <3>1, AckForgotten DEF handle_pin_verified
    <3>2. CASE UNCHANGED <<pki, pki_state, acked>>
      <4>1. UNCHANGED <<pki, pki_state, pkiFile, acked, task>> /\ at'["ble"] = at["ble"]
        BY <2>3, <3>2, PollerAside
      <4>2. QED
        BY <2>1, <4>1 DEF AckKept, Acked, OnFile, PutBack, Settled
    <3>3. QED
      BY <2>3, <3>1, <3>2, PollerAside
  <2>4. QED
    BY <2>1, <2>2, <2>3, CallbackAck, ContinueAck, WorldAck DEF Next
<1>3. Whole => AcknowledgedSurvives
  BY DEF AckKept, Acked, AcknowledgedSurvives
<1>4. QED
  BY <1>1, <1>2, <1>3, PairInvHolds, PTL DEF Spec

=============================================================================
