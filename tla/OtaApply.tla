------------------------------- MODULE OtaApply -------------------------------
(***************************************************************************)
(* The OTA service of the vehicle computer: apply_ota downloads an update, *)
(* checks it, moves the installed program to the backup directory and the  *)
(* new one into its place, restarts it and records the version.  All       *)
(* updates are for one program.  The process may die between any two of    *)
(* its calls; what is on disk stays.  Every update carries a checksum:     *)
(* send_ota.py computes it (an empty one would not be checked).            *)
(***************************************************************************)
EXTENDS Integers

CONSTANTS
  Updates,     \* update payloads
  Confirmed,   \* those with require_confirm, which ask once more
  Version(_),  \* the version an update carries
  Original,    \* the program installed at first
  Damaged,     \* a download that is not what the checksum says
  None         \* no file, no update

ASSUME UpdatesAssumption ==
  Original \notin Updates /\ Damaged \notin Updates \cup {Original}
    /\ None \notin Updates \cup {Original, Damaged}
    /\ \A u \in Updates : Version(u) # Damaged

VARIABLES
  job,       \* the update on_message is working on, and its next step
  inbox,     \* temp_file
  target,    \* the file at target_path
  backup,    \* the newest file in backup_dir
  recorded,  \* versions.json's entry: the version, or Damaged when truncated
  cut        \* history: an update was cut short by a crash or an exception

applyVars == <<job, inbox, target, backup, recorded, cut>>

Idle == [update |-> None, at |-> "idle"]

At(step) == job.at = step
GoTo(step) == job' = [update |-> job.update, at |-> step]

Init ==
  /\ job = Idle
  /\ inbox = None
  /\ target = Original
  /\ backup = None
  /\ recorded = None
  /\ cut = FALSE

(* on_message takes an update; one with require_confirm asks first. *)
on_message(u) ==
  /\ At("idle")
  /\ job' = [update |-> u, at |-> IF u \in Confirmed THEN "confirm" ELSE "download"]
  /\ UNCHANGED <<inbox, target, backup, recorded, cut>>

(* The answer; without a terminal there is none and the update is dropped. *)
Confirm ==
  /\ At("confirm")
  /\ GoTo("download") \/ job' = Idle
  /\ UNCHANGED <<inbox, target, backup, recorded, cut>>

(* What the file server has: the right file or, rebuilt or cut short,      *)
(* another one.                                                            *)
download_file ==
  /\ At("download")
  /\ inbox' \in {job.update, Damaged}
  /\ GoTo("verify")
  /\ UNCHANGED <<target, backup, recorded, cut>>

(* The download fails and leaves a partial file or none. *)
download_fails ==
  /\ At("download")
  /\ inbox' \in {inbox, Damaged}
  /\ job' = Idle
  /\ UNCHANGED <<target, backup, recorded, cut>>

(* Mutant: a mismatch is logged and the update goes on. *)
verify_checksum_ignored ==
  /\ At("verify")
  /\ GoTo("backup")
  /\ UNCHANGED <<inbox, target, backup, recorded, cut>>

verify_checksum ==
  /\ At("verify")
  /\ IF inbox = job.update THEN GoTo("backup") ELSE job' = Idle
  /\ UNCHANGED <<inbox, target, backup, recorded, cut>>

(* Mutant: the old file is removed instead of kept. *)
RemoveOld ==
  /\ At("backup")
  /\ target' = None
  /\ GoTo("replace")
  /\ UNCHANGED <<inbox, backup, recorded, cut>>

BackUp ==
  /\ At("backup")
  /\ backup' = IF target = None THEN backup ELSE target
  /\ target' = None
  /\ GoTo("replace")
  /\ UNCHANGED <<inbox, recorded, cut>>

Replace ==
  /\ At("replace")
  /\ target' = inbox
  /\ inbox' = None
  /\ GoTo("restart")
  /\ UNCHANGED <<backup, recorded, cut>>

(* Mutant: a failed restart ends the update. *)
RestartOrGiveUp ==
  /\ At("restart")
  /\ GoTo("versions") \/ job' = Idle
  /\ UNCHANGED <<inbox, target, backup, recorded, cut>>

(* The program is restarted; a failure is only logged. *)
RestartProgram ==
  /\ At("restart")
  /\ GoTo("versions")
  /\ UNCHANGED <<inbox, target, backup, recorded, cut>>

(* load_versions fails on a truncated file; save_versions truncates it,    *)
(* then writes.                                                            *)
load_versions ==
  /\ At("versions")
  /\ IF recorded = Damaged THEN job' = Idle ELSE GoTo("save")
  /\ recorded' = Damaged
  /\ UNCHANGED <<inbox, target, backup, cut>>

(* Mutant: the update stays set when it is done. *)
SaveAndKeepUpdate ==
  /\ At("save")
  /\ recorded' = Version(job.update)
  /\ GoTo("idle")
  /\ UNCHANGED <<inbox, target, backup, cut>>

save_versions ==
  /\ At("save")
  /\ recorded' = Version(job.update)
  /\ job' = Idle
  /\ UNCHANGED <<inbox, target, backup, cut>>

(* The service, or the whole computer, stops and systemd starts it again,  *)
(* or a call of apply_ota raises, which on_message only logs.  Nothing     *)
(* resumes the update.                                                     *)
Die ==
  /\ cut' = (cut \/ job # Idle)
  /\ job' = Idle
  /\ UNCHANGED <<inbox, target, backup, recorded>>

apply_ota ==
  \/ download_file \/ verify_checksum \/ BackUp \/ Replace
  \/ RestartProgram \/ load_versions \/ save_versions

Next == \/ \E u \in Updates : on_message(u)
        \/ Confirm \/ download_fails \/ apply_ota \/ Die

Spec == Init /\ [][Next]_applyVars

-----------------------------------------------------------------------------

Programs == Updates \cup {Original}

Steps == {"confirm", "download", "verify", "backup", "replace", "restart",
          "versions", "save"}

TypeOK ==
  /\ job \in [update : Updates, at : Steps] \cup {Idle}
  /\ inbox \in Updates \cup {None, Damaged}
  /\ target \in Programs \cup {None, Damaged}
  /\ backup \in Programs \cup {None, Damaged}
  /\ recorded \in {Version(u) : u \in Updates} \cup {None, Damaged}
  /\ cut \in BOOLEAN

(* Whenever the service dies, a whole program is on disk: at its place, or *)
(* in the backup directory when the place is empty.                        *)
ProgramSurvives ==
  /\ target # Damaged
  /\ target = None => backup \in Programs

(* Why: from the check on the inbox holds the checked update, only whole   *)
(* files are ever moved, and the place is emptied after the backup.        *)
CheckedInbox == job.at \in {"backup", "replace"} => inbox = job.update

WholeFiles == target \in Programs \cup {None} /\ backup \in Programs \cup {None}

SurvivalInv == WholeFiles /\ ProgramSurvives /\ CheckedInbox

RecordOf(file) == IF file \in Updates THEN Version(file) ELSE None

(* As long as no update was cut short, the recorded version is that of the *)
(* program installed, also when its restart failed.                        *)
RecordedIsInstalled == ~cut /\ job = Idle => recorded = RecordOf(target)

(* Why: up to the backup nothing has changed, and from the restart on the  *)
(* update is in place.                                                     *)
RecordedInv ==
  ~cut =>
    /\ At("save") \/ recorded # Damaged
    /\ job.at \in {"idle", "confirm", "download", "verify", "backup"} =>
         target # None /\ recorded = RecordOf(target)
    /\ job.at \in {"restart", "versions", "save"} => target = job.update

(* Taking the backup for the program while its place is empty, apply_ota   *)
(* changes the program in one step, however it is interrupted.             *)
Abstract == INSTANCE OtaInstall
              WITH busy <- job.update,
                   program <- IF target = None THEN backup ELSE target

RefinesInstall == Abstract!Spec

=============================================================================
