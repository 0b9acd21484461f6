---------------------------- MODULE OtaApplyProofs ----------------------------
(***************************************************************************)
(* What the OTA service keeps on disk, for any set of updates: the proofs  *)
(* that a whole program always survives, that the recorded version is the  *)
(* installed one, and that OtaApply implements OtaInstall.                 *)
(***************************************************************************)
EXTENDS OtaApply, TLAPS

(* The service's variables hold values of their kind: an update in work    *)
(* has a step, and only an idle service has no update.                     *)
THEOREM TypeCorrect == Spec => []TypeOK
<1>1. Init => TypeOK
  BY DEF Init, TypeOK, Programs
<1>2. TypeOK /\ [Next]_applyVars => TypeOK'
  <2> SUFFICES ASSUME TypeOK, [Next]_applyVars PROVE TypeOK'
    OBVIOUS
  <2> USE DEF TypeOK, Steps, Programs, Idle, At, GoTo
  <2>1. ASSUME NEW u \in Updates, on_message(u) PROVE TypeOK'
    BY <2>1 DEF on_message
  <2>2. CASE Confirm
    BY <2>2 DEF Confirm
  <2>3. CASE download_file
    BY <2>3 DEF download_file
  <2>4. CASE download_fails
    BY <2>4 DEF download_fails
  <2>5. CASE verify_checksum
    BY <2>5 DEF verify_checksum
  <2>6. CASE BackUp
    BY <2>6 DEF BackUp
  <2>7. CASE Replace
    BY <2>7 DEF Replace
  <2>8. CASE RestartProgram
    BY <2>8 DEF RestartProgram
  <2>9. CASE load_versions
    BY <2>9 DEF load_versions
  <2>10. CASE save_versions
    BY <2>10 DEF save_versions
  <2>11. CASE Die
    BY <2>11 DEF Die
  <2>12. CASE UNCHANGED applyVars
    BY <2>12 DEF applyVars
  <2> QED
    BY <2>1, <2>2, <2>3, <2>4, <2>5, <2>6, <2>7, <2>8, <2>9, <2>10, <2>11, <2>12
       DEF Next, apply_ota
<1> QED
  BY <1>1, <1>2, PTL DEF Spec

-----------------------------------------------------------------------------

(* Only whole files are moved into the place of the program, and the place *)
(* is emptied after what was there has been kept: every step preserves it. *)
LEMMA SurvivalStep ==
  ASSUME TypeOK, SurvivalInv, [Next]_applyVars
  PROVE  SurvivalInv'
<1> USE UpdatesAssumption
    DEF TypeOK, Steps, Programs, Idle, At, GoTo,
        SurvivalInv, WholeFiles, ProgramSurvives, CheckedInbox
<1>1. ASSUME NEW u \in Updates, on_message(u) PROVE SurvivalInv'
  BY <1>1 DEF on_message
<1>2. CASE Confirm
  BY <1>2 DEF Confirm
<1>3. CASE download_file
  BY <1>3 DEF download_file
<1>4. CASE download_fails
  BY <1>4 DEF download_fails
<1>5. CASE verify_checksum
  BY <1>5 DEF verify_checksum
<1>6. CASE BackUp
  BY <1>6 DEF BackUp
<1>7. CASE Replace
  BY <1>7 DEF Replace
<1>8. CASE RestartProgram
  BY <1>8 DEF RestartProgram
<1>9. CASE load_versions
  BY <1>9 DEF load_versions
<1>10. CASE save_versions
  BY <1>10 DEF save_versions
<1>11. CASE Die
  BY <1>11 DEF Die
<1>12. CASE UNCHANGED applyVars
  BY <1>12 DEF applyVars
<1> QED
  BY <1>1, <1>2, <1>3, <1>4, <1>5, <1>6, <1>7, <1>8, <1>9, <1>10, <1>11, <1>12
     DEF Next, apply_ota

LEMMA SurvivalInvariant == Spec => []SurvivalInv
<1>1. Init => SurvivalInv
  BY UpdatesAssumption
     DEF Init, SurvivalInv, WholeFiles, ProgramSurvives, CheckedInbox, Programs, Idle
<1> QED
  BY <1>1, SurvivalStep, TypeCorrect, PTL DEF Spec

(* Wherever the service dies, a whole program is at its place or, when the *)
(* place is empty, in the backup directory.                                *)
THEOREM SurvivalCorrect == Spec => []ProgramSurvives
<1>1. SurvivalInv => ProgramSurvives
  BY DEF SurvivalInv
<1> QED
  BY <1>1, SurvivalInvariant, PTL

-----------------------------------------------------------------------------

(* The record is touched only while the update is in place.                *)
LEMMA RecordedStep ==
  ASSUME TypeOK, SurvivalInv, RecordedInv, [Next]_applyVars
  PROVE  RecordedInv'
<1> USE UpdatesAssumption
    DEF TypeOK, Steps, Programs, Idle, At, GoTo, SurvivalInv, CheckedInbox,
        RecordedInv, RecordOf
<1>1. ASSUME NEW u \in Updates, on_message(u) PROVE RecordedInv'
  BY <1>1 DEF on_message
<1>2. CASE Confirm
  BY <1>2 DEF Confirm
<1>3. CASE download_file
  BY <1>3 DEF download_file
<1>4. CASE download_fails
  BY <1>4 DEF download_fails
<1>5. CASE verify_checksum
  BY <1>5 DEF verify_checksum
<1>6. CASE BackUp
  BY <1>6 DEF BackUp
<1>7. CASE Replace
  BY <1>7 DEF Replace
<1>8. CASE RestartProgram
  BY <1>8 DEF RestartProgram
<1>9. CASE load_versions
  BY <1>9 DEF load_versions
<1>10. CASE save_versions
  BY <1>10 DEF save_versions
<1>11. CASE Die
  BY <1>11 DEF Die
<1>12. CASE UNCHANGED applyVars
  BY <1>12 DEF applyVars
<1> QED
  BY <1>1, <1>2, <1>3, <1>4, <1>5, <1>6, <1>7, <1>8, <1>9, <1>10, <1>11, <1>12
     DEF Next, apply_ota

(* As long as no update was cut short, versions.json names the program     *)
(* installed whenever the service is idle.                                 *)
THEOREM RecordedCorrect == Spec => []RecordedIsInstalled
<1>1. Init => RecordedInv
  BY UpdatesAssumption DEF Init, RecordedInv, RecordOf, At, Idle
<1>2. RecordedInv => RecordedIsInstalled
  BY DEF RecordedInv, RecordedIsInstalled, Idle
<1> QED
  BY <1>1, <1>2, RecordedStep, TypeCorrect, SurvivalInvariant, PTL DEF Spec

-----------------------------------------------------------------------------

(* Taking the backup for the program while its place is empty, every step  *)
(* of the service and every crash is a step of OtaInstall or a stutter:    *)
(* the program in the car changes in one step, to the update in work.      *)
THEOREM ApplyImplementsInstall == Spec => RefinesInstall
<1>1. Init => Abstract!Init
  BY UpdatesAssumption DEF Init, Idle, Abstract!Init
<1>2. TypeOK /\ SurvivalInv /\ [Next]_applyVars
      => [Abstract!Next]_(Abstract!installVars)
  <2> SUFFICES ASSUME TypeOK, SurvivalInv, [Next]_applyVars
               PROVE  [Abstract!Next]_(Abstract!installVars)
    OBVIOUS
  <2> USE UpdatesAssumption
      DEF TypeOK, Steps, Programs, Idle, At, GoTo, SurvivalInv, CheckedInbox,
          WholeFiles, Abstract!Next, Abstract!installVars
  <2>1. ASSUME NEW u \in Updates, on_message(u)
        PROVE  Abstract!Take(u)
    BY <2>1 DEF on_message, Abstract!Take
  <2>2. CASE Confirm
    BY <2>2 DEF Confirm, Abstract!GiveUp
  <2>3. CASE download_file
    BY <2>3 DEF download_file
  <2>4. CASE download_fails
    BY <2>4 DEF download_fails, Abstract!GiveUp
  <2>5. CASE verify_checksum
    BY <2>5 DEF verify_checksum, Abstract!GiveUp
  <2>6. CASE BackUp
    BY <2>6 DEF BackUp
  <2>7. CASE Replace
    <3>1. Abstract!Install
      BY <2>7 DEF Replace, Abstract!Install
    <3> QED
      BY <3>1
  <2>8. CASE RestartProgram
    BY <2>8 DEF RestartProgram
  <2>9. CASE load_versions
    BY <2>9 DEF load_versions, Abstract!GiveUp
  <2>10. CASE save_versions
    BY <2>10 DEF save_versions, Abstract!GiveUp
  <2>11. CASE Die
    BY <2>11 DEF Die, Abstract!GiveUp
  <2>12. CASE UNCHANGED applyVars
    BY <2>12 DEF applyVars
  <2> QED
    BY <2>1, <2>2, <2>3, <2>4, <2>5, <2>6, <2>7, <2>8, <2>9, <2>10, <2>11, <2>12
       DEF Next, apply_ota
<1> QED
  BY <1>1, <1>2, TypeCorrect, SurvivalInvariant, PTL
     DEF Spec, RefinesInstall, Abstract!Spec

=============================================================================
