------------------------------ MODULE OtaInstall ------------------------------
(***************************************************************************)
(* What the OTA service promises: there is always a whole program in the   *)
(* car, and it only ever changes, in one step, to the update the service   *)
(* is working on.  An update may be given up at any moment.                *)
(***************************************************************************)

CONSTANTS Updates, Original, None

VARIABLES
  busy,    \* the update being worked on, or None
  program  \* the program in the car

installVars == <<busy, program>>

Init == busy = None /\ program = Original

Take(u) == busy = None /\ busy' = u /\ UNCHANGED program

Install == busy \in Updates /\ program' = busy /\ UNCHANGED busy

Finish == busy \in Updates /\ program = busy /\ busy' = None /\ UNCHANGED program

GiveUp == busy \in Updates /\ busy' = None /\ UNCHANGED program

Next == (\E u \in Updates : Take(u)) \/ Install \/ Finish \/ GiveUp

Spec == Init /\ [][Next]_installVars

=============================================================================
