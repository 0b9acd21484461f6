----------------------------- MODULE OtaPipeline -----------------------------
(***************************************************************************)
(* An update's way into the car, over an MQTT broker: a publisher on the   *)
(* PC notifies the car until it is told that the user approved, the        *)
(* terminal UI asks the user, the bridge forwards an approved update to    *)
(* the OTA service (OtaApply).  The broker keeps one queue per subscriber; *)
(* a client that is away for a moment misses messages, since every session *)
(* is clean, and a message sent again after a broken connection arrives    *)
(* twice.                                                                  *)
(***************************************************************************)
EXTENDS Integers, Sequences

CONSTANTS
  Updates,     \* update payloads
  Confirmed,   \* those with require_confirm, which ask once more
  Version(_),  \* the version an update carries
  Original,    \* the program installed at first
  None,        \* no update, no answer
  MaxQueue,    \* bound: messages in a queue when another is published
  MaxFaults    \* bound: lost and repeated messages, restarts, failed updates

ASSUME UpdatesAssumption == Original \notin Updates /\ None \notin Updates
ASSUME BoundsAssumption == MaxQueue \in Nat /\ MaxFaults \in Nat

VARIABLES
  run,        \* the publisher of each update: "idle" before it is started
  acks,       \* queue of decisions for each publisher
  toUi,       \* queue of notified updates for the terminal UI
  toBridge,   \* queue of notifications and decisions for the bridge
  toService,  \* queue of updates for the OTA service
  pending,    \* _pending_notify of the UI
  deciding,   \* the UI's main thread in publish_decision
  latest,     \* _latest_notify of the bridge
  processed,  \* _processed_versions of the bridge
  busy, program,  \* see OtaInstall
  approved,   \* history: versions the user has said yes to
  faults      \* history: number of faults so far

Service == INSTANCE OtaInstall

publisherVars == <<run, acks>>
uiVars == <<toUi, pending, deciding, approved>>
bridgeVars == <<toBridge, latest, processed>>
installVars == <<busy, program>>
serviceVars == <<toService, installVars>>
vars == <<publisherVars, uiVars, bridgeVars, serviceVars, faults>>

NotDeciding == [update |-> None, answer |-> None, at |-> "idle"]
Notify(u) == [kind |-> "notify", update |-> u]
Decision(answer, v) == [kind |-> answer, version |-> v]

Init ==
  /\ run = [u \in Updates |-> "idle"]
  /\ acks = [u \in Updates |-> <<>>]
  /\ toUi = <<>> /\ toBridge = <<>> /\ toService = <<>>
  /\ pending = None /\ deciding = NotDeciding /\ approved = {}
  /\ latest = None /\ processed = {}
  /\ Service!Init
  /\ faults = 0

-----------------------------------------------------------------------------
(* publish_ota_message, one run for each update: publish, wait for the     *)
(* ack event until the prompt interval is over, and publish again.  An ack *)
(* that arrives between the two is one that arrives after the second.      *)

Publish(u) ==
  /\ run[u] \in {"idle", "waiting"}
  /\ Len(toUi) < MaxQueue /\ Len(toBridge) < MaxQueue
  /\ toUi' = Append(toUi, u)
  /\ toBridge' = Append(toBridge, Notify(u))
  /\ run' = [run EXCEPT ![u] = "waiting"]
  /\ UNCHANGED <<acks, pending, deciding, approved, latest, processed,
                 serviceVars, faults>>

Leave(u, how) ==
  /\ run' = [run EXCEPT ![u] = how]
  /\ acks' = [acks EXCEPT ![u] = <<>>]

Ignore(u) == acks' = [acks EXCEPT ![u] = Tail(@)] /\ UNCHANGED run

(* Mutant: any answer ends the run. *)
handle_ack_any(u) ==
  /\ acks[u] # <<>>
  /\ Leave(u, "stopped")
  /\ UNCHANGED <<uiVars, bridgeVars, serviceVars, faults>>

(* Any approval ends the run: the ack's version is not looked at. *)
handle_ack(u) ==
  /\ acks[u] # <<>>
  /\ IF Head(acks[u]) = "yes" THEN Leave(u, "stopped") ELSE Ignore(u)
  /\ UNCHANGED <<uiVars, bridgeVars, serviceVars, faults>>

(* --no-repeat, --max-repeat or Ctrl-C end a run without an approval. *)
GiveUp(u) ==
  /\ run[u] = "waiting"
  /\ Leave(u, "ended")
  /\ UNCHANGED <<uiVars, bridgeVars, serviceVars, faults>>

-----------------------------------------------------------------------------
(* The terminal UI: MQTT's thread stores notifications, the main thread    *)
(* publishes the decision, then the ack, then clears what is pending.      *)

UiReceive ==
  /\ toUi # <<>>
  /\ pending' = Head(toUi)
  /\ toUi' = Tail(toUi)
  /\ UNCHANGED <<publisherVars, deciding, approved, bridgeVars, serviceVars, faults>>

publish_decision(answer) ==
  /\ deciding.at = "idle" /\ pending # None
  /\ Len(toBridge) < MaxQueue
  /\ toBridge' = Append(toBridge, Decision(answer, Version(pending)))
  /\ deciding' = [update |-> pending, answer |-> answer, at |-> "ack"]
  /\ approved' = IF answer = "yes" THEN approved \cup {Version(pending)} ELSE approved
  /\ UNCHANGED <<publisherVars, toUi, pending, latest, processed, serviceVars, faults>>

Waiting == {u \in Updates : run[u] = "waiting"}

publish_ack ==
  /\ deciding.at = "ack"
  /\ \A u \in Waiting : Len(acks[u]) < MaxQueue
  /\ acks' = [u \in Updates |-> IF u \in Waiting THEN Append(acks[u], deciding.answer)
                                ELSE acks[u]]
  /\ deciding' = [deciding EXCEPT !.at = "clear"]
  /\ UNCHANGED <<run, toUi, pending, approved, bridgeVars, serviceVars, faults>>

(* Mutant: the answer is not forgotten. *)
ClearPendingOnly ==
  /\ deciding.at = "clear"
  /\ pending' = None
  /\ deciding' = [deciding EXCEPT !.at = "idle"]
  /\ UNCHANGED <<publisherVars, toUi, approved, bridgeVars, serviceVars, faults>>

ClearPending ==
  /\ deciding.at = "clear"
  /\ pending' = None
  /\ deciding' = NotDeciding
  /\ UNCHANGED <<publisherVars, toUi, approved, bridgeVars, serviceVars, faults>>

-----------------------------------------------------------------------------

(* Mutant: the decision's version is not compared with the notification's. *)
AcceptsAnyVersion(decision) ==
  /\ decision.kind = "yes"
  /\ latest # None
  /\ Version(latest) \notin processed

(* _handle_decision forwards the newest notification's update, once, if    *)
(* the decision is for its version.  A publish that fails still counts.    *)
Accepts(decision) ==
  /\ decision.kind = "yes"
  /\ latest # None
  /\ decision.version = Version(latest)
  /\ decision.version \notin processed

(* Mutant: a version is marked before it is checked, and never forwarded. *)
handle_decision_marking(decision) ==
  /\ processed' = processed \cup {decision.version}
  /\ UNCHANGED <<toService, latest>>

handle_decision(decision) ==
  /\ IF Accepts(decision)
     THEN /\ toService' = Append(toService, latest)
          /\ processed' = processed \cup {decision.version}
     ELSE UNCHANGED <<toService, processed>>
  /\ UNCHANGED latest

handle_notify(u) == latest' = u /\ UNCHANGED <<toService, processed>>

BridgeReceive ==
  /\ toBridge # <<>>
  /\ toBridge' = Tail(toBridge)
  /\ LET message == Head(toBridge)
     IN IF message.kind = "notify" THEN handle_notify(message.update)
                                   ELSE handle_decision(message)
  /\ UNCHANGED <<publisherVars, uiVars, installVars, faults>>

ServiceReceive ==
  /\ toService # <<>>
  /\ Service!Take(Head(toService))
  /\ toService' = Tail(toService)
  /\ UNCHANGED <<publisherVars, uiVars, bridgeVars, faults>>

ServiceWork ==
  /\ Service!Install \/ Service!Finish
  /\ UNCHANGED <<publisherVars, uiVars, bridgeVars, toService, faults>>

ServiceDeclines ==
  /\ busy \in Confirmed
  /\ Service!GiveUp
  /\ UNCHANGED <<publisherVars, uiVars, bridgeVars, toService, faults>>

-----------------------------------------------------------------------------
(* Faults.                                                                 *)

Fault == faults < MaxFaults /\ faults' = faults + 1

(* A queue after its first message is lost or repeated. *)
Altered(q) == IF q = <<>> THEN {} ELSE {Tail(q), <<Head(q)>> \o q}

LoseOrRepeat ==
  /\ Fault
  /\ \/ toUi' \in Altered(toUi) /\ UNCHANGED <<acks, toBridge, toService>>
     \/ toBridge' \in Altered(toBridge) /\ UNCHANGED <<acks, toUi, toService>>
     \/ toService' \in Altered(toService) /\ UNCHANGED <<acks, toUi, toBridge>>
     \/ /\ \E u \in Updates :
             \E q \in Altered(acks[u]) : acks' = [acks EXCEPT ![u] = q]
        /\ UNCHANGED <<toUi, toBridge, toService>>
  /\ UNCHANGED <<run, pending, deciding, approved, latest, processed, installVars>>

UiRestart ==
  /\ Fault
  /\ toUi' = <<>> /\ pending' = None /\ deciding' = NotDeciding
  /\ UNCHANGED <<publisherVars, approved, bridgeVars, serviceVars>>

BridgeRestart ==
  /\ Fault
  /\ toBridge' = <<>> /\ latest' = None /\ processed' = {}
  /\ UNCHANGED <<publisherVars, uiVars, serviceVars>>

ServiceRestart ==
  /\ Fault
  /\ Service!GiveUp \/ UNCHANGED installVars
  /\ toService' = <<>>
  /\ UNCHANGED <<publisherVars, uiVars, bridgeVars>>

UpdateFails ==
  /\ Fault
  /\ Service!GiveUp
  /\ UNCHANGED <<publisherVars, uiVars, bridgeVars, toService>>

-----------------------------------------------------------------------------

UiThread == publish_ack \/ ClearPending

Next ==
  \/ \E u \in Updates : Publish(u) \/ handle_ack(u) \/ GiveUp(u)
  \/ UiReceive \/ UiThread
  \/ \E answer \in {"yes", "no"} : publish_decision(answer)
  \/ BridgeReceive \/ ServiceReceive \/ ServiceWork \/ ServiceDeclines
  \/ LoseOrRepeat \/ UiRestart \/ BridgeRestart \/ ServiceRestart \/ UpdateFails

Spec == Init /\ [][Next]_vars

(* Every loop goes on; nothing is assumed of the operator and the user.    *)
(* Publishing is strongly fair only because of the bound on the queues.    *)
LiveSpec ==
  /\ Spec
  /\ \A u \in Updates : /\ SF_vars(run[u] = "waiting" /\ Publish(u))
                        /\ WF_vars(handle_ack(u))
  /\ WF_vars(UiReceive) /\ WF_vars(UiThread) /\ WF_vars(BridgeReceive)
  /\ WF_vars(ServiceReceive) /\ WF_vars(ServiceWork)

-----------------------------------------------------------------------------

Versions == {Version(u) : u \in Updates}

Messages(yes) ==
  {Notify(u) : u \in Updates} \cup {Decision("no", v) : v \in Versions}
    \cup {Decision("yes", v) : v \in yes}

TypeOK ==
  /\ run \in [Updates -> {"idle", "waiting", "stopped", "ended"}]
  /\ acks \in [Updates -> Seq({"yes", "no"})]
  /\ toUi \in Seq(Updates) /\ toService \in Seq(Updates)
  /\ toBridge \in Seq(Messages(Versions))
  /\ pending \in Updates \cup {None} /\ latest \in Updates \cup {None}
  /\ deciding \in [update : Updates, answer : {"yes", "no"}, at : {"ack", "clear"}]
                    \cup {NotDeciding}
  /\ processed \subseteq Versions /\ approved \subseteq Versions
  /\ busy \in Updates \cup {None} /\ program \in Updates \cup {Original}
  /\ faults \in 0 .. MaxFaults

(* Whatever is lost, repeated or restarted, and however prompts overtake   *)
(* each other, only versions the user has said yes to are ever installed.  *)
InstalledWasApproved ==
  \A u \in Updates : program = u => Version(u) \in approved

(* Why: what asks for an install, and what is being installed, always has  *)
(* its approval.                                                           *)
ApprovedUpdates == {u \in Updates : Version(u) \in approved}

OnlyApproved ==
  /\ toBridge \in Seq(Messages(approved))
  /\ toService \in Seq(ApprovedUpdates)
  /\ busy \in ApprovedUpdates \cup {None}
  /\ program \in ApprovedUpdates \cup {Original}

(* A publisher that waits gets its question to the user, again after every *)
(* "no", lost message and restart, and although the UI clears a prompt     *)
(* that came in while it published an answer, until the operator ends it   *)
(* or an approval stops it.                                                *)
AskedAgain ==
  \A u \in Updates :
    run[u] = "waiting" ~> \/ pending = u
                          \/ run[u] = "ended"
                          \/ run[u] = "stopped" /\ approved # {}

(* Two publishers at a time get in each other's way, and a fault after the *)
(* ack is not made good; but a lone update that the user approves is       *)
(* installed when nothing fails.                                           *)
Alone(u) == \A w \in Updates \ {u} : run[w] = "idle"

ApprovedIsInstalled ==
  \A u \in Updates \ Confirmed :
    [](Alone(u) /\ faults = 0) => [](Version(u) \in approved => <>(program = u))

(* A publisher repeats its notification for as long as it waits for the    *)
(* approval (the help of --max-repeat in ota_publisher.py and send_ota.py):*)
(* when an approval has stopped it, its own update was approved.           *)
StoppedWasApproved ==
  \A u \in Updates : run[u] = "stopped" => Version(u) \in approved

=============================================================================
