-------------------------- MODULE OtaPipelineProofs --------------------------
(***************************************************************************)
(* No update is installed that the user has not approved: the proof for    *)
(* any set of updates and publishers and any number of lost and repeated   *)
(* messages and restarts.                                                  *)
(***************************************************************************)
EXTENDS OtaPipeline, TLAPS

(* Queues: taking the first message, losing it or seeing it twice leaves   *)
(* messages of the same kind, and so does adding one.                      *)
LEMMA QueueKeepsKind ==
  ASSUME NEW S, NEW q \in Seq(S), q # <<>>
  PROVE  Head(q) \in S /\ Tail(q) \in Seq(S)
OBVIOUS

LEMMA AlteredKeepsKind ==
  ASSUME NEW S, NEW q \in Seq(S), NEW r \in Altered(q)
  PROVE  r \in Seq(S)
<1>1. q # <<>>
  BY DEF Altered
<1>2. Head(q) \in S /\ Tail(q) \in Seq(S)
  BY <1>1, QueueKeepsKind
<1>3. <<Head(q)>> \o q \in Seq(S)
  <2>1. <<Head(q)>> \in Seq(S)
    BY <1>2
  <2> QED
    BY <2>1
<1> QED
  BY <1>2, <1>3 DEF Altered

LEMMA WiderKind ==
  ASSUME NEW S, NEW T, S \subseteq T, NEW q \in Seq(S)
  PROVE  q \in Seq(T)
OBVIOUS

-----------------------------------------------------------------------------
(* Every update that asks to be installed, is being installed or is the    *)
(* program has its approval: preserved by every step.                      *)

Kept == UNCHANGED <<toBridge, toService, approved, busy, program>>

LEMMA KeptKeepsApproved ==
  ASSUME OnlyApproved, Kept
  PROVE  OnlyApproved'
BY DEF OnlyApproved, Kept, Messages, ApprovedUpdates

LEMMA InstallKeepsApproved ==
  ASSUME OnlyApproved, UNCHANGED <<toBridge, approved>>,
         toService' \in Seq(ApprovedUpdates),
         \/ Service!Install \/ Service!Finish \/ Service!GiveUp
         \/ UNCHANGED installVars
  PROVE  OnlyApproved'
BY UpdatesAssumption
   DEF OnlyApproved, Messages, ApprovedUpdates, installVars,
       Service!Install, Service!Finish, Service!GiveUp

LEMMA PublishKeepsApproved ==
  ASSUME OnlyApproved, NEW u \in Updates, Publish(u)
  PROVE  OnlyApproved'
<1>1. Notify(u) \in Messages(approved)
  BY DEF Messages
<1>2. toBridge' \in Seq(Messages(approved))
  BY <1>1 DEF Publish, OnlyApproved
<1> QED
  BY <1>2 DEF OnlyApproved, Publish, serviceVars, installVars, Messages, ApprovedUpdates

LEMMA DecideKeepsApproved ==
  ASSUME TypeOK, OnlyApproved, NEW answer \in {"yes", "no"}, publish_decision(answer)
  PROVE  OnlyApproved'
<1>1. pending \in Updates /\ Version(pending) \in Versions
  BY DEF TypeOK, publish_decision, Versions
<1>2. approved \subseteq approved' /\ (answer = "yes" => Version(pending) \in approved')
  BY DEF publish_decision
<1>3. toBridge' \in Seq(Messages(approved'))
  <2>1. Messages(approved) \subseteq Messages(approved')
    BY <1>2 DEF Messages
  <2>2. toBridge \in Seq(Messages(approved'))
    BY <2>1, WiderKind DEF OnlyApproved
  <2>3. Decision(answer, Version(pending)) \in Messages(approved')
    BY <1>1, <1>2 DEF Messages
  <2> QED
    BY <2>2, <2>3 DEF publish_decision
<1>4. ApprovedUpdates \subseteq ApprovedUpdates'
  BY <1>2 DEF ApprovedUpdates
<1>5. toService' \in Seq(ApprovedUpdates')
  BY <1>4, WiderKind DEF OnlyApproved, publish_decision, serviceVars
<1>6. Messages(approved)' = Messages(approved')
  BY DEF Messages
<1> QED
  BY <1>3, <1>4, <1>5, <1>6 DEF OnlyApproved, publish_decision, serviceVars, installVars

(* The bridge forwards an update only on a "yes" for its version.          *)
LEMMA BridgeKeepsApproved ==
  ASSUME TypeOK, OnlyApproved, BridgeReceive
  PROVE  OnlyApproved'
<1> DEFINE message == Head(toBridge)
<1>1. message \in Messages(approved) /\ toBridge' \in Seq(Messages(approved))
  BY QueueKeepsKind DEF OnlyApproved, BridgeReceive
<1>2. toService' \in Seq(ApprovedUpdates)
  <2>1. CASE message.kind = "notify"
    BY <2>1 DEF BridgeReceive, handle_notify, OnlyApproved
  <2>2. CASE message.kind # "notify" /\ ~Accepts(message)
    BY <2>2 DEF BridgeReceive, handle_decision, OnlyApproved
  <2>3. CASE message.kind # "notify" /\ Accepts(message)
    <3>1. message.version \in approved
      BY <2>3, <1>1 DEF Messages, Notify, Decision, Accepts
    <3>2. latest \in ApprovedUpdates
      BY <2>3, <3>1 DEF Accepts, TypeOK, ApprovedUpdates
    <3> QED
      BY <2>3, <3>2 DEF BridgeReceive, handle_decision, OnlyApproved
  <2> QED
    BY <2>1, <2>2, <2>3
<1>3. UNCHANGED <<approved, busy, program>>
  BY DEF BridgeReceive, uiVars, installVars
<1> QED
  BY <1>1, <1>2, <1>3 DEF OnlyApproved, Messages, ApprovedUpdates

LEMMA ServiceKeepsApproved ==
  ASSUME OnlyApproved, ServiceReceive
  PROVE  OnlyApproved'
<1>1. Head(toService) \in ApprovedUpdates /\ toService' \in Seq(ApprovedUpdates)
  BY QueueKeepsKind DEF OnlyApproved, ServiceReceive
<1>2. busy' \in ApprovedUpdates /\ UNCHANGED <<program, approved, toBridge>>
  BY <1>1 DEF ServiceReceive, Service!Take, uiVars, bridgeVars
<1> QED
  BY <1>1, <1>2 DEF OnlyApproved, Messages, ApprovedUpdates

LEMMA LossKeepsApproved ==
  ASSUME OnlyApproved, LoseOrRepeat
  PROVE  OnlyApproved'
<1>1. toBridge' \in Seq(Messages(approved))
  BY AlteredKeepsKind DEF LoseOrRepeat, OnlyApproved
<1>2. toService' \in Seq(ApprovedUpdates)
  BY AlteredKeepsKind DEF LoseOrRepeat, OnlyApproved
<1>3. UNCHANGED <<approved, busy, program>>
  BY DEF LoseOrRepeat, installVars
<1> QED
  BY <1>1, <1>2, <1>3 DEF OnlyApproved, Messages, ApprovedUpdates

LEMMA BridgeRestartKeepsApproved ==
  ASSUME OnlyApproved, BridgeRestart
  PROVE  OnlyApproved'
BY DEF OnlyApproved, BridgeRestart, uiVars, serviceVars, installVars, Messages, ApprovedUpdates

-----------------------------------------------------------------------------
(* What each variable holds: one lemma per kind of step.                   *)

LEMMA PublisherKeepsTypes ==
  ASSUME TypeOK, NEW u \in Updates, Publish(u) \/ handle_ack(u) \/ GiveUp(u)
  PROVE  TypeOK'
<1> USE DEF TypeOK, Messages, uiVars, bridgeVars, serviceVars, installVars
<1>1. CASE Publish(u)
  <2>1. Notify(u) \in Messages(Versions)
    OBVIOUS
  <2>2. toBridge' \in Seq(Messages(Versions)) /\ toUi' \in Seq(Updates)
    BY <1>1, <2>1 DEF Publish
  <2> QED
    BY <1>1, <2>2 DEF Publish, Versions
<1>2. CASE handle_ack(u)
  <2>1. Tail(acks[u]) \in Seq({"yes", "no"})
    BY <1>2, QueueKeepsKind DEF handle_ack
  <2>2. acks' \in [Updates -> Seq({"yes", "no"})]
    <3>1. PICK q \in Seq({"yes", "no"}) : acks' = [acks EXCEPT ![u] = q]
      <4>1. <<>> \in Seq({"yes", "no"})
        OBVIOUS
      <4>2. CASE Head(acks[u]) = "yes"
        BY <1>2, <4>1, <4>2 DEF handle_ack, Leave
      <4>3. CASE Head(acks[u]) # "yes"
        BY <1>2, <2>1, <4>3 DEF handle_ack, Ignore
      <4> QED
        BY <4>2, <4>3
    <3>2. acks \in [Updates -> Seq({"yes", "no"})]
      OBVIOUS
    <3> QED
      BY <3>1, <3>2, Zenon
  <2>3. run' \in [Updates -> {"idle", "waiting", "stopped", "ended"}]
    BY <1>2 DEF handle_ack, Leave, Ignore
  <2> QED
    BY <1>2, <2>2, <2>3 DEF handle_ack, Versions
<1>3. CASE GiveUp(u)
  BY <1>3 DEF GiveUp, Leave, Versions
<1> QED
  BY <1>1, <1>2, <1>3

LEMMA UiKeepsTypes ==
  ASSUME TypeOK, UiReceive \/ UiThread
  PROVE  TypeOK'
<1> USE DEF TypeOK, Messages, Versions, NotDeciding,
            publisherVars, bridgeVars, serviceVars, installVars
<1>1. CASE UiReceive
  <2>1. Head(toUi) \in Updates /\ Tail(toUi) \in Seq(Updates)
    BY <1>1, QueueKeepsKind DEF UiReceive
  <2> QED
    BY <1>1, <2>1 DEF UiReceive
<1>2. CASE publish_ack
  <2>1. deciding.answer \in {"yes", "no"}
    BY <1>2 DEF publish_ack
  <2>2. acks' \in [Updates -> Seq({"yes", "no"})]
    <3> DEFINE entry(w) == IF w \in Waiting THEN Append(acks[w], deciding.answer)
                                            ELSE acks[w]
    <3>1. \A w \in Updates : entry(w) \in Seq({"yes", "no"})
      BY <2>1
    <3>2. acks' = [w \in Updates |-> entry(w)]
      BY <1>2 DEF publish_ack
    <3> HIDE DEF entry
    <3> QED
      BY <3>1, <3>2, Zenon
  <2>3. deciding' \in [update : Updates, answer : {"yes", "no"}, at : {"ack", "clear"}]
    <3>1. deciding \in [update : Updates, answer : {"yes", "no"}, at : {"ack", "clear"}]
      BY <1>2 DEF publish_ack
    <3>2. deciding' = [deciding EXCEPT !.at = "clear"]
      BY <1>2 DEF publish_ack
    <3> QED
      BY <3>1, <3>2
  <2> QED
    BY <1>2, <2>2, <2>3 DEF publish_ack
<1>3. CASE ClearPending
  BY <1>3 DEF ClearPending
<1> QED
  BY <1>1, <1>2, <1>3 DEF UiThread

LEMMA DecideKeepsTypes ==
  ASSUME TypeOK, NEW answer \in {"yes", "no"}, publish_decision(answer)
  PROVE  TypeOK'
<1>1. pending \in Updates /\ Version(pending) \in Versions
  BY DEF TypeOK, publish_decision, Versions
<1>2. Decision(answer, Version(pending)) \in Messages(Versions)
  BY <1>1 DEF Messages
<1>3. toBridge' \in Seq(Messages(Versions))
  BY <1>2 DEF TypeOK, publish_decision
<1>4. approved' \subseteq Versions
  BY <1>1 DEF TypeOK, publish_decision
<1>5. deciding' \in [update : Updates, answer : {"yes", "no"}, at : {"ack", "clear"}]
  BY <1>1 DEF publish_decision
<1> QED
  BY <1>3, <1>4, <1>5 DEF TypeOK, publish_decision, Messages, Versions,
                          publisherVars, serviceVars, installVars

LEMMA BridgeKeepsTypes ==
  ASSUME TypeOK, BridgeReceive
  PROVE  TypeOK'
<1> DEFINE message == Head(toBridge)
<1>1. message \in Messages(Versions) /\ toBridge' \in Seq(Messages(Versions))
  BY QueueKeepsKind DEF TypeOK, BridgeReceive
<1>2. /\ latest' \in Updates \cup {None} /\ processed' \subseteq Versions
      /\ toService' \in Seq(Updates)
  <2>1. CASE message.kind = "notify"
    <3>1. message.update \in Updates
      BY <2>1, <1>1 DEF Messages, Notify, Decision
    <3> QED
      BY <2>1, <3>1 DEF TypeOK, BridgeReceive, handle_notify
  <2>2. CASE message.kind # "notify"
    <3>1. message.version \in Versions
      BY <2>2, <1>1 DEF Messages, Notify, Decision
    <3>2. Accepts(message) => latest \in Updates
      BY DEF Accepts, TypeOK
    <3>3. latest' = latest
      BY <2>2 DEF BridgeReceive, handle_decision
    <3>4. processed' \in {processed, processed \cup {message.version}}
      BY <2>2 DEF BridgeReceive, handle_decision
    <3>5. CASE Accepts(message)
      <4>1. toService' = Append(toService, latest)
        BY <2>2, <3>5 DEF BridgeReceive, handle_decision
      <4> QED
        BY <3>1, <3>2, <3>3, <3>4, <3>5, <4>1 DEF TypeOK
    <3>6. CASE ~Accepts(message)
      <4>1. toService' = toService
        BY <2>2, <3>6 DEF BridgeReceive, handle_decision
      <4> QED
        BY <3>1, <3>3, <3>4, <4>1 DEF TypeOK
    <3> QED
      BY <3>5, <3>6
  <2> QED
    BY <2>1, <2>2
<1> QED
  BY <1>1, <1>2 DEF TypeOK, BridgeReceive, Messages, Versions, publisherVars, uiVars, installVars

LEMMA ServiceKeepsTypes ==
  ASSUME TypeOK, ServiceReceive \/ ServiceWork \/ ServiceDeclines
  PROVE  TypeOK'
<1> USE DEF TypeOK, Messages, Versions, publisherVars, uiVars, bridgeVars
<1>1. CASE ServiceReceive
  <2>1. Head(toService) \in Updates /\ Tail(toService) \in Seq(Updates)
    BY <1>1, QueueKeepsKind DEF ServiceReceive
  <2> QED
    BY <1>1, <2>1 DEF ServiceReceive, Service!Take
<1>2. CASE ServiceWork
  BY <1>2 DEF ServiceWork, Service!Install, Service!Finish
<1>3. CASE ServiceDeclines
  BY <1>3 DEF ServiceDeclines, Service!GiveUp
<1> QED
  BY <1>1, <1>2, <1>3

LEMMA FaultKeepsTypes ==
  ASSUME TypeOK,
         LoseOrRepeat \/ UiRestart \/ BridgeRestart \/ ServiceRestart \/ UpdateFails
  PROVE  TypeOK'
<1> USE DEF TypeOK, Messages, Versions, NotDeciding,
            publisherVars, uiVars, bridgeVars, serviceVars, installVars
<1>1. Fault => faults' \in 0 .. MaxFaults
  BY BoundsAssumption DEF Fault
<1>2. CASE LoseOrRepeat
  <2>1. toUi' \in Seq(Updates) /\ toService' \in Seq(Updates)
    BY <1>2, AlteredKeepsKind DEF LoseOrRepeat
  <2>2. toBridge' \in Seq(Messages(Versions))
    BY <1>2, AlteredKeepsKind DEF LoseOrRepeat
  <2>3. acks' \in [Updates -> Seq({"yes", "no"})]
    BY <1>2, AlteredKeepsKind DEF LoseOrRepeat
  <2> QED
    BY <1>1, <1>2, <2>1, <2>2, <2>3 DEF LoseOrRepeat
<1>3. CASE UiRestart
  BY <1>1, <1>3 DEF UiRestart
<1>4. CASE BridgeRestart
  BY <1>1, <1>4 DEF BridgeRestart
<1>5. CASE ServiceRestart
  BY <1>1, <1>5 DEF ServiceRestart, Service!GiveUp
<1>6. CASE UpdateFails
  BY <1>1, <1>6 DEF UpdateFails, Service!GiveUp
<1> QED
  BY <1>2, <1>3, <1>4, <1>5, <1>6

(* The publishers', the UI's, the bridge's and the service's variables hold*)
(* values of their kind whatever happens to the messages between them.     *)
THEOREM TypeCorrect == Spec => []TypeOK
<1>1. Init => TypeOK
  BY BoundsAssumption DEF Init, TypeOK, Service!Init, NotDeciding, Versions
<1>2. TypeOK /\ [Next]_vars => TypeOK'
  <2> SUFFICES ASSUME TypeOK, [Next]_vars PROVE TypeOK'
    OBVIOUS
  <2>1. CASE UNCHANGED vars
    BY <2>1 DEF vars, publisherVars, uiVars, bridgeVars, serviceVars, installVars,
                TypeOK, Messages, Versions
  <2> QED
    BY <2>1, PublisherKeepsTypes, UiKeepsTypes, DecideKeepsTypes, BridgeKeepsTypes,
       ServiceKeepsTypes, FaultKeepsTypes DEF Next
<1> QED
  BY <1>1, <1>2, PTL DEF Spec

-----------------------------------------------------------------------------

(* Only versions the user has said yes to are ever installed.              *)
THEOREM ApprovalCorrect == Spec => []InstalledWasApproved
<1>1. Init => OnlyApproved
  BY DEF Init, Service!Init, OnlyApproved
<1>2. TypeOK /\ OnlyApproved /\ [Next]_vars => OnlyApproved'
  <2> SUFFICES ASSUME TypeOK, OnlyApproved, [Next]_vars PROVE OnlyApproved'
    OBVIOUS
  <2> USE DEF publisherVars, uiVars, bridgeVars, serviceVars, installVars
  <2>1. ASSUME NEW u \in Updates, handle_ack(u) \/ GiveUp(u)
        PROVE  OnlyApproved'
    BY <2>1, KeptKeepsApproved DEF handle_ack, GiveUp, Kept
  <2>2. CASE UiReceive \/ UiThread \/ UiRestart \/ UNCHANGED vars
    BY <2>2, KeptKeepsApproved
       DEF UiReceive, UiThread, publish_ack, ClearPending, UiRestart, vars, Kept
  <2>3. CASE ServiceWork \/ ServiceDeclines \/ UpdateFails
    BY <2>3, InstallKeepsApproved
       DEF ServiceWork, ServiceDeclines, UpdateFails, OnlyApproved
  <2>4. CASE ServiceRestart
    BY <2>4, InstallKeepsApproved DEF ServiceRestart
  <2> QED
    BY <2>1, <2>2, <2>3, <2>4, PublishKeepsApproved, DecideKeepsApproved,
       BridgeKeepsApproved, ServiceKeepsApproved, LossKeepsApproved,
       BridgeRestartKeepsApproved DEF Next
<1>3. OnlyApproved => InstalledWasApproved
  BY UpdatesAssumption DEF OnlyApproved, InstalledWasApproved, ApprovedUpdates
<1> QED
  BY <1>1, <1>2, <1>3, TypeCorrect, PTL DEF Spec

=============================================================================
