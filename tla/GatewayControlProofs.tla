------------------------ MODULE GatewayControlProofs ------------------------
(***************************************************************************)
(* Proofs about GatewayControl, for any number of appliers and signers and *)
(* for every bound: types, protection against replays, and authenticity.   *)
(***************************************************************************)
EXTENDS GatewayControl, TLAPS

IsSigned(body) == \E c \in sent : c.body = body
IsSent(n) == \E c \in sent : c.counter = n

\* The counters that were taken are at or below the high-water mark, except those a
\* crash kept out of the checkpoint, which the restored mark may lie below.
Marked ==
  /\ ckpt <= high_water
  /\ \A n \in Counter : taken[n] > 0 /\ n \notin lost => n <= high_water

\* What an applier holds between its steps was signed by the gateway.
Held ==
  \A a \in Applier :
    /\ thread[a].pc = "apply" => IsSigned(thread[a].body)
    /\ thread[a].pc \in {"store", "observe"}
         => IsSigned([kind |-> "policy", version |-> thread[a].version])

\* So was whatever is in force or on disk.
Backed ==
  /\ policy # 1 => IsSigned([kind |-> "policy", version |-> policy])
  /\ record # 1 => IsSigned([kind |-> "policy", version |-> record])
  /\ ~key => IsSigned([kind |-> "wipe", container |-> "ours"])
  /\ high_water # 0 => IsSent(high_water)
  /\ ckpt # 0 => IsSent(ckpt)

\* A command that verify accepts was sent, and is above the high-water mark.
LEMMA VerifiedIsSent ==
  ASSUME NEW c \in Deliverable, VerifyError(c) = "Ok"
  PROVE  c \in sent /\ ~(c.counter <= high_water)
<1>1. ~(c.counter <= high_water) /\ c.defect \notin DefectKind
  BY DEF VerifyError, DefectKind
<1>2. c \notin Forged
  BY <1>1, ControlAssumption DEF Forged
<1> QED
  BY <1>1, <1>2 DEF Deliverable

\* The commands that the gateway signs are commands.
LEMMA SignedType ==
  ASSUME TypeOK, NEW n \in Counter, NEW body \in PolicyBody \cup ControlBody
  PROVE  Signed(n, body) \in Command
BY ControlAssumption DEF Signed, Command, TypeOK

\* What is sent stays sent.
LEMMA SentGrows ==
  ASSUME Next
  PROVE  sent \subseteq sent'
BY DEF Next, Issue, Apply, AuthorPolicy, RestartGateway, ReadCurrent, SignCurrent, CounterFails,
  SignControl, Receive, CheckVersion, StorePolicy, Observe, ApplyLock, ApplyWipe, UnlockVolume,
  PublishEsPolicy, SaveCheckpoint, CrashAndBoot, Tick, gatewayVars

\* Every action makes at most one call on the portable volume.
LEMMA StepVolume ==
  ASSUME VolumeTypeOK, [Next]_vars
  PROVE  VolumeTypeOK'
<1>1. Unlock \/ Lock \/ Wipe \/ Reprovision \/ UNCHANGED volumeVars
  BY Zenon DEF Next, Issue, Apply, AuthorPolicy, RestartGateway, ReadCurrent, SignCurrent,
    CounterFails, SignControl, Receive, CheckVersion, StorePolicy, Observe, ApplyLock, ApplyWipe,
    UnlockVolume, PublishEsPolicy, SaveCheckpoint, CrashAndBoot, Tick, vars
<1> QED
  BY <1>1 DEF VolumeTypeOK, Unlock, Lock, Wipe, Reprovision, volumeVars, UnlockError

\* The states of an applier.
LEMMA ThreadTypes ==
  /\ Idle \in ThreadState
  /\ \A body \in PolicyBody \cup ControlBody : [pc |-> "apply", body |-> body] \in ThreadState
  /\ \A v \in Version : [pc |-> "store", version |-> v] \in ThreadState
  /\ \A v \in Version : [pc |-> "observe", version |-> v] \in ThreadState
  /\ \A t \in ThreadState : t.pc \in {"store", "observe"} => t.version \in Version
  /\ \A t \in ThreadState : t.pc = "apply" => t.body \in PolicyBody \cup ControlBody
BY DEF ThreadState, Idle

\* A command body of kind policy is a policy of some version.
LEMMA PolicyBodies ==
  \A body \in PolicyBody \cup ControlBody : body.kind = "policy" =>
    body.version \in Version /\ body = [kind |-> "policy", version |-> body.version]
BY DEF PolicyBody, ControlBody

\* Every action keeps every variable in its type.
LEMMA TypeStep == TypeOK /\ [Next]_vars => TypeOK'
<1> SUFFICES ASSUME TypeOK, [Next]_vars PROVE TypeOK'
  OBVIOUS
<1> USE ControlAssumption
<1> USE DEF TypeOK, gatewayVars, deviceVars, savedVars, auxVars
<1>0. VolumeTypeOK'
  BY StepVolume
<1>b. \A kind : Fault(kind) => nfaults' \in Nat
  BY DEF Fault
<1>1. CASE AuthorPolicy
  BY <1>0, <1>1 DEF AuthorPolicy, Version
<1>2. ASSUME NEW s \in Signer, ReadCurrent(s) PROVE TypeOK'
  BY <1>0, <1>2 DEF ReadCurrent, Version
<1>3. ASSUME NEW s \in Signer, SignCurrent(s) PROVE TypeOK'
  <2>1. signing[s] \in Version /\ counter + 1 \in Counter
    BY <1>3 DEF SignCurrent, Version, Counter
  <2>2. sent' \subseteq Command
    BY <1>3, <2>1, SignedType DEF SignCurrent, PolicyBody
  <2> QED BY <1>0, <1>3, <2>1, <2>2 DEF SignCurrent, Counter
<1>4. ASSUME NEW s \in Signer, CounterFails(s) PROVE TypeOK'
  BY <1>0, <1>b, <1>4 DEF CounterFails
<1>5. ASSUME NEW body \in Body, SignControl(body) PROVE TypeOK'
  <2>1. counter + 1 \in Counter
    BY <1>5 DEF SignControl, Counter
  <2>2. sent' \subseteq Command
    BY <1>5, <2>1, SignedType DEF SignControl
  <2> QED BY <1>0, <1>5, <2>1, <2>2 DEF SignControl, Counter
<1>6. CASE RestartGateway
  BY <1>0, <1>b, <1>6 DEF RestartGateway, Version
<1>7. ASSUME NEW a \in Applier, NEW c \in Deliverable, Receive(a, c) PROVE TypeOK'
  <2>1. CASE VerifyError(c) = "Ok"
    <3>1. c \in Command
      BY <2>1, VerifiedIsSent
    <3>2. c.counter \in Counter /\ c.body \in PolicyBody \cup ControlBody
      BY <3>1 DEF Command
    <3>3. high_water' \in 0..MaxCounter
      BY <1>7, <2>1, <3>2 DEF Receive, Counter
    <3>4. thread' \in [Applier -> ThreadState]
      BY <1>7, <2>1, <3>2, ThreadTypes DEF Receive
    <3>5. taken' \in [Counter -> Nat]
      BY <1>7, <2>1, <3>2 DEF Receive
    <3> QED BY <1>0, <1>7, <2>1, <3>1, <3>3, <3>4, <3>5 DEF Receive
  <2>2. CASE VerifyError(c) # "Ok"
    BY <1>0, <1>7, <2>2 DEF Receive
  <2> QED BY <2>1, <2>2
<1>8. ASSUME NEW a \in Applier, CheckVersion(a) PROVE TypeOK'
  <2>1. thread[a].body.version \in Version
    BY <1>8, ThreadTypes, PolicyBodies DEF CheckVersion, Applying
  <2>2. thread' \in [Applier -> ThreadState]
    BY <1>8, <2>1, ThreadTypes DEF CheckVersion
  <2> QED BY <1>0, <1>8, <2>2 DEF CheckVersion
<1>9. ASSUME NEW a \in Applier, StorePolicy(a) PROVE TypeOK'
  <2>1. thread[a].version \in Version
    BY <1>9, ThreadTypes DEF StorePolicy
  <2>2. thread' \in [Applier -> ThreadState]
    BY <1>9, <2>1, ThreadTypes DEF StorePolicy
  <2> QED BY <1>0, <1>9, <2>1, <2>2 DEF StorePolicy
<1>10. ASSUME NEW a \in Applier, Observe(a) PROVE TypeOK'
  <2>1. thread' \in [Applier -> ThreadState]
    BY <1>10, ThreadTypes DEF Observe
  <2>2. publishing' \in [Version -> Nat]
    BY <1>10 DEF Observe
  <2> QED BY <1>0, <1>b, <1>10, <2>1, <2>2 DEF Observe
<1>11. ASSUME NEW a \in Applier, ApplyLock(a) \/ ApplyWipe(a) PROVE TypeOK'
  <2>1. thread' \in [Applier -> ThreadState]
    BY <1>11, ThreadTypes DEF ApplyLock, ApplyWipe
  <2> QED BY <1>0, <1>11, <2>1 DEF ApplyLock, ApplyWipe
<1>12. CASE UnlockVolume
  BY <1>0, <1>12 DEF UnlockVolume
<1>13. ASSUME NEW v \in Version, PublishEsPolicy(v) PROVE TypeOK'
  <2>1. publishing' \in [Version -> Nat]
    BY <1>13 DEF PublishEsPolicy
  <2> QED BY <1>0, <1>b, <1>13, <2>1 DEF PublishEsPolicy
<1>14. CASE SaveCheckpoint
  BY <1>0, <1>b, <1>14 DEF SaveCheckpoint
<1>15. CASE CrashAndBoot
  <2>1. thread' \in [Applier -> ThreadState]
    BY <1>15, ThreadTypes DEF CrashAndBoot
  <2>2. publishing' \in [Version -> Nat]
    BY <1>15 DEF CrashAndBoot
  <2>3. lost' \subseteq Counter
    BY <1>15 DEF CrashAndBoot, Counter
  <2>5. undone' \subseteq Counter
    BY <1>15 DEF CrashAndBoot, Counter
  <2>4. es' \in Version
    BY <1>15 DEF CrashAndBoot
  <2> QED BY <1>0, <1>b, <1>15, <2>1, <2>2, <2>3, <2>4, <2>5 DEF CrashAndBoot
<1>16. CASE Tick
  BY <1>0, <1>16 DEF Tick
<1>17. CASE UNCHANGED vars
  BY <1>0, <1>17 DEF vars
<1> QED
  BY <1>1, <1>2, <1>3, <1>4, <1>5, <1>6, <1>7, <1>8, <1>9, <1>10, <1>11, <1>12, <1>13,
     <1>14, <1>15, <1>16, <1>17 DEF Next, Issue, Apply

\* verify takes a counter only above the mark, and a crash moves the mark back only
\* over counters that are then lost.
LEMMA ReplayStep ==
  TypeOK /\ Marked /\ NoReplay /\ [Next]_vars => Marked' /\ NoReplay'
<1> SUFFICES ASSUME TypeOK, Marked, NoReplay, [Next]_vars PROVE Marked' /\ NoReplay'
  OBVIOUS
<1>0. high_water \in Nat /\ ckpt \in Nat /\ taken \in [Counter -> Nat] /\ Counter \subseteq Nat
  BY ControlAssumption DEF TypeOK, Counter
<1>1. ASSUME NEW a \in Applier, NEW c \in Deliverable, Receive(a, c)
      PROVE  Marked' /\ NoReplay'
  <2>1. CASE VerifyError(c) = "Ok"
    <3>0. c \in Command /\ ~(c.counter <= high_water)
      BY <2>1, VerifiedIsSent DEF TypeOK
    <3>a. c.counter \in Counter
      BY <3>0 DEF Command
    <3>b. c.counter \in Nat
      BY <1>0, <3>a
    <3>1. c.counter \in Nat /\ c.counter > high_water
      BY <1>0, <3>0, <3>b
    <3>2. ~(taken[c.counter] > 0) \/ c.counter \in lost
      BY <3>0, <3>a DEF Marked
    <3>3. /\ high_water' = c.counter /\ UNCHANGED <<ckpt, lost>>
          /\ taken' = [taken EXCEPT ![c.counter] = @ + 1]
      BY <1>1, <2>1 DEF Receive, savedVars
    <3>4. \A n \in Counter : taken'[n] = IF n = c.counter THEN taken[n] + 1 ELSE taken[n]
      BY <1>0, <3>3
    <3>5. taken[c.counter] \in Nat
      BY <1>0, <3>a
    <3>6. NoReplay'
      BY <1>0, <3>2, <3>3, <3>4, <3>5 DEF NoReplay
    <3>7. ckpt' <= high_water'
      BY <1>0, <3>1, <3>3 DEF Marked
    <3>8. ASSUME NEW n \in Counter, taken'[n] > 0, n \notin lost' PROVE n <= high_water'
      BY <1>0, <3>1, <3>3, <3>4, <3>8 DEF Marked
    <3> QED BY <3>6, <3>7, <3>8 DEF Marked
  <2>2. CASE VerifyError(c) # "Ok"
    BY <1>1, <2>2 DEF Receive, savedVars, Marked, NoReplay
  <2> QED BY <2>1, <2>2
<1>2. CASE CrashAndBoot
  BY <1>0, <1>2 DEF CrashAndBoot, Marked, NoReplay
<1>3. CASE SaveCheckpoint
  BY <1>0, <1>3 DEF SaveCheckpoint, deviceVars, Marked, NoReplay
<1>4. ASSUME UNCHANGED <<high_water, ckpt, taken, lost>> PROVE Marked' /\ NoReplay'
  BY <1>4 DEF Marked, NoReplay
<1>5. \/ UNCHANGED <<high_water, ckpt, taken, lost>>
      \/ CrashAndBoot \/ SaveCheckpoint
      \/ \E a \in Applier, c \in Deliverable : Receive(a, c)
  BY DEF Next, Issue, Apply, AuthorPolicy, RestartGateway, ReadCurrent, SignCurrent,
    CounterFails, SignControl, CheckVersion, StorePolicy, Observe, ApplyLock, ApplyWipe,
    UnlockVolume, PublishEsPolicy, Tick, vars, deviceVars, savedVars, auxVars
<1> QED
  BY <1>1, <1>2, <1>3, <1>4, <1>5

\* Signatures are handed on from verify to the appliers, from them to the policy in
\* force, and from there to disk and back at boot.
LEMMA AuthenticStep ==
  TypeOK /\ Held /\ Backed /\ [Next]_vars => Held' /\ Backed'
<1> SUFFICES ASSUME TypeOK, Held, Backed, [Next]_vars PROVE Held' /\ Backed'
  OBVIOUS
<1>a. sent \subseteq sent'
  BY SentGrows DEF vars, gatewayVars
<1>b. (\A body : IsSigned(body) => IsSigned(body)') /\ (\A n : IsSent(n) => IsSent(n)')
  BY <1>a DEF IsSigned, IsSent
<1>c. thread \in [Applier -> ThreadState]
  BY DEF TypeOK
<1> HIDE DEF IsSigned, IsSent
<1>1. ASSUME UNCHANGED <<thread, policy, record, key, high_water, ckpt>>
      PROVE  Held' /\ Backed'
  BY <1>b, <1>1 DEF Held, Backed
<1>2. ASSUME NEW a \in Applier, NEW c \in Deliverable, Receive(a, c)
      PROVE  Held' /\ Backed'
  <2>1. CASE VerifyError(c) = "Ok"
    <3>1. IsSigned(c.body) /\ IsSent(c.counter)
      BY <2>1, VerifiedIsSent DEF IsSigned, IsSent
    <3>2. /\ thread' = [thread EXCEPT ![a] = [pc |-> "apply", body |-> c.body]]
          /\ high_water' = c.counter /\ UNCHANGED <<policy, record, key, ckpt>>
      BY <1>2, <2>1 DEF Receive, savedVars, volumeVars
    <3> QED BY <1>b, <1>c, <3>1, <3>2 DEF Held, Backed
  <2>2. CASE VerifyError(c) # "Ok"
    BY <1>1, <1>2, <2>2 DEF Receive, savedVars, volumeVars
  <2> QED BY <2>1, <2>2
<1>3. ASSUME NEW a \in Applier, CheckVersion(a) PROVE Held' /\ Backed'
  <2>1. IsSigned([kind |-> "policy", version |-> thread[a].body.version])
    <3>1. thread[a].body \in PolicyBody \cup ControlBody /\ thread[a].body.kind = "policy"
      BY <1>3, <1>c, ThreadTypes DEF CheckVersion, Applying
    <3>2. thread[a].body = [kind |-> "policy", version |-> thread[a].body.version]
      BY <3>1, PolicyBodies
    <3>3. IsSigned(thread[a].body)
      BY <1>3 DEF CheckVersion, Applying, Held
    <3> QED BY <3>2, <3>3
  <2>2. /\ \/ thread' = [thread EXCEPT ![a] = Idle]
           \/ thread' = [thread EXCEPT ![a] =
                            [pc |-> "store", version |-> thread[a].body.version]]
        /\ UNCHANGED <<policy, record, key, high_water, ckpt>>
    BY <1>3 DEF CheckVersion, savedVars, volumeVars
  <2> QED BY <1>b, <1>c, <2>1, <2>2 DEF Held, Backed, Idle
<1>4. ASSUME NEW a \in Applier, StorePolicy(a) PROVE Held' /\ Backed'
  <2>1. IsSigned([kind |-> "policy", version |-> thread[a].version])
    BY <1>4 DEF StorePolicy, Held
  <2>2. /\ thread' = [thread EXCEPT ![a] = [pc |-> "observe", version |-> thread[a].version]]
        /\ policy' = thread[a].version /\ UNCHANGED <<record, key, high_water, ckpt>>
    BY <1>4 DEF StorePolicy, savedVars, volumeVars
  <2> QED BY <1>b, <1>c, <2>1, <2>2 DEF Held, Backed
<1>5. ASSUME NEW a \in Applier, Observe(a) PROVE Held' /\ Backed'
  <2>1. /\ thread' = [thread EXCEPT ![a] = Idle] /\ record' \in {record, policy}
        /\ UNCHANGED <<policy, key, high_water, ckpt>>
    BY <1>5 DEF Observe, volumeVars
  <2> QED BY <1>b, <1>c, <2>1 DEF Held, Backed, Idle
<1>6. ASSUME NEW a \in Applier, ApplyLock(a) PROVE Held' /\ Backed'
  <2>1. /\ thread' = [thread EXCEPT ![a] = Idle]
        /\ UNCHANGED <<policy, record, key, high_water, ckpt>>
    BY <1>6 DEF ApplyLock, Lock, savedVars
  <2> QED BY <1>b, <1>c, <2>1 DEF Held, Backed, Idle
<1>7. ASSUME NEW a \in Applier, ApplyWipe(a) PROVE Held' /\ Backed'
  <2>1. /\ thread' = [thread EXCEPT ![a] = Idle]
        /\ UNCHANGED <<policy, record, high_water, ckpt>>
    BY <1>7 DEF ApplyWipe, savedVars
  <2>2. key' = key \/ IsSigned([kind |-> "wipe", container |-> "ours"])
    <3>1. CASE thread[a].body.container = "ours"
      <4>1. thread[a].body = [kind |-> "wipe", container |-> "ours"]
        BY <1>7, <1>c, <3>1, ThreadTypes DEF ApplyWipe, Applying, PolicyBody, ControlBody
      <4> QED BY <1>7, <4>1 DEF ApplyWipe, Applying, Held
    <3>2. CASE thread[a].body.container # "ours"
      BY <1>7, <3>2 DEF ApplyWipe, volumeVars
    <3> QED BY <3>1, <3>2
  <2>3. Held'
    BY <1>b, <1>c, <2>1 DEF Held, Idle
  <2>4. Backed'
    BY <1>b, <2>1, <2>2 DEF Backed
  <2> QED BY <2>3, <2>4
<1>8. CASE SaveCheckpoint
  BY <1>b, <1>8 DEF SaveCheckpoint, deviceVars, volumeVars, Held, Backed
<1>9. CASE CrashAndBoot
  <2>1. /\ thread' = [a \in Applier |-> Idle] /\ policy' = record /\ high_water' = ckpt
        /\ key' = TRUE /\ UNCHANGED <<record, ckpt>>
    BY <1>9 DEF CrashAndBoot, Reprovision
  <2>2. Held'
    BY <2>1 DEF Held, Idle
  <2>3. Backed'
    BY <1>b, <2>1 DEF Backed
  <2> QED BY <2>2, <2>3
<1>10. \/ UNCHANGED <<thread, policy, record, key, high_water, ckpt>>
       \/ SaveCheckpoint \/ CrashAndBoot
       \/ \E a \in Applier :
            \/ CheckVersion(a) \/ StorePolicy(a) \/ Observe(a) \/ ApplyLock(a) \/ ApplyWipe(a)
            \/ \E c \in Deliverable : Receive(a, c)
  BY DEF Next, Issue, Apply, AuthorPolicy, RestartGateway, ReadCurrent, SignCurrent, Unlock,
    CounterFails, SignControl, UnlockVolume, PublishEsPolicy, Tick, vars, deviceVars, savedVars,
    volumeVars
<1> QED
  BY <1>1, <1>2, <1>3, <1>4, <1>5, <1>6, <1>7, <1>8, <1>9, <1>10

\* What is on its way to the Endpoint Security client, or there, was signed.
Published ==
  /\ es # 1 => IsSigned([kind |-> "policy", version |-> es])
  /\ \A v \in Version :
       publishing[v] > 0 /\ v # 1 => IsSigned([kind |-> "policy", version |-> v])

\* The observer publishes the policy in force, and a boot the one in the record.
LEMMA PublishedStep ==
  TypeOK /\ Backed /\ Published /\ [Next]_vars => Published'
<1> SUFFICES ASSUME TypeOK, Backed, Published, [Next]_vars PROVE Published'
  OBVIOUS
<1>a. \A body : IsSigned(body) => IsSigned(body)'
  BY SentGrows DEF IsSigned, vars, gatewayVars
<1>b. publishing \in [Version -> Nat] /\ policy \in Version
  BY DEF TypeOK
<1> HIDE DEF IsSigned
<1>1. CASE UNCHANGED <<publishing, es>>
  BY <1>a, <1>1 DEF Published
<1>2. ASSUME NEW a \in Applier, Observe(a) PROVE Published'
  <2>1. publishing' = [publishing EXCEPT ![policy] = @ + 1] /\ es' = es
    BY <1>2 DEF Observe
  <2>2. \A v \in Version : publishing'[v] > 0 => publishing[v] > 0 \/ v = policy
    BY <1>b, <2>1
  <2> QED BY <1>a, <2>1, <2>2 DEF Published, Backed
<1>3. ASSUME NEW v \in Version, PublishEsPolicy(v) PROVE Published'
  <2>1. /\ publishing' = [publishing EXCEPT ![v] = @ - 1]
        /\ publishing[v] > 0 /\ es' \in {es, v}
    BY <1>3 DEF PublishEsPolicy
  <2>2. \A w \in Version : publishing'[w] > 0 => publishing[w] > 0
    BY <1>b, <2>1
  <2> QED BY <1>a, <2>1, <2>2 DEF Published
<1>4. CASE CrashAndBoot
  <2>1. publishing' = [v \in Version |-> 0] /\ es' \in {record, es}
    BY <1>4 DEF CrashAndBoot
  <2> QED BY <1>a, <2>1 DEF Published, Backed
<1>5. \/ UNCHANGED <<publishing, es>>
      \/ CrashAndBoot
      \/ \E a \in Applier : Observe(a)
      \/ \E v \in Version : PublishEsPolicy(v)
  BY DEF Next, Issue, Apply, AuthorPolicy, RestartGateway, ReadCurrent, SignCurrent,
    CounterFails, SignControl, Receive, CheckVersion, StorePolicy, ApplyLock, ApplyWipe,
    UnlockVolume, SaveCheckpoint, Tick, vars, savedVars
<1> QED
  BY <1>1, <1>2, <1>3, <1>4, <1>5

\* The inductive invariant of control: types, the mark, and where signatures went.
ControlInv == TypeOK /\ Marked /\ NoReplay /\ Held /\ Backed /\ Published

\* It holds initially, and every action keeps it.
LEMMA ControlInvariant == Spec => []ControlInv
<1>1. Init => ControlInv
  <2> SUFFICES ASSUME Init PROVE ControlInv
    OBVIOUS
  <2>a. VolumeTypeOK /\ key
    BY Zenon DEF Init, VolumeTypeOK
  <2>b. 1 \in Version
    BY ControlAssumption DEF Version
  <2>c. thread \in [Applier -> ThreadState]
    BY ThreadTypes DEF Init
  <2>d. unsaved \in BOOLEAN
    BY Zenon DEF Init
  <2>1. TypeOK
    BY <2>a, <2>b, <2>c, <2>d, ControlAssumption DEF Init, TypeOK
  <2>2. Marked /\ NoReplay
    BY DEF Init, Marked, NoReplay, Counter
  <2>3. Held
    BY DEF Init, Held, Idle
  <2>4. Backed
    BY <2>a DEF Init, Backed
  <2>5. Published
    BY DEF Init, Published
  <2> QED BY <2>1, <2>2, <2>3, <2>4, <2>5 DEF ControlInv
<1>2. ControlInv /\ [Next]_vars => ControlInv'
  BY TypeStep, ReplayStep, AuthenticStep, PublishedStep DEF ControlInv
<1> QED
  BY <1>1, <1>2, PTL DEF Spec

\* GatewayVerifier::verify and the checkpoint, with any number of applying threads:
\* a command takes effect again only when a crash kept it out of the checkpoint.
THEOREM ReplaySafe == Spec => [](TypeOK /\ NoReplay)
<1>1. ControlInv => TypeOK /\ NoReplay
  BY DEF ControlInv
<1> QED
  BY <1>1, ControlInvariant, PTL

\* apply_gateway_command: whatever is in force, on disk or destroyed traces back to
\* a command of the gateway, whatever the path delivers.
THEOREM ControlAuthentic == Spec => []Authentic
<1>1. ControlInv => Authentic
  BY DEF ControlInv, Backed, Published, Authentic, IsSigned, IsSent
<1> QED
  BY <1>1, ControlInvariant, PTL

\* Between StorePolicy and Observe some applier still owes the observer a call; after
\* a save that failed nobody does.
Owed == record = policy \/ unsaved \/ \E a \in Applier : thread[a].pc = "observe"

\* StorePolicy makes the record owed, the observer pays it or records that it failed.
LEMMA OwedStep == TypeOK /\ Owed /\ [Next]_vars => Owed'
<1> SUFFICES ASSUME TypeOK, Owed, [Next]_vars PROVE Owed'
  OBVIOUS
<1>a. thread \in [Applier -> ThreadState]
  BY DEF TypeOK
<1>1. ASSUME NEW a \in Applier, StorePolicy(a) PROVE Owed'
  BY <1>a, <1>1 DEF StorePolicy, Owed
<1>2. ASSUME NEW a \in Applier, Observe(a) PROVE Owed'
  BY <1>2 DEF Observe, Owed, Fault
<1>3. CASE CrashAndBoot
  BY <1>3 DEF CrashAndBoot, Owed
<1>4. ASSUME NEW a \in Applier, thread[a].pc # "observe", UNCHANGED <<policy, record, unsaved>>,
             \A b \in Applier \ {a} : thread'[b] = thread[b]
      PROVE  Owed'
  BY <1>4 DEF Owed
<1>5. ASSUME NEW a \in Applier, NEW c \in Deliverable, Receive(a, c) PROVE Owed'
  BY <1>a, <1>4, <1>5 DEF Receive, savedVars, Idle
<1>6. ASSUME NEW a \in Applier, CheckVersion(a) \/ ApplyLock(a) \/ ApplyWipe(a) PROVE Owed'
  <2>1. thread[a].pc # "observe" /\ UNCHANGED <<policy, record, unsaved>>
    BY <1>6 DEF CheckVersion, ApplyLock, ApplyWipe, Applying, savedVars
  <2>2. \A b \in Applier \ {a} : thread'[b] = thread[b]
    BY <1>a, <1>6 DEF CheckVersion, ApplyLock, ApplyWipe
  <2> QED BY <1>4, <2>1, <2>2
<1>7. ASSUME UNCHANGED <<policy, record, unsaved, thread>> PROVE Owed'
  BY <1>7 DEF Owed
<1> QED
  BY <1>1, <1>2, <1>3, <1>5, <1>6, <1>7 DEF Next, Issue, Apply, AuthorPolicy, RestartGateway,
    ReadCurrent, SignCurrent, CounterFails, SignControl, UnlockVolume, PublishEsPolicy,
    SaveCheckpoint, Tick, vars, deviceVars, savedVars

\* update_policy, with any number of threads and any crashes: the enrollment record
\* holds the policy in force when they have finished and its last save succeeded,
\* because the observer is handed the policy of the moment, under its mutex.
THEOREM RecordFollows == Spec => []RecordConverges
<1>1. Init => Owed
  BY DEF Init, Owed
<1>2. Owed => RecordConverges
  BY DEF Owed, RecordConverges, Settled, Idle
<1>3. ControlInv => TypeOK
  BY DEF ControlInv
<1> QED
  BY <1>1, <1>2, <1>3, OwedStep, ControlInvariant, PTL DEF Spec

-----------------------------------------------------------------------------
(* One applier, as run_macos starts it: no other thread stores a policy        *)
(* between its check and its store.                                            *)

\* How far the applier is with a policy it has accepted.
Reached(c) ==
  \/ policy >= c.body.version
  \/ thread[Sync].pc = "apply" /\ thread[Sync].body = c.body
  \/ thread[Sync].pc = "store" /\ thread[Sync].version >= c.body.version

\* The inductive invariant behind NoRollback and DurablePolicy.  What crashed before
\* the checkpoint is above the mark at boot, so that whatever is at or below the mark
\* on disk had reached the record.
KeptInv ==
  /\ thread[Sync].pc = "store" => thread[Sync].version >= policy
  /\ \A c \in accepted : c.counter \notin lost => c.counter <= high_water
  /\ \A c \in PolicyCommands : Kept(c) => Reached(c)
  /\ DurablePolicy

\* Facts about numbers that every step of the proof uses.
LEMMA ControlNumbers ==
  ASSUME TypeOK
  PROVE  /\ policy \in Nat /\ record \in Nat /\ high_water \in Nat /\ ckpt \in Nat
         /\ \A c \in PolicyCommands : c.body.version \in Nat
         /\ \A c \in accepted : c.counter \in Nat /\ c.counter >= 1
         /\ \A a \in Applier : thread[a].pc = "store" => thread[a].version \in Nat
<1>1. Version \subseteq Nat /\ Counter \subseteq Nat
  BY ControlAssumption DEF Version, Counter
<1>2. policy \in Nat /\ record \in Nat /\ high_water \in Nat /\ ckpt \in Nat
  BY <1>1, ControlAssumption DEF TypeOK
<1>3. ASSUME NEW c \in PolicyCommands PROVE c.body.version \in Nat
  <2>1. c \in Command /\ c.body.kind = "policy"
    BY DEF PolicyCommands, TypeOK
  <2>2. c.body \in PolicyBody \cup ControlBody
    BY <2>1 DEF Command
  <2> QED BY <1>1, <2>1, <2>2, PolicyBodies
<1>4. ASSUME NEW c \in accepted PROVE c.counter \in Nat /\ c.counter >= 1
  <2>1. c.counter \in Counter
    BY DEF TypeOK, Command
  <2> QED BY <2>1, ControlAssumption DEF Counter
<1>5. ASSUME NEW a \in Applier, thread[a].pc = "store" PROVE thread[a].version \in Nat
  BY <1>1, <1>5, ThreadTypes DEF TypeOK
<1> QED BY <1>2, <1>3, <1>4, <1>5

LEMMA KeptStep ==
  ASSUME Applier = {Sync}, TypeOK, Marked, Owed, KeptInv, [Next]_vars
  PROVE  KeptInv'
<1> DEFINE t == thread[Sync]
<1>a. thread \in [Applier -> ThreadState] /\ Sync \in Applier
  BY ControlAssumption DEF TypeOK
<1>n. /\ policy \in Nat /\ record \in Nat /\ high_water \in Nat /\ ckpt \in Nat
      /\ \A c \in PolicyCommands : c.body.version \in Nat
      /\ \A c \in accepted : c.counter \in Nat /\ c.counter >= 1
      /\ t.pc = "store" => t.version \in Nat
  BY <1>a, ControlNumbers
<1>1. ASSUME NEW c \in Deliverable, Receive(Sync, c), VerifyError(c) = "Ok" PROVE KeptInv'
  <2>1. /\ t = Idle /\ high_water' = c.counter /\ accepted' = accepted \cup {c}
        /\ thread'[Sync] = [pc |-> "apply", body |-> c.body]
        /\ UNCHANGED <<policy, record, unsaved, ckpt, lost, undone>>
    BY <1>a, <1>1 DEF Receive, savedVars
  <2>2. c \in Command /\ ~(c.counter <= high_water)
    BY <1>1, VerifiedIsSent DEF TypeOK
  <2>3. c.counter \in Nat /\ c.counter > high_water
    BY <1>n, <2>2, ControlAssumption DEF Command, Counter
  <2>4. ASSUME NEW d \in accepted', d.counter \notin lost' PROVE d.counter <= high_water'
    BY <1>n, <2>1, <2>3, <2>4 DEF KeptInv
  <2>5. ASSUME NEW d \in PolicyCommands', Kept(d)' PROVE Reached(d)'
    <3>1. CASE d = c
      BY <2>1, <3>1 DEF Reached
    <3>2. CASE d # c
      <4>1. d \in PolicyCommands /\ Kept(d)
        BY <2>1, <2>5, <3>2 DEF PolicyCommands, Kept
      <4>2. policy >= d.body.version
        BY <2>1, <4>1 DEF KeptInv, Reached, Idle
      <4> QED BY <2>1, <4>2 DEF Reached
    <3> QED BY <3>1, <3>2
  <2>6. DurablePolicy'
    <3> SUFFICES ASSUME NEW d \in PolicyCommands', d.counter <= ckpt', Kept(d)'
                 PROVE  record' >= d.body.version \/ unsaved'
      BY DEF DurablePolicy
    <3>1. d # c
      BY <1>n, <2>1, <2>3 DEF Marked
    <3>2. d \in PolicyCommands /\ Kept(d)
      BY <2>1, <3>1 DEF PolicyCommands, Kept
    <3> QED BY <2>1, <3>2 DEF KeptInv, DurablePolicy
  <2> QED BY <2>1, <2>4, <2>5, <2>6 DEF KeptInv
<1>2. CASE CheckVersion(Sync)
  <2>1. /\ t.pc = "apply" /\ t.body.kind = "policy"
        /\ thread'[Sync] = IF t.body.version < policy THEN Idle
                           ELSE [pc |-> "store", version |-> t.body.version]
        /\ UNCHANGED <<policy, record, unsaved, ckpt, lost, undone, high_water, accepted>>
    BY <1>a, <1>2 DEF CheckVersion, Applying, savedVars, auxVars
  <2>2. t.body.version \in Nat
    <3>1. t.body \in PolicyBody \cup ControlBody
      BY <1>a, <2>1, ThreadTypes
    <3> QED BY <2>1, <3>1, PolicyBodies, ControlAssumption DEF Version
  <2>3. thread'[Sync].pc = "store" => thread'[Sync].version >= policy'
    BY <1>n, <2>1, <2>2 DEF Idle
  <2>4. ASSUME NEW d \in PolicyCommands', Kept(d)' PROVE Reached(d)'
    <3>1. d \in PolicyCommands /\ Kept(d) /\ d.body.version \in Nat
      BY <1>n, <2>1, <2>4 DEF PolicyCommands, Kept
    <3>2. policy >= d.body.version \/ t.body = d.body
      BY <2>1, <3>1 DEF KeptInv, Reached
    <3> QED BY <1>n, <2>1, <2>2, <3>1, <3>2 DEF Reached
  <2> QED BY <2>1, <2>3, <2>4 DEF KeptInv, DurablePolicy, PolicyCommands, Kept
<1>3. CASE StorePolicy(Sync)
  <2>1. /\ t.pc = "store" /\ policy' = t.version
        /\ thread'[Sync] = [pc |-> "observe", version |-> t.version]
        /\ UNCHANGED <<record, unsaved, ckpt, lost, undone, high_water, accepted>>
    BY <1>a, <1>3 DEF StorePolicy, savedVars, auxVars
  <2>2. ASSUME NEW d \in PolicyCommands', Kept(d)' PROVE Reached(d)'
    <3>1. d \in PolicyCommands /\ Kept(d) /\ d.body.version \in Nat
      BY <1>n, <2>1, <2>2 DEF PolicyCommands, Kept
    <3>2. policy >= d.body.version \/ t.version >= d.body.version
      BY <2>1, <3>1 DEF KeptInv, Reached
    <3>3. t.version >= policy /\ t.version \in Nat
      BY <1>n, <2>1 DEF KeptInv
    <3> QED BY <1>n, <2>1, <3>1, <3>2, <3>3 DEF Reached
  <2> QED BY <2>1, <2>2 DEF KeptInv, DurablePolicy, PolicyCommands, Kept
<1>4. CASE Observe(Sync)
  <2>1. /\ t.pc = "observe" /\ thread'[Sync] = Idle
        /\ record' = policy \/ unsaved'
        /\ UNCHANGED <<policy, ckpt, lost, undone, high_water, accepted>>
    BY <1>a, <1>4 DEF Observe
  <2>2. \A d \in PolicyCommands : Kept(d) => policy >= d.body.version
    BY <2>1 DEF KeptInv, Reached
  <2> QED BY <2>1, <2>2 DEF KeptInv, DurablePolicy, PolicyCommands, Kept, Reached, Idle
<1>5. CASE ApplyLock(Sync) \/ ApplyWipe(Sync)
  <2>1. /\ t.pc = "apply" /\ t.body.kind # "policy" /\ thread'[Sync] = Idle
        /\ UNCHANGED <<policy, record, unsaved, ckpt, lost, undone, high_water, accepted>>
    BY <1>a, <1>5 DEF ApplyLock, ApplyWipe, Applying, savedVars, auxVars
  <2>2. ASSUME NEW d \in PolicyCommands', Kept(d)' PROVE Reached(d)'
    <3>1. d \in PolicyCommands /\ Kept(d) /\ d.body.kind = "policy"
      BY <2>1, <2>2 DEF PolicyCommands, Kept
    <3> QED BY <2>1, <3>1 DEF KeptInv, Reached
  <2> QED BY <2>1, <2>2 DEF KeptInv, DurablePolicy, PolicyCommands, Kept, Idle
<1>6. CASE SaveCheckpoint
  <2>1. /\ t = Idle /\ ckpt' \in {ckpt, high_water}
        /\ UNCHANGED <<thread, policy, record, unsaved, lost, undone, high_water, accepted>>
    BY <1>6 DEF SaveCheckpoint, deviceVars
  <2>2. record = policy \/ unsaved
    BY <2>1 DEF Owed, Idle
  <2>3. \A d \in PolicyCommands : Kept(d) => policy >= d.body.version
    BY <2>1 DEF KeptInv, Reached, Idle
  <2> QED BY <2>1, <2>2, <2>3 DEF KeptInv, DurablePolicy, PolicyCommands, Kept, Reached
<1>7. CASE CrashAndBoot
  <2>1. /\ thread'[Sync] = Idle /\ policy' = record /\ high_water' = ckpt
        /\ lost' = lost \cup (ckpt + 1)..high_water
        /\ undone' = IF unsaved THEN undone \cup 1..high_water ELSE undone
        /\ UNCHANGED <<record, ckpt, accepted>>
    BY <1>a, <1>7 DEF CrashAndBoot
  <2>2. ASSUME NEW d \in accepted, d.counter \notin lost'
        PROVE  d.counter <= ckpt /\ d.counter <= high_water /\ d.counter \notin lost
    <3>1. d.counter <= high_water /\ d.counter \notin lost
      BY <2>1, <2>2 DEF KeptInv
    <3> QED BY <1>n, <2>1, <2>2, <3>1
  <2>3. ASSUME NEW d \in PolicyCommands', Kept(d)' PROVE record >= d.body.version
    <3>1. d \in accepted /\ d \in PolicyCommands /\ d.counter \notin lost' /\ d.counter \notin undone'
      BY <2>1, <2>3 DEF PolicyCommands, Kept
    <3>2. d.counter <= ckpt /\ d.counter <= high_water /\ d.counter \notin lost
      BY <2>2, <3>1
    <3>3. ~unsaved
      BY <1>n, <2>1, <3>1, <3>2
    <3>4. Kept(d)
      BY <2>1, <3>1, <3>2, <3>3 DEF Kept
    <3> QED BY <3>1, <3>2, <3>3, <3>4 DEF KeptInv, DurablePolicy
  <2> QED BY <2>1, <2>2, <2>3 DEF KeptInv, DurablePolicy, Reached, Idle
<1>8. ASSUME UNCHANGED <<thread, policy, record, unsaved, ckpt, lost, undone, high_water, accepted>>
      PROVE  KeptInv'
  BY <1>8 DEF KeptInv, DurablePolicy, PolicyCommands, Kept, Reached
<1>9. ASSUME NEW a \in Applier, NEW c \in Deliverable, Receive(a, c), VerifyError(c) # "Ok"
      PROVE  KeptInv'
  BY <1>8, <1>9 DEF Receive, savedVars
<1> HIDE DEF t
<1> QED
  BY <1>1, <1>2, <1>3, <1>4, <1>5, <1>6, <1>7, <1>8, <1>9 DEF Next, Issue, Apply, AuthorPolicy,
    RestartGateway, ReadCurrent, SignCurrent, CounterFails, SignControl, UnlockVolume,
    PublishEsPolicy, Tick, vars, deviceVars, savedVars, auxVars

\* With the one applier that run_macos starts, the policy in force is never older than
\* one that was accepted, and the mark on disk never outruns the policy on disk, for
\* every number of commands, versions and crashes.
THEOREM PolicyNeverRollsBack == ASSUME Applier = {Sync} PROVE Spec => []PolicyKept
<1>1. Init => Owed /\ KeptInv
  BY ControlAssumption DEF Init, Owed, KeptInv, DurablePolicy, PolicyCommands, Idle
<1>2. ControlInv /\ Owed /\ KeptInv /\ [Next]_vars => Owed' /\ KeptInv'
  BY OwedStep, KeptStep DEF ControlInv
<1>3. ControlInv /\ KeptInv => PolicyKept
  <2> SUFFICES ASSUME ControlInv, KeptInv, Settled, NEW c \in PolicyCommands, Kept(c)
               PROVE  policy >= c.body.version
    BY DEF ControlInv, KeptInv, PolicyKept, NoRollback
  <2>1. thread[Sync] = Idle
    BY ControlAssumption DEF Settled
  <2> QED BY <2>1 DEF KeptInv, Reached, Idle
<1> QED
  BY <1>1, <1>2, <1>3, ControlInvariant, PTL DEF Spec
=============================================================================
