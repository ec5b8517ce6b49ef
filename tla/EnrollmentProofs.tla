-------------------------- MODULE EnrollmentProofs --------------------------
(***************************************************************************)
(* Proofs about Enrollment, for any number of runs of the command line,    *)
(* policies, commands and faults of any kind.                              *)
(***************************************************************************)
EXTENDS Enrollment, TLAPS

\* One request at a time, for keys that have been drawn; each enrollment still to
\* draw a command counter finds one.
RequestsOK ==
  /\ cli.pc # "idle" \/ handler # "idle" => attempt # 0
  /\ handler # "idle" => cli.pc \notin {"poll", "complete"}
  /\ counter + Undrawn <= MaxCounter

\* The gateway can tell the device that drew keys a by its certificate, and keeps
\* its audit key -- unless the audit store failed.
Registered(a) == a \in devices /\ identity(a) \in stored \cup unhydrated
Known(a) == a \in fingerprints /\ Registered(a)

\* A volume key, if there is one, opens with the keys it comes with.
Opens(vk, keys) == vk = NoVolumeKey \/ open_volume_key(vk, keys)

\* What goes from the gateway to the command line.
GrantsOK ==
  /\ stored \subseteq ledger
  /\ handler \in {"policy", "grant"} => Registered(attempt)
  /\ cli.grant.tls = "ours" => Known(attempt)
  /\ cli.pc = "save" => /\ cli.grant.policy \in SignedCommand
                        /\ cli.grant.policy.by = "tenant"
                        /\ Opens(cli.grant.volume_key, attempt)

\* A record on the device, on disk or in memory.
RecordOK(r) ==
  /\ r.by # "impostor" /\ r.keys <= attempt
  /\ Opens(r.volume_key, r.keys)
  /\ r.version >= r.first
  /\ r.tls = "ours" => Known(r.keys)

DeviceOK == RecordOK(file) /\ RecordOK(daemon.record) /\ BootsUnlessKeyless

EnrollInv == TypeOK /\ RequestsOK /\ GrantsOK /\ DeviceOK

-----------------------------------------------------------------------------
LEMMA Bounds ==
  /\ MaxAttempts \in Nat /\ MaxAttempts # 0 /\ MaxPolls \in Nat /\ MaxPolls # 0
  /\ MaxVersion \in Nat /\ MaxVersion # 0 /\ MaxCounter \in Nat /\ MaxAttempts <= MaxCounter
  /\ MaxFaults \in Nat /\ 1 \in Version
BY EnrollmentAssumption DEF Version

\* The values that the code starts from, or falls back to, have their types.
LEMMA KeyTypes ==
  /\ NoVolumeKey \in WrappedVolumeKey
  /\ [how |-> "malformed", to |-> 0] \in WrappedVolumeKey
  /\ \A a \in 0..MaxAttempts : wrap(a) \in WrappedVolumeKey /\ seal_dek(a) \in WrappedVolumeKey
BY Bounds DEF NoVolumeKey, WrappedVolumeKey, wrap, seal_dek

LEMMA NoGrantType == NoGrant \in Grant /\ NoGrant.tls = "none" /\ NoGrant.policy = NoPolicy
BY KeyTypes DEF NoGrant, Grant

CliPc == {"idle", "poll", "complete", "wait", "accept", "save"}
Cli == [pc : CliPc, polls : 0..(MaxPolls - 1), grant : Grant]

LEMMA IdleCliType == IdleCli \in Cli /\ IdleCli.pc = "idle" /\ IdleCli.grant.tls = "none"
BY NoGrantType, Bounds DEF IdleCli, Cli, CliPc

\* Where the command line goes next, it keeps its type.
LEMMA CliMoves ==
  ASSUME NEW c \in Cli, NEW pc \in CliPc
  PROVE  /\ [c EXCEPT !.pc = pc] \in Cli
         /\ [c EXCEPT !.pc = pc].pc = pc /\ [c EXCEPT !.pc = pc].grant = c.grant
BY DEF Cli

LEMMA BootRecords ==
  /\ bootstrap_dev_enrollment \in EnrollmentRecord
  /\ \A r \in EnrollmentRecord : Readable(r)
  /\ ~Readable(NoRecord) /\ ~Readable(Unreadable)
BY KeyTypes, Bounds
   DEF bootstrap_dev_enrollment, EnrollmentRecord, DEV, Readable, NoRecord, Unreadable

\* The keys of the development enrollment open its volume; so does, in the absence
\* of a volume key, anything.
LEMMA BootRecordsOK ==
  ASSUME TypeOK
  PROVE  RecordOK(bootstrap_dev_enrollment) /\ RecordOK(NoRecord) /\ RecordOK(Unreadable)
<1>1. attempt \in Nat
  BY Bounds DEF TypeOK
<1> QED BY <1>1 DEF RecordOK, bootstrap_dev_enrollment, NoRecord, Unreadable, DEV, Opens,
                    open_volume_key, unwrap, wrap

LEMMA TypeFacts ==
  ASSUME TypeOK
  PROVE  /\ attempt \in 0..MaxAttempts /\ attempt \in Nat /\ cli \in Cli
         /\ nfaults \in 0..MaxFaults /\ nfaults \in Nat /\ counter \in Nat
BY Bounds DEF TypeOK, Cli, CliPc

LEMMA FaultType ==
  ASSUME TypeOK, NEW kind, Fault(kind)
  PROVE  nfaults' \in 0..MaxFaults
BY TypeFacts, Bounds DEF Fault

LEMMA SaveType ==
  ASSUME TypeOK, NEW r, save(r)
  PROVE  nfaults' \in 0..MaxFaults /\ (file' = file \/ file' = r)
BY TypeFacts, FaultType DEF save

LEMMA AnswersType ==
  ASSUME TypeOK, NEW pc \in CliPc, NEW g \in Grant, Answers(pc, g)
  PROVE  /\ cli' \in Cli
         /\ \/ cli' = cli \/ cli' = IdleCli
            \/ (cli.pc = "wait" /\ cli'.pc = pc /\ cli'.grant = g)
<1>1. PICK c : c = [cli EXCEPT !.pc = pc, !.grant = g]
  OBVIOUS
<1>2. c \in Cli /\ c.pc = pc /\ c.grant = g
  <2>1. cli \in [pc : CliPc, polls : 0..(MaxPolls - 1), grant : Grant]
    BY TypeFacts DEF Cli
  <2> QED BY ONLY <1>1, <2>1, pc \in CliPc, g \in Grant DEF Cli
<1>3. cli' = cli \/ cli' = IdleCli \/ (cli.pc = "wait" /\ cli' = c)
  BY <1>1 DEF Answers
<1> QED BY <1>2, <1>3, IdleCliType, TypeFacts

-----------------------------------------------------------------------------
(* The steps at the gateway. *)

\* A step at the gateway leaves the device alone, but for the answer.
LEMMA GatewayType ==
  ASSUME TypeOK, cli' \in Cli, UNCHANGED <<attempt, service, deviceVars>>,
         code' \in {"none", "pending", "approved", "rejected", "spent"},
         handler' \in {"idle", "authorize", "record", "policy", "grant"},
         reply' \in SignedCommand \cup {NoPolicy},
         devices' \subseteq Attempt, fingerprints' \subseteq Attempt,
         ledger' \subseteq {identity(a) : a \in Attempt},
         stored' \subseteq {identity(a) : a \in Attempt},
         unhydrated' \subseteq {identity(a) : a \in Attempt},
         version' \in Version, counter' \in 0..MaxCounter, sent' \subseteq SignedCommand,
         nfaults' \in 0..MaxFaults
  PROVE  TypeOK'
BY DEF TypeOK, Cli, CliPc, deviceVars

\* What the gateway knows is forgotten by none of its steps, the restart included.
LEMMA KnownKept ==
  ASSUME devices \subseteq devices', fingerprints \subseteq fingerprints',
         stored \subseteq stored', unhydrated \subseteq unhydrated', NEW a
  PROVE  /\ Registered(a) => Registered(a)'
         /\ Known(a) => Known(a)'
BY DEF Known, Registered

LEMMA GatewayDevice ==
  ASSUME DeviceOK, UNCHANGED <<attempt, deviceVars>>,
         devices \subseteq devices', fingerprints \subseteq fingerprints',
         stored \subseteq stored', unhydrated \subseteq unhydrated'
  PROVE  DeviceOK'
<1>1. ASSUME NEW a
      PROVE  Known(a) => Known(a)'
  BY KnownKept
<1>2. file' = file /\ daemon' = daemon /\ attempt' = attempt
  BY DEF deviceVars
<1>3. ASSUME NEW r, RecordOK(r)
      PROVE  /\ r.by # "impostor" /\ r.keys <= attempt' /\ Opens(r.volume_key, r.keys)
             /\ r.version >= r.first /\ (r.tls = "ours" => Known(r.keys)')
  BY <1>1, <1>2, <1>3 DEF RecordOK
<1>4. RecordOK(file)' /\ RecordOK(daemon.record)'
  BY <1>2, <1>3 DEF DeviceOK, RecordOK, Opens, open_volume_key
<1> QED BY <1>2, <1>4 DEF DeviceOK, BootsUnlessKeyless

LEMMA GwAuthorizeOK ==
  ASSUME EnrollInv, GwAuthorize
  PROVE  EnrollInv'
<1> USE DEF EnrollInv
<1>1. /\ handler = "authorize"
      /\ \/ handler' = "record" /\ cli' = cli
         \/ handler' = "idle" /\ Answers("idle", NoGrant)
      /\ UNCHANGED <<attempt, code, reply, devices, ledger, stored, fingerprints, version, counter,
                     sent, unhydrated, service, deviceVars, nfaults>>
  BY DEF GwAuthorize, Fails
<1>2. cli' \in Cli /\ (cli' = cli \/ cli' = IdleCli \/ (cli'.pc = "idle" /\ cli'.grant = NoGrant))
  BY <1>1, AnswersType, NoGrantType, TypeFacts DEF CliPc
<1>3. TypeOK'
  BY <1>1, <1>2, GatewayType DEF TypeOK
<1>4. RequestsOK'
  BY <1>1, <1>2, IdleCliType, TypeFacts, Bounds DEF RequestsOK, Undrawn
<1>5. GrantsOK'
  BY <1>1, <1>2, IdleCliType, NoGrantType DEF GrantsOK, Registered, Known, Opens, open_volume_key
<1>6. DeviceOK'
  BY <1>1, GatewayDevice
<1> QED BY <1>3, <1>4, <1>5, <1>6

LEMMA GwRecordOK ==
  ASSUME EnrollInv, GwRecord
  PROVE  EnrollInv'
<1> USE DEF EnrollInv
<1>1. /\ handler = "record" /\ handler' = "policy"
      /\ devices' = devices \cup {attempt} /\ ledger' = ledger \cup {identity(attempt)}
      /\ \/ stored' = stored \cup {identity(attempt)} /\ unhydrated' = unhydrated
         \/ stored' = stored /\ unhydrated' = unhydrated \cup {identity(attempt)}
      /\ UNCHANGED <<cliVars, code, reply, fingerprints, version, counter, sent,
                     service, deviceVars>>
  BY DEF GwRecord
<1>2. attempt \in Attempt /\ identity(attempt) \in {identity(a) : a \in Attempt}
  BY <1>1, TypeFacts, Bounds DEF RequestsOK, Attempt
<1>3. nfaults' \in 0..MaxFaults
  BY FaultType, TypeFacts DEF GwRecord
<1>4. TypeOK'
  BY <1>1, <1>2, <1>3, GatewayType, TypeFacts DEF TypeOK, cliVars
<1>5. RequestsOK'
  BY <1>1, TypeFacts, Bounds DEF RequestsOK, Undrawn, cliVars
<1>6. GrantsOK'
  <2>1. Registered(attempt)'
    BY <1>1 DEF Registered, cliVars
  <2>2. stored' \subseteq ledger'
    BY <1>1 DEF GrantsOK
  <2>3. cli.grant.tls = "ours" => Known(attempt)'
    BY <1>1, <2>1 DEF GrantsOK, Known, cliVars
  <2> QED BY <1>1, <2>1, <2>2, <2>3 DEF GrantsOK, cliVars, Opens, open_volume_key
<1>7. DeviceOK'
  BY <1>1, GatewayDevice DEF cliVars
<1> QED BY <1>4, <1>5, <1>6, <1>7

LEMMA GwIssuePolicyOK ==
  ASSUME EnrollInv, GwIssuePolicy
  PROVE  EnrollInv'
<1> USE DEF EnrollInv
<1>1. PICK c : c = [by |-> "tenant", kind |-> "policy", counter |-> counter + 1,
                    version |-> version]
  OBVIOUS
<1>2. /\ handler = "policy" /\ handler' = "grant" /\ counter' = counter + 1
      /\ sent' = sent \cup {c} /\ reply' = c
      /\ UNCHANGED <<cliVars, code, devices, ledger, stored, fingerprints, version, unhydrated,
                     service, deviceVars, nfaults>>
  BY <1>1 DEF GwIssuePolicy
<1>3. counter' + Undrawn' <= MaxCounter /\ Undrawn' \in Nat
  BY <1>2, TypeFacts, Bounds DEF RequestsOK, Undrawn, cliVars
<1>4. counter + 1 \in 0..MaxCounter
  BY <1>2, <1>3, TypeFacts, Bounds
<1>5. c \in SignedCommand
  BY <1>1, <1>4 DEF SignedCommand, TypeOK
<1>6. TypeOK'
  BY <1>2, <1>4, <1>5, GatewayType, TypeFacts DEF TypeOK, cliVars
<1>7. RequestsOK'
  BY <1>2, <1>3 DEF RequestsOK, cliVars
<1>8. GrantsOK'
  BY <1>2 DEF GrantsOK, Registered, Known, Opens, open_volume_key, cliVars
<1>9. DeviceOK'
  BY <1>2, GatewayDevice DEF cliVars
<1> QED BY <1>6, <1>7, <1>8, <1>9

LEMMA GwIssueFailsOK ==
  ASSUME EnrollInv, GwIssueFails
  PROVE  EnrollInv'
<1> USE DEF EnrollInv
<1>1. /\ handler = "policy" /\ handler' = "idle" /\ Answers("idle", NoGrant)
      /\ UNCHANGED <<attempt, code, reply, devices, ledger, stored, fingerprints, version, counter,
                     sent, unhydrated, service, deviceVars>>
  BY DEF GwIssueFails, Fails
<1>2. cli' \in Cli /\ (cli' = cli \/ cli' = IdleCli \/ (cli'.pc = "idle" /\ cli'.grant = NoGrant))
  BY <1>1, AnswersType, NoGrantType DEF CliPc
<1>3. nfaults' \in 0..MaxFaults
  BY FaultType DEF GwIssueFails
<1>4. TypeOK'
  BY <1>1, <1>2, <1>3, GatewayType DEF TypeOK
<1>5. RequestsOK'
  BY <1>1, <1>2, IdleCliType, TypeFacts, Bounds DEF RequestsOK, Undrawn
<1>6. GrantsOK'
  BY <1>1, <1>2, IdleCliType, NoGrantType DEF GrantsOK, Registered, Known, Opens, open_volume_key
<1>7. DeviceOK'
  BY <1>1, GatewayDevice
<1> QED BY <1>4, <1>5, <1>6, <1>7

LEMMA VolumeKeyType ==
  ASSUME TypeOK
  PROVE  issue_wrapped_volume_key \in WrappedVolumeKey
<1>1. service \in {"none", "mem", "sealed"}
  BY EnrollmentAssumption DEF TypeOK
<1> QED BY <1>1, TypeFacts, KeyTypes DEF issue_wrapped_volume_key

LEMMA GwGrantOK ==
  ASSUME EnrollInv, GwGrant
  PROVE  EnrollInv'
<1> USE DEF EnrollInv
<1>1. PICK tls \in {"ours", "none"} :
        /\ fingerprints' = IF tls = "ours" THEN fingerprints \cup {attempt} ELSE fingerprints
        /\ Answers("accept", [policy |-> reply, volume_key |-> issue_wrapped_volume_key,
                              tls |-> tls])
  BY DEF GwGrant
<1>2. PICK g : g = [policy |-> reply, volume_key |-> issue_wrapped_volume_key, tls |-> tls]
  OBVIOUS
<1>3. /\ handler = "grant" /\ handler' = "idle" /\ reply' = NoPolicy
      /\ UNCHANGED <<attempt, code, devices, ledger, stored, version, counter, sent, unhydrated,
                     service, deviceVars, nfaults>>
  BY DEF GwGrant
<1>4. g \in Grant /\ g.tls = tls
  BY <1>2, VolumeKeyType DEF Grant, TypeOK
<1>5. cli' \in Cli /\ (cli' = cli \/ cli' = IdleCli \/ (cli'.pc = "accept" /\ cli'.grant = g))
  BY <1>1, <1>2, <1>4, AnswersType DEF CliPc
<1>6. attempt \in Attempt
  BY <1>3, TypeFacts, Bounds DEF RequestsOK, Attempt
<1>7. TypeOK'
  BY <1>1, <1>3, <1>5, <1>6, GatewayType DEF TypeOK
<1>8. RequestsOK'
  BY <1>3, <1>5, IdleCliType, TypeFacts, Bounds DEF RequestsOK, Undrawn
<1>9. GrantsOK'
  <2>1. tls = "ours" => Known(attempt)'
    BY <1>1, <1>3 DEF GrantsOK, Registered, Known
  <2>2. Known(attempt) => Known(attempt)'
    BY <1>1, <1>3 DEF Known, Registered
  <2>3. cli'.grant.tls = "ours" => Known(attempt)'
    BY <1>4, <1>5, <2>1, <2>2, IdleCliType DEF GrantsOK
  <2>4. cli'.pc = "save" => cli' = cli
    BY <1>5, IdleCliType
  <2> QED BY <1>3, <2>3, <2>4 DEF GrantsOK, Opens, open_volume_key
<1>10. DeviceOK'
  BY <1>1, <1>3, GatewayDevice
<1> QED BY <1>7, <1>8, <1>9, <1>10

LEMMA PolicyStepsOK ==
  ASSUME EnrollInv, Approve \/ AuthorPolicy \/ ReissuePolicy
  PROVE  EnrollInv'
<1> USE DEF EnrollInv
<1>1. /\ cli' = cli /\ attempt' = attempt
      /\ UNCHANGED <<handler, reply, devices, ledger, stored, fingerprints, unhydrated,
                     service, deviceVars, nfaults>>
  BY DEF Approve, AuthorPolicy, ReissuePolicy, cliVars, gatewayVars
<1>2. code' \in {"none", "pending", "approved", "rejected", "spent"} /\ version' \in Version
  BY Bounds DEF Approve, AuthorPolicy, ReissuePolicy, gatewayVars, TypeOK, Version
<1>3. /\ counter' \in 0..MaxCounter /\ sent' \subseteq SignedCommand
      /\ counter' + Undrawn <= MaxCounter
  <2>1. CASE ReissuePolicy
    <3>1. counter' = counter + 1 /\ counter + Undrawn < MaxCounter /\ Undrawn \in Nat
      BY <2>1, TypeFacts, Bounds DEF ReissuePolicy, Undrawn
    <3>2. counter + 1 \in 0..MaxCounter /\ counter' + Undrawn <= MaxCounter
      BY <3>1, TypeFacts, Bounds
    <3>3. [by |-> "tenant", kind |-> "policy", counter |-> counter + 1, version |-> version]
            \in SignedCommand
      BY <3>2 DEF SignedCommand, TypeOK
    <3> QED BY <2>1, <3>1, <3>2, <3>3 DEF ReissuePolicy, TypeOK
  <2>2. CASE Approve \/ AuthorPolicy
    BY <2>2 DEF Approve, AuthorPolicy, gatewayVars, TypeOK, RequestsOK
  <2> QED BY <2>1, <2>2
<1>4. TypeOK'
  BY <1>1, <1>2, <1>3, GatewayType, TypeFacts DEF TypeOK
<1>5. RequestsOK'
  BY <1>1, <1>3 DEF RequestsOK, Undrawn
<1>6. GrantsOK'
  BY <1>1 DEF GrantsOK, Registered, Known, Opens, open_volume_key
<1>7. DeviceOK'
  BY <1>1, GatewayDevice
<1> QED BY <1>4, <1>5, <1>6, <1>7

LEMMA RestartGatewayOK ==
  ASSUME EnrollInv, RestartGateway
  PROVE  EnrollInv'
<1> USE DEF EnrollInv
<1>1. /\ handler' = "idle" /\ reply' = NoPolicy /\ version' = 1 /\ ledger' = stored
      /\ cli' = IF cli.pc = "wait" THEN IdleCli ELSE cli
      /\ UNCHANGED <<attempt, code, devices, stored, fingerprints, counter, sent,
                     unhydrated, service, deviceVars, nfaults>>
  BY DEF RestartGateway
<1>2. cli' \in Cli /\ (cli' = cli \/ cli' = IdleCli)
  BY <1>1, IdleCliType, TypeFacts
<1>3. TypeOK'
  BY <1>1, <1>2, GatewayType, Bounds DEF TypeOK
<1>4. RequestsOK'
  BY <1>1, <1>2, IdleCliType, TypeFacts, Bounds DEF RequestsOK, Undrawn
<1>5. GrantsOK'
  BY <1>1, <1>2, IdleCliType DEF GrantsOK, Registered, Known, Opens, open_volume_key
<1>6. DeviceOK'
  BY <1>1, GatewayDevice
<1> QED BY <1>3, <1>4, <1>5, <1>6

-----------------------------------------------------------------------------
(* The steps of the command line. *)

LEMMA ClientType ==
  ASSUME TypeOK, attempt' \in 0..MaxAttempts, cli' \in Cli,
         code' \in {"none", "pending", "approved", "rejected", "spent"},
         handler' \in {"idle", "authorize", "record", "policy", "grant"},
         reply' \in SignedCommand \cup {NoPolicy},
         file' \in EnrollmentRecord \cup {NoRecord, Unreadable},
         nfaults' \in 0..MaxFaults,
         UNCHANGED <<devices, ledger, stored, fingerprints, version, counter, sent, unhydrated,
                     service, ckpt, daemon>>
  PROVE  TypeOK'
BY DEF TypeOK, Cli, CliPc

\* Keys that are drawn anew concern no record there is.
LEMMA ClientDevice ==
  ASSUME DeviceOK, attempt \in Nat, attempt' \in Nat, attempt <= attempt', TypeOK,
         UNCHANGED <<devices, stored, fingerprints, unhydrated, deviceVars>>
  PROVE  DeviceOK'
<1>1. file' = file /\ daemon' = daemon
  BY DEF deviceVars
<1>2. file.keys \in Nat /\ daemon.record.keys \in Nat
  BY Bounds DEF TypeOK, EnrollmentRecord, NoRecord, Unreadable, DEV
<1>3. file.keys <= attempt' /\ daemon.record.keys <= attempt'
  BY <1>2 DEF DeviceOK, RecordOK
<1> QED BY <1>1, <1>3 DEF DeviceOK, BootsUnlessKeyless, RecordOK, Known, Registered, Opens,
                          open_volume_key

\* A step of the command line that only moves it on, or ends it.
LEMMA ClientMoves ==
  ASSUME EnrollInv, cli' \in Cli,
         cli' = IdleCli \/ (cli.pc # "idle" /\ cli'.grant = cli.grant),
         cli'.pc # "save", cli'.pc = "poll" => cli.pc = "poll",
         cli'.pc = "complete" => cli.pc = "poll",
         code' \in {"none", "pending", "approved", "rejected", "spent"},
         UNCHANGED <<attempt, gatewayVars, service, deviceVars, nfaults>>
  PROVE  EnrollInv'
<1> USE DEF EnrollInv
<1>1. /\ UNCHANGED <<handler, reply, devices, ledger, stored, fingerprints, version, counter, sent,
                     unhydrated>>
      /\ UNCHANGED <<file, ckpt, daemon>>
  BY DEF gatewayVars, deviceVars
<1>2. TypeOK'
  BY <1>1, ClientType DEF TypeOK
<1>3. RequestsOK'
  BY <1>1, TypeFacts, IdleCliType, Bounds DEF RequestsOK, Undrawn
<1>4. GrantsOK'
  BY <1>1, IdleCliType DEF GrantsOK, Registered, Known
<1>5. DeviceOK'
  BY <1>1, ClientDevice, TypeFacts DEF deviceVars
<1> QED BY <1>2, <1>3, <1>4, <1>5

LEMMA StartOK ==
  ASSUME EnrollInv, Start
  PROVE  EnrollInv'
<1> USE DEF EnrollInv
<1>1. /\ cli.pc = "idle" /\ handler = "idle" /\ attempt < MaxAttempts /\ attempt' = attempt + 1
      /\ cli' = [IdleCli EXCEPT !.pc = "poll"] /\ code' = "pending"
      /\ UNCHANGED <<handler, reply, devices, ledger, stored, fingerprints, version, counter, sent,
                     unhydrated, service, file, ckpt, daemon, nfaults>>
  BY DEF Start, begin_device_auth, gatewayVars, deviceVars
<1>2. cli' \in Cli /\ cli'.pc = "poll" /\ cli'.grant.tls = "none"
  BY <1>1, IdleCliType, CliMoves DEF CliPc
<1>3. attempt' \in 0..MaxAttempts /\ attempt' \in Nat /\ attempt <= attempt' /\ attempt' # 0
  BY <1>1, TypeFacts, Bounds
<1>4. TypeOK'
  BY <1>1, <1>2, <1>3, ClientType DEF TypeOK
<1>5. RequestsOK'
  BY <1>1, <1>2, <1>3, TypeFacts, Bounds DEF RequestsOK, Undrawn
<1>6. GrantsOK'
  BY <1>1, <1>2 DEF GrantsOK
<1>7. DeviceOK'
  BY <1>1, <1>3, ClientDevice, TypeFacts DEF deviceVars
<1> QED BY <1>4, <1>5, <1>6, <1>7

LEMMA PollPendingOK ==
  ASSUME EnrollInv, PollPending
  PROVE  EnrollInv'
<1> USE DEF EnrollInv
<1>1. /\ cli.pc = "poll"
      /\ cli' = IF cli.polls + 1 >= MaxPolls THEN IdleCli ELSE [cli EXCEPT !.polls = @ + 1]
      /\ UNCHANGED <<attempt, code, gatewayVars, service, deviceVars, nfaults>>
  BY DEF PollPending
<1>2. CASE cli.polls + 1 >= MaxPolls
  BY <1>1, <1>2, IdleCliType, ClientMoves DEF TypeOK
<1>3. CASE ~(cli.polls + 1 >= MaxPolls)
  <2>1. cli.polls \in 0..(MaxPolls - 1) /\ cli \in [pc : CliPc, polls : 0..(MaxPolls - 1), grant : Grant]
    BY TypeFacts DEF Cli
  <2>2. cli.polls + 1 \in 0..(MaxPolls - 1)
    BY <1>3, <2>1, Bounds
  <2>3. cli' \in Cli /\ cli'.pc = cli.pc /\ cli'.grant = cli.grant
    BY <1>1, <1>3, <2>1, <2>2 DEF Cli
  <2> QED BY <1>1, <2>3, ClientMoves DEF TypeOK
<1> QED BY <1>2, <1>3

LEMMA PollApprovedOK ==
  ASSUME EnrollInv, PollApproved
  PROVE  EnrollInv'
<1> USE DEF EnrollInv
<1>1. /\ cli.pc = "poll" /\ code' \in {code, "spent"}
      /\ cli' = [cli EXCEPT !.pc = "complete"] \/ cli' = IdleCli
      /\ UNCHANGED <<attempt, gatewayVars, service, deviceVars, nfaults>>
  BY DEF PollApproved
<1>2. /\ cli' \in Cli /\ cli'.pc \in {"complete", "idle"}
      /\ cli' = IdleCli \/ cli'.grant = cli.grant
  <2>1. /\ [cli EXCEPT !.pc = "complete"] \in Cli /\ [cli EXCEPT !.pc = "complete"].pc = "complete"
        /\ [cli EXCEPT !.pc = "complete"].grant = cli.grant
    BY TypeFacts, CliMoves DEF CliPc
  <2> QED BY <1>1, <2>1, IdleCliType
<1> QED BY <1>1, <1>2, ClientMoves DEF TypeOK

LEMMA CompleteOK ==
  ASSUME EnrollInv, Complete
  PROVE  EnrollInv'
<1> USE DEF EnrollInv
<1>1. /\ cli.pc = "complete" /\ cli' = [cli EXCEPT !.pc = "wait"] /\ handler' = "authorize"
      /\ UNCHANGED <<attempt, code, reply, devices, ledger, stored, fingerprints, version, counter,
                     sent, unhydrated, service, file, ckpt, daemon, nfaults>>
  BY DEF Complete, deviceVars
<1>2. cli' \in Cli /\ cli'.pc = "wait" /\ cli'.grant = cli.grant
  BY <1>1, TypeFacts, CliMoves DEF CliPc
<1>3. TypeOK'
  BY <1>1, <1>2, ClientType DEF TypeOK
<1>4. RequestsOK'
  BY <1>1, <1>2, TypeFacts, Bounds DEF RequestsOK, Undrawn
<1>5. GrantsOK'
  BY <1>1, <1>2 DEF GrantsOK, Registered, Known
<1>6. DeviceOK'
  BY <1>1, ClientDevice, TypeFacts DEF deviceVars
<1> QED BY <1>3, <1>4, <1>5, <1>6

LEMMA TransportFailsOK ==
  ASSUME EnrollInv, TransportFails
  PROVE  EnrollInv'
<1> USE DEF EnrollInv
<1>1. /\ cli.pc # "idle" /\ cli' = IdleCli
      /\ \/ handler' = handler /\ reply' = reply
         \/ handler' = "idle" /\ reply' = NoPolicy
      /\ UNCHANGED <<attempt, code, devices, ledger, stored, fingerprints, version, counter,
                     sent, unhydrated, service, file, ckpt, daemon>>
  BY DEF TransportFails, deviceVars
<1>2. nfaults' \in 0..MaxFaults
  BY FaultType DEF TransportFails
<1>3. TypeOK'
  BY <1>1, <1>2, IdleCliType, ClientType DEF TypeOK
<1>4. RequestsOK'
  BY <1>1, IdleCliType, TypeFacts, Bounds DEF RequestsOK, Undrawn
<1>5. GrantsOK'
  BY <1>1, IdleCliType DEF GrantsOK, Registered, Known
<1>6. DeviceOK'
  BY <1>1, ClientDevice, TypeFacts DEF deviceVars
<1> QED BY <1>3, <1>4, <1>5, <1>6

\* Whatever the impostor puts together, it has no credentials of the gateway's.
LEMMA ImpostorGrants ==
  ASSUME EnrollInv, NEW g \in ImpostorGrant
  PROVE  g \in Grant /\ g.tls # "ours"
<1>1. g.policy \in sent \cup {[by |-> "impostor", kind |-> "policy", counter |-> 1,
                               version |-> MaxVersion],
                              [by |-> "tenant", kind |-> "lock", counter |-> 1, version |-> 1],
                              NoPolicy}
  BY DEF ImpostorGrant
<1>2. 1 \in 0..MaxCounter /\ MaxVersion \in Version /\ 1 \in Version
  BY Bounds DEF Version
<1>3. g.policy \in SignedCommand \cup {NoPolicy}
  BY <1>1, <1>2 DEF SignedCommand, EnrollInv, TypeOK
<1>4. g.volume_key \in {NoVolumeKey, wrap(attempt), wrap(DEV), [how |-> "malformed", to |-> 0]}
      /\ g.tls \in {"none", "other"}
      /\ g = [policy |-> g.policy, volume_key |-> g.volume_key, tls |-> g.tls]
  BY DEF ImpostorGrant
<1>5. attempt \in 0..MaxAttempts /\ DEV \in 0..MaxAttempts
  BY TypeFacts, Bounds DEF EnrollInv, DEV
<1>6. g.volume_key \in WrappedVolumeKey
  BY <1>4, <1>5, KeyTypes
<1> QED BY <1>3, <1>4, <1>6 DEF Grant

LEMMA ImpostorAnswersOK ==
  ASSUME EnrollInv, ImpostorAnswers
  PROVE  EnrollInv'
<1> USE DEF EnrollInv
<1>1. PICK g \in ImpostorGrant : cli' = [cli EXCEPT !.pc = "accept", !.grant = g]
  BY DEF ImpostorAnswers
<1>2. /\ cli.pc = "wait"
      /\ UNCHANGED <<attempt, code, handler, reply, devices, ledger, stored, fingerprints, version,
                     counter, sent, unhydrated, service, file, ckpt, daemon>>
  BY DEF ImpostorAnswers, gatewayVars, deviceVars
<1>3. g \in Grant /\ g.tls # "ours"
  BY ImpostorGrants
<1>4. cli' \in Cli /\ cli'.pc = "accept" /\ cli'.grant = g
  <2>1. cli \in [pc : CliPc, polls : 0..(MaxPolls - 1), grant : Grant] /\ "accept" \in CliPc
    BY TypeFacts DEF Cli, CliPc
  <2> QED BY ONLY <1>1, <1>3, <2>1 DEF Cli
<1>5. nfaults' \in 0..MaxFaults
  BY FaultType DEF ImpostorAnswers
<1>6. TypeOK'
  BY <1>2, <1>4, <1>5, ClientType DEF TypeOK
<1>7. RequestsOK'
  BY <1>2, <1>4, TypeFacts, Bounds DEF RequestsOK, Undrawn
<1>8. GrantsOK'
  BY <1>2, <1>3, <1>4 DEF GrantsOK, Registered, Known
<1>9. DeviceOK'
  BY <1>2, ClientDevice, TypeFacts DEF deviceVars
<1> QED BY <1>6, <1>7, <1>8, <1>9

\* Only the tenant's policy, with a volume key that opens or none, gets past accept.
LEMMA AcceptOK ==
  ASSUME EnrollInv, NEW fresh \in BOOLEAN, Accept(fresh)
  PROVE  EnrollInv'
<1> USE DEF EnrollInv
<1>1. /\ cli.pc = "accept"
      /\ UNCHANGED <<attempt, code, handler, reply, devices, ledger, stored, fingerprints, version,
                     counter, sent, unhydrated, service, file, ckpt, daemon, nfaults>>
  BY DEF Accept, gatewayVars, deviceVars
<1>2. \/ cli' = IdleCli
      \/ /\ cli' = [cli EXCEPT !.pc = "save"]
         /\ cli.grant.policy.by = "tenant" /\ Opens(cli.grant.volume_key, attempt)
  BY DEF Accept, accept_policy, verify, Opens
<1>3. /\ cli' \in Cli
      /\ \/ cli' = IdleCli
         \/ cli'.pc = "save" /\ cli'.grant = cli.grant
  <2>1. /\ [cli EXCEPT !.pc = "save"] \in Cli /\ [cli EXCEPT !.pc = "save"].pc = "save"
        /\ [cli EXCEPT !.pc = "save"].grant = cli.grant
    BY TypeFacts, CliMoves DEF CliPc
  <2> QED BY <1>2, <2>1, IdleCliType
<1>4. TypeOK'
  BY <1>1, <1>3, ClientType DEF TypeOK
<1>5. RequestsOK'
  BY <1>1, <1>3, IdleCliType, TypeFacts, Bounds DEF RequestsOK, Undrawn
<1>6. GrantsOK'
  <2>1. cli'.grant.tls = "ours" => Known(attempt)'
    BY <1>1, <1>3, IdleCliType DEF GrantsOK, Known, Registered
  <2>2. ASSUME cli'.pc = "save"
        PROVE  /\ cli'.grant.policy \in SignedCommand /\ cli'.grant.policy.by = "tenant"
               /\ Opens(cli'.grant.volume_key, attempt)
    <3>1. /\ cli'.grant = cli.grant /\ cli.grant.policy.by = "tenant"
          /\ Opens(cli.grant.volume_key, attempt)
      BY <1>2, <1>3, <2>2, IdleCliType
    <3>2. cli.grant.policy \in SignedCommand
      BY <3>1, TypeFacts DEF Cli, Grant, NoPolicy
    <3> QED BY <3>1, <3>2
  <2> QED BY <1>1, <2>1, <2>2 DEF GrantsOK, Registered, Opens, open_volume_key
<1>7. DeviceOK'
  BY <1>1, ClientDevice, TypeFacts DEF deviceVars
<1> QED BY <1>4, <1>5, <1>6, <1>7

LEMMA EnrolledOK ==
  ASSUME EnrollInv, cli.pc = "save"
  PROVE  Enrolled(attempt, cli.grant) \in EnrollmentRecord
         /\ RecordOK(Enrolled(attempt, cli.grant))
<1> USE DEF EnrollInv
<1>1. cli.grant \in Grant /\ cli.grant.policy \in SignedCommand
      /\ cli.grant.policy.by = "tenant" /\ Opens(cli.grant.volume_key, attempt)
  BY TypeFacts DEF Cli, GrantsOK
<1>2. cli.grant.policy.version \in Version /\ cli.grant.policy.version \in Nat
  BY <1>1 DEF SignedCommand, Version
<1>3. Enrolled(attempt, cli.grant) \in EnrollmentRecord
  BY <1>1, <1>2, TypeFacts DEF Enrolled, EnrollmentRecord, Grant
<1>4. RecordOK(Enrolled(attempt, cli.grant))
  BY <1>1, <1>2, TypeFacts DEF Enrolled, RecordOK, GrantsOK
<1> QED BY <1>3, <1>4

LEMMA SaveRecordOK ==
  ASSUME EnrollInv, SaveRecord
  PROVE  EnrollInv'
<1> USE DEF EnrollInv
<1>1. PICK r : r = Enrolled(attempt, cli.grant)
  OBVIOUS
<1>2. /\ cli.pc = "save" /\ save(r) /\ cli' = IdleCli
      /\ UNCHANGED <<attempt, code, handler, reply, devices, ledger, stored, fingerprints, version,
                     counter, sent, unhydrated, service, ckpt, daemon>>
  BY <1>1 DEF SaveRecord, gatewayVars
<1>3. r \in EnrollmentRecord /\ RecordOK(r)
  BY <1>1, <1>2, EnrolledOK
<1>4. nfaults' \in 0..MaxFaults /\ (file' = file \/ file' = r)
  BY <1>2, SaveType
<1>5. TypeOK'
  BY <1>2, <1>3, <1>4, IdleCliType, ClientType DEF TypeOK
<1>6. RequestsOK'
  BY <1>2, IdleCliType, TypeFacts, Bounds DEF RequestsOK, Undrawn
<1>7. GrantsOK'
  BY <1>2, IdleCliType DEF GrantsOK, Registered
<1>8. DeviceOK'
  BY <1>2, <1>3, <1>4 DEF DeviceOK, BootsUnlessKeyless, RecordOK, Known, Registered, Opens,
                          open_volume_key
<1> QED BY <1>5, <1>6, <1>7, <1>8

-----------------------------------------------------------------------------
(* The steps of the daemon. *)

\* They leave the command line and the gateway alone.
LEMMA DaemonStep ==
  ASSUME EnrollInv, UNCHANGED <<cliVars, code, gatewayVars, service>>,
         file' \in EnrollmentRecord \cup {NoRecord, Unreadable}, RecordOK(file'),
         daemon' \in [pc : {"down", "up", "panicked"}, record : EnrollmentRecord \cup {NoRecord},
                      high_water : 0..MaxCounter],
         RecordOK(daemon'.record), BootsUnlessKeyless',
         ckpt' \in 0..MaxCounter, nfaults' \in 0..MaxFaults
  PROVE  EnrollInv'
<1> USE DEF EnrollInv
<1>1. UNCHANGED <<attempt, cli, code, handler, reply, devices, ledger, stored, fingerprints, version,
                  counter, sent, unhydrated, service>>
  BY DEF cliVars, gatewayVars
<1>2. TypeOK'
  BY <1>1 DEF TypeOK
<1>3. RequestsOK'
  BY <1>1 DEF RequestsOK, Undrawn
<1>4. GrantsOK'
  BY <1>1 DEF GrantsOK, Registered, Known
<1>5. DeviceOK'
  BY <1>1 DEF DeviceOK, RecordOK, Known, Registered
<1> QED BY <1>2, <1>3, <1>4, <1>5

LEMMA DeviceFacts ==
  ASSUME EnrollInv
  PROVE  /\ file \in EnrollmentRecord \cup {NoRecord, Unreadable} /\ RecordOK(file)
         /\ daemon \in [pc : {"down", "up", "panicked"}, record : EnrollmentRecord \cup {NoRecord},
                        high_water : 0..MaxCounter]
         /\ RecordOK(daemon.record) /\ ckpt \in 0..MaxCounter /\ nfaults \in 0..MaxFaults
         /\ (daemon.pc = "panicked" => daemon.record.volume_key = NoVolumeKey)
BY DEF EnrollInv, TypeOK, DeviceOK, BootsUnlessKeyless

\* What accept let through opens again: a boot that panics has no volume key.
LEMMA BootOK ==
  ASSUME EnrollInv, Boot
  PROVE  EnrollInv'
<1>1. PICK r : r = IF load(file) THEN file ELSE bootstrap_dev_enrollment
  OBVIOUS
<1>2. /\ IF load(file) THEN UNCHANGED <<file, nfaults>> ELSE save(r)
      /\ daemon' = [pc |-> IF open_volume(r) THEN "up" ELSE "panicked",
                    record |-> r, high_water |-> ckpt]
      /\ UNCHANGED <<cliVars, code, gatewayVars, service, ckpt>>
  BY <1>1 DEF Boot
<1>3. r \in EnrollmentRecord /\ RecordOK(r)
  BY <1>1, DeviceFacts, BootRecords, BootRecordsOK DEF EnrollInv, load
<1>4. nfaults' \in 0..MaxFaults /\ (file' = file \/ file' = r)
  BY <1>2, DeviceFacts, SaveType DEF EnrollInv
<1>5. file' \in EnrollmentRecord \cup {NoRecord, Unreadable} /\ RecordOK(file')
  BY <1>3, <1>4, DeviceFacts
<1>6. /\ daemon' \in [pc : {"down", "up", "panicked"}, record : EnrollmentRecord \cup {NoRecord},
                      high_water : 0..MaxCounter]
      /\ daemon'.record = r
  BY <1>2, <1>3, DeviceFacts
<1>7. BootsUnlessKeyless'
  BY <1>2, <1>3 DEF BootsUnlessKeyless, open_volume, RecordOK, Opens
<1> QED BY <1>2, <1>3, <1>4, <1>5, <1>6, <1>7, DeviceFacts, DaemonStep

\* A policy that takes effect is no older than the one in force.
LEMMA UpdatePolicyOK ==
  ASSUME EnrollInv, NEW c \in sent, UpdatePolicy(c)
  PROVE  EnrollInv' /\ daemon'.record.keys = daemon.record.keys
<1>1. /\ daemon.pc = "up" /\ daemon.record.keys # DEV
      /\ daemon' = [daemon EXCEPT !.high_water = c.counter,
                                  !.record.version = IF Rollback(c) THEN @ ELSE c.version]
      /\ IF Rollback(c) THEN UNCHANGED <<file, nfaults>> ELSE save(daemon'.record)
      /\ UNCHANGED <<cliVars, code, gatewayVars, service, ckpt>>
  BY DEF UpdatePolicy
<1>2. c.counter \in 0..MaxCounter /\ c.version \in Version /\ c.version \in Nat
  BY DEF EnrollInv, TypeOK, SignedCommand, Version
<1>3. PICK r : r = daemon.record
  OBVIOUS
<1>4. r \in EnrollmentRecord /\ RecordOK(r) /\ r.version \in Nat /\ r.first \in Nat
  BY <1>1, <1>3, DeviceFacts DEF NoRecord, EnrollmentRecord, Version
<1>5. PICK v : v = IF c.version < r.version THEN r.version ELSE c.version
  OBVIOUS
<1>6. v \in Version /\ v \in Nat /\ v >= r.first
  BY <1>2, <1>4, <1>5 DEF RecordOK, EnrollmentRecord
<1>7. PICK r1 : r1 = [r EXCEPT !.version = v]
  OBVIOUS
<1>8. /\ r1 \in EnrollmentRecord /\ r1.by = r.by /\ r1.keys = r.keys /\ r1.version = v
      /\ r1.first = r.first /\ r1.volume_key = r.volume_key /\ r1.tls = r.tls
  BY ONLY <1>4, <1>6, <1>7 DEF EnrollmentRecord
<1>9. RecordOK(r1)
  BY <1>4, <1>6, <1>8 DEF RecordOK
<1>10. /\ daemon' \in [pc : {"down", "up", "panicked"}, record : EnrollmentRecord \cup {NoRecord},
                       high_water : 0..MaxCounter]
       /\ daemon'.record = r1 /\ daemon'.pc = "up"
  <2>1. daemon' = [daemon EXCEPT !.high_water = c.counter, !.record = r1]
    BY <1>1, <1>3, <1>5, <1>7 DEF Rollback
  <2> QED BY <1>1, <1>2, <1>8, <2>1, DeviceFacts
<1>11. nfaults' \in 0..MaxFaults /\ (file' = file \/ file' = r1)
  BY <1>1, <1>10, DeviceFacts, SaveType DEF EnrollInv
<1>12. file' \in EnrollmentRecord \cup {NoRecord, Unreadable} /\ RecordOK(file')
  BY <1>8, <1>9, <1>11, DeviceFacts
<1>13. BootsUnlessKeyless'
  BY <1>10 DEF BootsUnlessKeyless
<1>14. EnrollInv'
  BY <1>1, <1>9, <1>10, <1>11, <1>12, <1>13, DeviceFacts, DaemonStep
<1> QED BY <1>3, <1>8, <1>10, <1>14

LEMMA DaemonRestsOK ==
  ASSUME EnrollInv, SaveCheckpoint \/ Crash \/ Corrupt
  PROVE  EnrollInv'
<1>1. UNCHANGED <<cliVars, code, gatewayVars, service>>
  BY DEF SaveCheckpoint, Crash, Corrupt
<1>2. CASE SaveCheckpoint
  BY <1>1, <1>2, DeviceFacts, DaemonStep DEF SaveCheckpoint, BootsUnlessKeyless
<1>3. CASE Crash
  <2>1. /\ daemon' \in [pc : {"down", "up", "panicked"}, record : EnrollmentRecord \cup {NoRecord},
                        high_water : 0..MaxCounter]
        /\ daemon'.record = NoRecord /\ BootsUnlessKeyless'
    BY <1>3, Bounds DEF Crash, Down, BootsUnlessKeyless
  <2>2. RecordOK(NoRecord)
    BY BootRecordsOK DEF EnrollInv
  <2> QED BY <1>1, <1>3, <2>1, <2>2, DeviceFacts, DaemonStep DEF Crash
<1>4. CASE Corrupt
  <2>1. nfaults' \in 0..MaxFaults /\ file' = Unreadable /\ daemon' = daemon /\ ckpt' = ckpt
    BY <1>4, FaultType DEF Corrupt, EnrollInv
  <2>2. RecordOK(Unreadable)
    BY BootRecordsOK DEF EnrollInv
  <2> QED BY <1>1, <2>1, <2>2, DeviceFacts, DaemonStep DEF BootsUnlessKeyless
<1> QED BY <1>2, <1>3, <1>4

-----------------------------------------------------------------------------
LEMMA EnrollInit == Init => EnrollInv
<1> SUFFICES ASSUME Init
             PROVE  EnrollInv
  OBVIOUS
<1>1. TypeOK
  BY IdleCliType, Bounds DEF Init, TypeOK, Cli, CliPc, Down
<1>2. RequestsOK
  BY IdleCliType, Bounds, EnrollmentAssumption DEF Init, RequestsOK, Undrawn
<1>3. GrantsOK
  BY IdleCliType DEF Init, GrantsOK
<1>4. DeviceOK
  BY <1>1, BootRecordsOK DEF Init, DeviceOK, BootsUnlessKeyless, Down
<1> QED BY <1>1, <1>2, <1>3, <1>4 DEF EnrollInv

LEMMA EnrollStep == EnrollInv /\ [Next]_vars => EnrollInv'
<1> SUFFICES ASSUME EnrollInv, [Next]_vars
             PROVE  EnrollInv'
  OBVIOUS
<1>1. CASE GwHandler
  BY <1>1, GwAuthorizeOK, GwRecordOK, GwIssuePolicyOK, GwIssueFailsOK, GwGrantOK DEF GwHandler
<1>2. CASE Approve \/ AuthorPolicy \/ ReissuePolicy
  BY <1>2, PolicyStepsOK
<1>3. CASE RestartGateway
  BY <1>3, RestartGatewayOK
<1>4. CASE CliStep
  BY <1>4, PollPendingOK, PollApprovedOK, CompleteOK, AcceptOK, SaveRecordOK DEF CliStep
<1>5. CASE Start \/ TransportFails \/ ImpostorAnswers
  BY <1>5, StartOK, TransportFailsOK, ImpostorAnswersOK
<1>6. CASE Boot \/ (\E c \in sent : UpdatePolicy(c))
  BY <1>6, BootOK, UpdatePolicyOK
<1>7. CASE SaveCheckpoint \/ Crash \/ Corrupt
  BY <1>7, DaemonRestsOK
<1>8. CASE UNCHANGED vars
  <2>1. UNCHANGED <<cliVars, code, gatewayVars, service, file, ckpt, daemon, nfaults>>
    BY <1>8 DEF vars, deviceVars
  <2> QED BY <2>1, DeviceFacts, DaemonStep DEF BootsUnlessKeyless
<1> QED BY <1>1, <1>2, <1>3, <1>4, <1>5, <1>6, <1>7, <1>8 DEF Next

LEMMA EnrollInvariant == Spec => []EnrollInv
<1> QED BY EnrollInit, EnrollStep, PTL DEF Spec

\* Whoever answered the command line, and whatever became of the file, nothing but
\* the tenant's policy is kept or enforced under the pinned key
\* (DeviceEnrollment::accept).
THEOREM OnlyTheTenants == Spec => []PinnedOnly
<1>1. EnrollInv => PinnedOnly
  BY DEF EnrollInv, DeviceOK, RecordOK, GrantsOK, PinnedOnly
<1> QED BY <1>1, EnrollInvariant, PTL

\* What an enrollment leaves behind fits together at every later boot of the daemon
\* and of the gateway: the record opens, the gateway knows the device, and the policy
\* is no older than the one enrolled with (boot_enrollment, complete_enrollment,
\* update_policy).
THEOREM EnrollmentLasts == Spec => []EnrollmentHolds
<1>1. EnrollInv => EnrollmentHolds
  <2> SUFFICES ASSUME EnrollInv
               PROVE  EnrollmentHolds
    OBVIOUS
  <2>1. stored \subseteq ledger /\ RecordOK(file) /\ RecordOK(daemon.record)
    BY DEF EnrollInv, DeviceOK, GrantsOK
  <2>2. CertifiedKnown
    BY <2>1 DEF CertifiedKnown, RecordOK, Known, Registered
  <2>3. NoDowngrade
    BY <2>1 DEF NoDowngrade, RecordOK
  <2> QED BY <2>2, <2>3 DEF EnrollmentHolds, EnrollInv, DeviceOK
<1> QED BY <1>1, EnrollInvariant, PTL

\* A record is replaced by that of a later enrollment, or by the one a daemon booted
\* before still has; and a daemon boots from the record that is there
\* (FileEnrollmentStore, boot_enrollment, the observer).
THEOREM LaterReplacesEarlier == Spec => EnrollmentReplaced
<1> DEFINE Replaces ==
      /\ Readable(file) /\ Readable(file') => \/ file'.keys >= file.keys
                                              \/ daemon.pc = "up" /\ file'.keys = daemon.record.keys
      /\ daemon'.pc = "up" /\ daemon.pc # "up" /\ Readable(file) => daemon'.record = file
<1>1. ASSUME EnrollInv, [Next]_vars
      PROVE  [Replaces]_<<file, daemon>>
  <2>1. file.keys \in Nat
    BY <1>1, DeviceFacts, Bounds DEF EnrollmentRecord, NoRecord, Unreadable, DEV
  <2>2. CASE SaveRecord
    <3>1. file' = file \/ file' = Enrolled(attempt, cli.grant)
      BY <2>2 DEF SaveRecord, save
    <3>2. Enrolled(attempt, cli.grant).keys = attempt /\ file.keys <= attempt
      BY <1>1, DeviceFacts DEF Enrolled, RecordOK
    <3>3. attempt \in Nat /\ daemon' = daemon
      BY <1>1, <2>2, TypeFacts DEF SaveRecord, EnrollInv
    <3> QED BY <2>1, <3>1, <3>2, <3>3
  <2>3. CASE Boot
    <3>1. Readable(file) => file' = file /\ daemon'.record = file
      BY <2>3 DEF Boot, load
    <3> QED BY <2>1, <3>1
  <2>4. CASE \E c \in sent : UpdatePolicy(c)
    <3>1. PICK c \in sent : UpdatePolicy(c)
      BY <2>4
    <3>2. daemon'.record.keys = daemon.record.keys /\ daemon.pc = "up"
      BY <1>1, <3>1, UpdatePolicyOK DEF UpdatePolicy
    <3>3. file' = file \/ file' = daemon'.record
      BY <3>1 DEF UpdatePolicy, save
    <3> QED BY <2>1, <3>2, <3>3
  <2>5. CASE Corrupt
    BY <2>5, BootRecords DEF Corrupt
  <2>6. CASE Crash
    BY <2>1, <2>6 DEF Crash, Down
  <2>7. CASE UNCHANGED <<file, daemon>>
    BY <2>7
  <2>8. \/ SaveRecord \/ Boot \/ (\E c \in sent : UpdatePolicy(c)) \/ Corrupt \/ Crash
        \/ UNCHANGED <<file, daemon>>
    BY <1>1 DEF Next, vars, deviceVars, Approve, GwHandler, GwAuthorize, GwRecord, GwIssuePolicy,
                GwIssueFails, GwGrant, AuthorPolicy, ReissuePolicy, RestartGateway, Start, CliStep,
                PollPending, PollApproved, Complete, Accept, TransportFails, ImpostorAnswers,
                SaveCheckpoint
  <2> QED BY <2>2, <2>3, <2>4, <2>5, <2>6, <2>7, <2>8
<1> QED BY <1>1, EnrollInvariant, PTL DEF Spec, EnrollmentReplaced

=============================================================================
