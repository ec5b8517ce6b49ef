---------------------------- MODULE DesktopProofs ----------------------------
(***************************************************************************)
(* Proofs about what the daemon keeps and watches on the user's desktop,   *)
(* without bound on steps, processes or faults.  Part 1 is about           *)
(* LauncherIpc, which extends VolumeIO and ClaveDisk: the passphrase in the*)
(* Keychain opens the bundle beside it, what was encrypted under a         *)
(* passphrase that was deleted is never attached again, a read returns what*)
(* was written, and the home of an app is made on the disk.  Part 2 is     *)
(* about WorkGuards: no refusal goes silent, and only work is cleared.     *)
(***************************************************************************)
EXTENDS LauncherIpc, WorkGuards, Integers, TLAPS

\* What attach knows between its steps: a new passphrase is minted only where no
\* bundle exists, and the one it holds is the one the Keychain holds.
AttachHolds ==
  /\ pc = "mint" => bundle = 0
  /\ pc = "create" => bundle = 0 /\ using # 0 /\ using = passphrase
  /\ pc = "mount" => bundle # 0 /\ using = bundle /\ using = passphrase

\* Passphrases are numbered in the order of minting.
Numbered ==
  /\ passphrase <= minted /\ using <= minted
  /\ shredded \subseteq 1..minted

\* A deleted passphrase is in nobody's hands.
Gone == passphrase \notin shredded /\ (pc \in {"down"} \cup Booting => using \notin shredded)

\* The inductive invariant.
DiskInv == TypeOK /\ PassphraseOpensBundle /\ AttachHolds /\ Numbered /\ Gone

\* A volume call keeps the types of the portable volume: unlock, lock and wipe of
\* ClaveVolume, and its provisioning at boot.
LEMMA VolumeTypes ==
  ASSUME VolumeTypeOK, Unlock \/ Lock \/ Wipe \/ Reprovision \/ UNCHANGED volumeVars
  PROVE  VolumeTypeOK'
BY DEF VolumeTypeOK, Unlock, Lock, Wipe, Reprovision, volumeVars, UnlockError

\* Every call on the portable volume appears in each action in one of these forms.
LEMMA StepVolume ==
  ASSUME Next
  PROVE  Unlock \/ Lock \/ Wipe \/ Reprovision \/ UNCHANGED volumeVars
BY Zenon DEF Next, Boot, WipeStep, StartDaemon, FindDisk, MintPassphrase, CreateBundle, MountBundle,
  AttachFails, ProvisionVolume, UnlockVolume, LockVolume, WipeVolume, DetachDisk,
  ShredPassphrase, UnlinkBundle, ReportWiped, Crash, Reboot, Eject

\* Every step of boot, operation, wipe and failure keeps the invariant.
LEMMA DiskInvStep == DiskInv /\ [Next]_vars => DiskInv'
<1> SUFFICES ASSUME DiskInv, [Next]_vars PROVE DiskInv'
  OBVIOUS
<1> USE DiskAssumption
<1> USE DEF DiskInv, TypeOK, PassphraseOpensBundle, AttachHolds, Numbered, Gone, Passphrase,
            Booting, Wiping, Fault, diskVars, auxVars, FaultKind
<1>0. VolumeTypeOK'
  <2>1. CASE Next
    BY <2>1, StepVolume, VolumeTypes
  <2>2. CASE UNCHANGED vars
    BY <2>2, VolumeTypes DEF vars
  <2> QED BY <2>1, <2>2
<1>a. 0 \in Passphrase /\ 0 \notin shredded
  OBVIOUS
<1>b. \A kind : Fault(kind) => nfaults' \in Nat
  OBVIOUS
<1>1. CASE StartDaemon
  BY <1>0, <1>1 DEF StartDaemon
<1>2. CASE FindDisk
  <2>1. CASE attached # 0
    BY <1>0, <1>2, <2>1 DEF FindDisk
  <2>2. CASE attached = 0
    <3>1. PICK found \in BOOLEAN :
            /\ KeychainGet(found) /\ using' = Stored(found)
            /\ pc' = CASE bundle # 0 /\ Stored(found) # 0 -> "mount"
                       [] bundle # 0 /\ Stored(found) = 0 -> "provision"
                       [] bundle = 0 /\ Stored(found) # 0 -> "create"
                       [] OTHER                           -> "mint"
      BY <1>2, <2>2 DEF FindDisk
    <3>2. Stored(found) \in {passphrase, 0} /\ nfaults' \in Nat
      BY <3>1 DEF Stored, KeychainGet
    <3>3. UNCHANGED <<passphrase, bundle, attached, mount_point, auxVars>>
      BY <1>2, <2>2 DEF FindDisk
    <3> HIDE DEF Stored, KeychainGet
    <3>4. CASE bundle # 0 /\ Stored(found) # 0
      BY <1>0, <3>1, <3>2, <3>3, <3>4
    <3>5. CASE bundle # 0 /\ Stored(found) = 0
      BY <1>0, <3>1, <3>2, <3>3, <3>5
    <3>6. CASE bundle = 0 /\ Stored(found) # 0
      BY <1>0, <3>1, <3>2, <3>3, <3>6
    <3>7. CASE bundle = 0 /\ Stored(found) = 0
      BY <1>0, <3>1, <3>2, <3>3, <3>7
    <3> QED BY <3>4, <3>5, <3>6, <3>7
  <2> QED BY <2>1, <2>2
<1>3. CASE MintPassphrase
  BY <1>0, <1>3 DEF MintPassphrase
<1>4. CASE CreateBundle
  BY <1>0, <1>4 DEF CreateBundle
<1>5. CASE MountBundle
  BY <1>0, <1>5 DEF MountBundle
<1>6. CASE AttachFails
  BY <1>0, <1>6 DEF AttachFails
<1>7. CASE ProvisionVolume
  BY <1>0, <1>7 DEF ProvisionVolume
<1>8. CASE UnlockVolume
  BY <1>0, <1>8 DEF UnlockVolume, Running, UnlockError
<1>9. CASE LockVolume
  BY <1>0, <1>9 DEF LockVolume, Running
<1>10. CASE WipeVolume
  BY <1>0, <1>10 DEF WipeVolume
<1>11. CASE DetachDisk
  <2>1. TypeOK'
    BY <1>0, <1>a, <1>b, <1>11 DEF DetachDisk
  <2>2. PassphraseOpensBundle' /\ AttachHolds' /\ Numbered' /\ Gone'
    BY <1>a, <1>11 DEF DetachDisk
  <2> QED BY <2>1, <2>2
<1>12. CASE ShredPassphrase
  <2>a. /\ pc = "shred" /\ pc' = "unlink" /\ nfaults' \in Nat
        /\ \/ passphrase' = 0 /\ shredded' = shredded \cup ({passphrase} \ {0})
           \/ UNCHANGED <<passphrase, shredded>>
        /\ UNCHANGED <<bundle, attached, mount_point, using, minted>>
    BY <1>b, <1>12 DEF ShredPassphrase
  <2>b. 0 \notin shredded' /\ shredded' \subseteq 1..minted /\ shredded' \subseteq 1..MaxMints
    <3>1. passphrase \in 0..minted /\ shredded \subseteq 1..minted /\ 0 \notin shredded
      BY <1>a
    <3>2. \A x \in shredded' : x \in 1..minted
      <4>1. CASE UNCHANGED <<passphrase, shredded>>
        BY <3>1, <4>1
      <4>2. CASE shredded' = shredded \cup ({passphrase} \ {0})
        <5> SUFFICES ASSUME NEW x \in shredded', x \notin shredded PROVE x \in 1..minted
          BY <3>1
        <5>1. x = passphrase /\ x # 0
          BY <4>2
        <5> QED BY <3>1, <5>1
      <4> QED BY <2>a, <4>1, <4>2
    <3>3. 1..minted \subseteq 1..MaxMints
      OBVIOUS
    <3> QED BY <3>2, <3>3
  <2>1. TypeOK'
    BY <1>0, <1>a, <2>a, <2>b
  <2>2. PassphraseOpensBundle' /\ AttachHolds' /\ Numbered' /\ Gone'
    BY <1>a, <2>a, <2>b
  <2> QED BY <2>1, <2>2
<1>13. CASE UnlinkBundle
  BY <1>0, <1>13 DEF UnlinkBundle
<1>14. CASE ReportWiped
  BY <1>0, <1>14 DEF ReportWiped
<1>15. CASE Crash
  <2>1. TypeOK'
    BY <1>0, <1>a, <1>b, <1>15 DEF Crash, Dies
  <2>2. PassphraseOpensBundle' /\ AttachHolds' /\ Numbered' /\ Gone'
    BY <1>a, <1>15 DEF Crash, Dies
  <2> QED BY <2>1, <2>2
<1>16. CASE Reboot
  <2>1. TypeOK'
    BY <1>0, <1>a, <1>b, <1>16 DEF Reboot, Dies
  <2>2. PassphraseOpensBundle' /\ AttachHolds' /\ Numbered' /\ Gone'
    BY <1>a, <1>16 DEF Reboot, Dies
  <2> QED BY <2>1, <2>2
<1>17. CASE Eject
  BY <1>0, <1>17 DEF Eject
<1>18. CASE UNCHANGED vars
  BY <1>0, <1>18 DEF vars
<1> QED
  BY <1>1, <1>2, <1>3, <1>4, <1>5, <1>6, <1>7, <1>8, <1>9, <1>10, <1>11, <1>12, <1>13,
     <1>14, <1>15, <1>16, <1>17, <1>18 DEF Next, Boot, WipeStep

\* The invariant holds in the initial state and hence always.
LEMMA DiskInvariant == Spec => []DiskInv
<1>1. Init => DiskInv
  <2> SUFFICES ASSUME Init PROVE DiskInv
    OBVIOUS
  <2>a. VolumeTypeOK /\ mount_point \in BOOLEAN
    BY Zenon DEF Init, Provisioned, VolumeTypeOK
  <2>b. 0 \in Passphrase
    BY DiskAssumption DEF Passphrase
  <2>1. TypeOK
    BY <2>a, <2>b DEF Init, TypeOK
  <2>2. PassphraseOpensBundle /\ AttachHolds /\ Numbered /\ Gone
    BY DEF Init, PassphraseOpensBundle, AttachHolds, Numbered, Gone
  <2> QED BY <2>1, <2>2 DEF DiskInv
<1> QED
  BY <1>1, DiskInvStep, PTL DEF Spec

\* MacVolumeMount::attach, with any crash or failure between its steps and those of
\* request_wipe: the passphrase in the Keychain always opens the bundle beside it.
THEOREM DiskSafe == Spec => [](TypeOK /\ PassphraseOpensBundle)
<1>1. DiskInv => TypeOK /\ PassphraseOpensBundle
  BY DEF DiskInv
<1> QED
  BY <1>1, DiskInvariant, PTL

\* Crypto-shredding: no later boot attaches a bundle encrypted under a passphrase
\* that request_wipe deleted, although attach reuses a stored passphrase, adopts a
\* mount in place and mints new ones.
THEOREM Shredding == Spec => ShreddedNeverMounts
<1>1. DiskInv /\ [Next]_vars =>
        [attached' # attached /\ attached' # 0 => attached' \notin shredded]_vars
  <2> SUFFICES ASSUME DiskInv, Next, attached' # attached, attached' # 0
               PROVE  attached' \notin shredded
    BY DEF vars
  <2>1. MountBundle
    BY DEF Next, Boot, WipeStep, StartDaemon, FindDisk, MintPassphrase, CreateBundle,
      AttachFails, ProvisionVolume, UnlockVolume, LockVolume, WipeVolume, DetachDisk,
      ShredPassphrase, UnlinkBundle, ReportWiped, Crash, Reboot, Eject, diskVars
  <2> QED
    BY <2>1 DEF MountBundle, DiskInv, Gone, AttachHolds, Booting
<1> QED
  BY <1>1, DiskInvariant, PTL DEF Spec, ShreddedNeverMounts

\* A wiped volume holds no cipher, in any state of the process.
Dark == VolumeTypeOK /\ (marker => ~cipher)

\* unlock consults the wipe marker first, and wipe evicts the cipher as it sets it:
\* whichever thread unlocks while a wipe is under way, the volume stays dark until
\* the process has ended.
THEOREM WipedDark == Spec => []WipedStaysLocked
<1>1. Init => Dark
  BY Zenon DEF Init, Provisioned, Dark, VolumeTypeOK
<1>2. Dark /\ [Next]_vars => Dark'
  <2> SUFFICES ASSUME Dark, [Next]_vars PROVE Dark'
    OBVIOUS
  <2>1. Unlock \/ Lock \/ Wipe \/ Reprovision \/ UNCHANGED volumeVars
    BY StepVolume DEF vars
  <2>2. VolumeTypeOK'
    BY <2>1, VolumeTypes DEF Dark
  <2>3. marker' => ~cipher'
    BY <2>1 DEF Dark, Unlock, UnlockError, Lock, Wipe, Reprovision, volumeVars
  <2> QED BY <2>2, <2>3 DEF Dark
<1>3. Dark => WipedStaysLocked
  BY DEF Dark, WipedStaysLocked
<1> QED
  BY <1>1, <1>2, <1>3, PTL DEF Spec

-----------------------------------------------------------------------------
(* The composition with the launcher and with sector I/O.                  *)

\* Every step of the composition is a step of the Clave Disk or leaves it alone:
\* the IPC, its tasks and volume_write change nothing of the disk.
LEMMA DiskInComposition == [LNext]_allVars => [Next]_vars
<1> SUFFICES ASSUME [LNext]_allVars, vars' # vars PROVE Next
  OBVIOUS
<1>1. ASSUME NEW c \in Conns,
             \/ Invoke(c) \/ AuditCommand(c) \/ ClientStep(c) \/ LauncherQuits(c) \/ TaskStep(c)
      PROVE  UNCHANGED vars
  BY <1>1 DEF Invoke, AuditCommand, Begin, ClientStep, Connect, ClientWrite, ClientRead,
    ClientReceive, LauncherQuits, TaskStep, Accept, ServerRead, ServerHello, HandleQuery,
    PrepareLaunch, PrepareWebLaunch, MakeDir, Spawn, JoinZone, ServerReply, ClientAlone, ServerAlone
<1>2. BindServer \/ AcceptFails \/ VolumeCall => UNCHANGED vars
  BY DEF BindServer, AcceptFails, ServerAlone, VolumeCall, WriteVolume, Write
<1>3. Machine
  BY <1>1, <1>2 DEF LNext, allVars
<1> QED BY <1>3 DEF Machine, DiskStep

\* The launcher, its daemon and the volume composed implement the Clave Disk by
\* itself, so what is proved of ClaveDisk (PassphraseOpensBundle, ShreddedNeverMounts,
\* WipedStaysLocked) holds with launches and sector I/O interleaved.
THEOREM DiskKept == LSpec => Spec
<1>1. LInit => Init
  BY DEF LInit
<1> QED BY <1>1, DiskInComposition, PTL DEF LSpec, Spec

\* The cipher is held only with the key it was unwrapped from, and never on a wiped
\* volume.
Lit == VolumeTypeOK /\ (cipher => key /\ ~marker)

LEMMA LitStep ==
  ASSUME Lit, [Next]_vars
  PROVE  Lit'
<1>1. Unlock \/ Lock \/ Wipe \/ Reprovision \/ UNCHANGED volumeVars
  BY StepVolume DEF vars
<1>2. VolumeTypeOK'
  BY <1>1, VolumeTypes DEF Lit
<1>3. cipher' => key' /\ ~marker'
  BY <1>1 DEF Lit, VolumeTypeOK, Unlock, UnlockError, Lock, Wipe, Reprovision, volumeVars
<1> QED BY <1>2, <1>3 DEF Lit

\* What a sector holds: nothing yet, or what was last written to it, under its own
\* tweak.
SectorOK(s) ==
  \/ backing[s] = Zeroed /\ written[s] = Garbage
  \/ backing[s] = [tweak |-> s, plain |-> written[s]]

IOInv == IOTypeOK /\ \A s \in Sector : SectorOK(s)

\* The process that loses its memory starts again with zeroed sectors.
LEMMA ZeroedOK ==
  /\ Zeroed \in Ciphertext
  /\ IOInit => IOInv
  /\ LoseMemory => IOInv'
<1>1. Zeroed \in Ciphertext
  BY VolumeIOAssumption DEF Zeroed, Ciphertext
<1>2. IOInit => IOInv
  BY <1>1 DEF IOInit, IOInv, IOTypeOK, SectorOK
<1>3. LoseMemory => IOInv'
  BY <1>1 DEF LoseMemory, IOInv, IOTypeOK, SectorOK
<1> QED BY <1>1, <1>2, <1>3

\* volume_write leaves every sector as it was, or as its own part of the buffer
\* under its own tweak, where the call succeeds and where it is cut short.
LEMMA WriteOK ==
  ASSUME IOInv, NEW caller \in Proc, NEW first \in 0..Sectors, NEW data \in Buffer,
         NEW aligned \in BOOLEAN, Write(caller, first, data, aligned)
  PROVE  IOInv'
<1> DEFINE result == IOResult(caller, first, Len(data), aligned)
           Touched(s) == /\ result \in {"Ok", "OutOfRange"}
                         /\ s \in first..(first + Len(data) - 1)
<1>1. PICK n \in 1..MaxIO : data \in [1..n -> Value]
  BY DEF Buffer
<1>2. n \in Nat /\ Len(data) = n /\ first \in Nat /\ Sectors \in Nat
  BY <1>1, VolumeIOAssumption
<1>3. /\ backing' = [s \in Sector |->
                       IF Touched(s) THEN Encrypt(data, first, s - first + 1) ELSE backing[s]]
      /\ written' = [s \in Sector |-> IF Touched(s) THEN data[s - first + 1] ELSE written[s]]
      /\ supervised' = supervised
  BY DEF Write
<1> HIDE DEF result
<1>4. ASSUME NEW s \in Sector
      PROVE  backing'[s] \in Ciphertext /\ written'[s] \in Value \cup {Garbage} /\ SectorOK(s)'
  <2>1. CASE Touched(s)
    <3>1. s \in Nat /\ s \in 0..Sectors /\ s - first + 1 \in 1..n
      BY <1>2, <2>1 DEF Sector
    <3>2. data[s - first + 1] \in Value
      BY <1>1, <3>1
    <3>3. first + (s - first + 1) - 1 = s
      BY <1>2, <3>1
    <3>4. /\ backing'[s] = [tweak |-> s, plain |-> data[s - first + 1]]
          /\ written'[s] = data[s - first + 1]
      BY <1>3, <2>1, <3>3 DEF Encrypt
    <3> QED BY <3>1, <3>2, <3>4 DEF SectorOK, Ciphertext
  <2>2. CASE ~Touched(s)
    <3>1. backing'[s] = backing[s] /\ written'[s] = written[s]
      BY <1>3, <2>2
    <3> QED BY <3>1 DEF IOInv, IOTypeOK, SectorOK
  <2> QED BY <2>1, <2>2
<1>5. backing' \in [Sector -> Ciphertext] /\ written' \in [Sector -> Value \cup {Garbage}]
  <2>1. DOMAIN backing' = Sector /\ DOMAIN written' = Sector
    BY <1>3
  <2>2. backing' = [s \in Sector |-> backing'[s]] /\ written' = [s \in Sector |-> written'[s]]
    BY <1>3
  <2> QED BY <1>4, <2>2
<1> QED BY <1>3, <1>4, <1>5 DEF IOInv, IOTypeOK

\* What the sectors hold is what a read returns.
LEMMA ReadOK ==
  ASSUME Lit, IOInv
  PROVE  RoundTrip
<1> SUFFICES ASSUME NEW caller \in Proc, NEW first \in 0..Sectors, NEW n \in 1..MaxIO,
                    NEW aligned \in BOOLEAN, Read(caller, first, n, aligned) # << >>
             PROVE  /\ \A i \in 1..n : Read(caller, first, n, aligned)[i] = written[first + i - 1]
                    /\ caller \in supervised /\ cipher /\ key /\ ~marker
  BY DEF RoundTrip
<1>1. IOResult(caller, first, n, aligned) = "Ok"
  BY DEF Read
<1>2. caller \in supervised /\ cipher /\ first + n <= Sectors
  BY <1>1, VolumeIOAssumption DEF IOResult, Authorize
<1>3. ASSUME NEW i \in 1..n
      PROVE  Read(caller, first, n, aligned)[i] = written[first + i - 1]
  <2>1. PICK s : s = first + i - 1
    OBVIOUS
  <2>2. s \in Sector /\ s # Sectors
    BY <1>2, <2>1, VolumeIOAssumption DEF Sector
  <2>3. Read(caller, first, n, aligned)[i] = Decrypt(s, backing[s])
    BY <1>1, <2>1 DEF Read
  <2>4. Decrypt(s, backing[s]) = written[s]
    <3>1. CASE backing[s] = Zeroed /\ written[s] = Garbage
      BY <2>2, <3>1 DEF Decrypt, Zeroed
    <3>2. CASE backing[s] = [tweak |-> s, plain |-> written[s]]
      BY <3>2 DEF Decrypt
    <3> QED BY <2>2, <3>1, <3>2 DEF IOInv, SectorOK
  <2> QED BY <2>1, <2>3, <2>4
<1> QED BY <1>2, <1>3 DEF Lit

\* What travels on a connection.
Message ==
  Request \cup [type : {"Hello", "Welcome"}, proto : {PROTO_VERSION, OldVersion}]
    \cup [type : {"Data", "Oversized", "LaunchFailed", "LaunchSpec", "Launched"}]

Symbol == {"length", "too long"} \cup Message

UiAsking == [at : {"connect", "write", "read"}, req : Request, msg : Message, buf : Seq(Symbol)]

UiState == {NoUi} \cup UiAsking

Reading(t) == t.at \in {"queued", "hello", "serve"}

TaskOK(t) ==
  /\ t.at \in {"none", "queued", "hello", "serve", "reply", "dirs", "join"}
  /\ Reading(t) => t.buf \in Seq(Symbol) /\ t = Serving(t.at, t.buf)
  /\ t.at = "queued" => t.buf = << >>
  /\ t.at = "dirs" => t = Working("dirs", t.req, t.todo)
  /\ t.at = "join" => t.req \in Proc
  /\ t.at = "reply" => t.msg \in Message

\* The symbols sent in each direction and not yet used.
Sent(t, upward) == Len(upward) + (IF Reading(t) THEN Len(t.buf) ELSE 0)
Arrived(u, downward) == Len(downward) + (IF u.at # "idle" THEN Len(u.buf) ELSE 0)

\* Client and task alternate: one frame is on its way at a time, towards the side
\* that waits for it.
Turns(u, t, sent, arrived) ==
  /\ sent <= 2 /\ arrived <= 2
  /\ u.at = "connect" => t.at = "none" /\ sent = 0 /\ arrived = 0
  /\ u.at = "write" => arrived = 0 /\ (t.at # "none" => Reading(t) /\ sent = 0)
  /\ u.at = "read" /\ t.at # "none" =>
       \/ Reading(t) /\ sent = 2 /\ arrived = 0
       \/ t.at = "serve" /\ sent = 0 /\ arrived = 2
       \/ ~Reading(t) /\ sent = 0 /\ arrived = 0

ConnOK(u, t, upward, downward) ==
  /\ u \in UiState /\ TaskOK(t)
  /\ upward \in Seq(Symbol) /\ downward \in Seq(Symbol)
  /\ Turns(u, t, Sent(t, upward), Arrived(u, downward))

\* A launch that writes its directories still has the disk under it, unless the
\* disk was taken away; and so has any launch that would begin now.  A mount point
\* is in the memory of the daemon.
HomeUnder ==
  /\ pc = "down" => ~mount_point
  /\ mount_point /\ ~disturbed => attached # 0
  /\ \A c \in Conns : task[c].at = "dirs" /\ ~disturbed => attached # 0

ConnsOK ==
  /\ DOMAIN ui = Conns /\ DOMAIN task = Conns /\ DOMAIN up = Conns /\ DOMAIN down = Conns
  /\ \A c \in Conns : ConnOK(ui[c], task[c], up[c], down[c])

IpcInv ==
  /\ ConnsOK /\ HomeUnder
  /\ server \in {"unbound", "listening", "stopped"}
  /\ disturbed \in BOOLEAN /\ spilled = FALSE /\ commands \in 0..MaxCommands

\* Arithmetic on lengths, and reading, which takes a prefix of what is there and leaves the rest.
LEMMA Taken ==
  \A q \in Seq(Symbol), b \in Seq(Symbol) : \A n \in 1..Len(q) :
    /\ b \o SubSeq(q, 1, n) \in Seq(Symbol) /\ SubSeq(q, n + 1, Len(q)) \in Seq(Symbol)
    /\ Len(b \o SubSeq(q, 1, n)) = Len(b) + n
    /\ Len(SubSeq(q, n + 1, Len(q))) = Len(q) - n
<1> TAKE q \in Seq(Symbol), b \in Seq(Symbol)
<1> TAKE n \in 1..Len(q)
<1>1. SubSeq(q, 1, n) \in Seq(Symbol) /\ Len(SubSeq(q, 1, n)) = n
  OBVIOUS
<1>2. SubSeq(q, n + 1, Len(q)) \in Seq(Symbol) /\ Len(SubSeq(q, n + 1, Len(q))) = Len(q) - n
  OBVIOUS
<1> QED BY <1>1, <1>2

LEMMA Pairs ==
  ASSUME NEW S
  PROVE  \A a \in S, b \in S : \A f : f = <<a, b>> =>
           /\ f \in Seq(S) /\ Len(f) = 2
           /\ SubSeq(f, 1, 1) \in Seq(S) /\ Len(SubSeq(f, 1, 1)) = 1
<1> SUFFICES ASSUME NEW a \in S, NEW b \in S, NEW f, f = <<a, b>>
             PROVE  /\ f \in Seq(S) /\ Len(f) = 2
                    /\ SubSeq(f, 1, 1) \in Seq(S) /\ Len(SubSeq(f, 1, 1)) = 1
  OBVIOUS
<1>1. f \in Seq(S) /\ Len(f) = 2
  OBVIOUS
<1>2. \A q \in Seq(S) : Len(q) = 2 => SubSeq(q, 1, 1) \in Seq(S) /\ Len(SubSeq(q, 1, 1)) = 1
  OBVIOUS
<1> QED BY <1>1, <1>2

LEMMA Appended ==
  ASSUME NEW S, NEW q \in Seq(S), NEW f \in Seq(S)
  PROVE  q \o f \in Seq(S) /\ Len(q \o f) = Len(q) + Len(f)
OBVIOUS

\* A frame is two symbols.
LEMMA Framed ==
  ASSUME NEW msg \in Message, NEW q \in Seq(Symbol)
  PROVE  /\ q \o Frame(msg) \in Seq(Symbol) /\ Len(q \o Frame(msg)) = Len(q) + 2
         /\ q \o SubSeq(Frame(msg), 1, 1) \in Seq(Symbol)
         /\ Len(q \o SubSeq(Frame(msg), 1, 1)) = Len(q) + 1
<1>1. PICK head \in {"length", "too long"} : Frame(msg) = <<head, msg>>
  BY DEF Frame
<1>2. head \in Symbol /\ msg \in Symbol
  BY DEF Symbol
<1>a. \A a \in Symbol, b \in Symbol : \A f : f = <<a, b>> =>
        /\ f \in Seq(Symbol) /\ Len(f) = 2
        /\ SubSeq(f, 1, 1) \in Seq(Symbol) /\ Len(SubSeq(f, 1, 1)) = 1
  BY Pairs, Zenon
<1>3. /\ Frame(msg) \in Seq(Symbol) /\ Len(Frame(msg)) = 2
      /\ SubSeq(Frame(msg), 1, 1) \in Seq(Symbol) /\ Len(SubSeq(Frame(msg), 1, 1)) = 1
  BY ONLY <1>1, <1>2, <1>a
<1>4. \A a \in Seq(Symbol) : q \o a \in Seq(Symbol) /\ Len(q \o a) = Len(q) + Len(a)
  BY Appended, Zenon
<1> QED BY <1>3, <1>4

LEMMA UiFields ==
  \A u \in UiState : u.at # "idle" =>
    /\ u \in UiAsking
    /\ u.at \in {"connect", "write", "read"} /\ u.req \in Request /\ u.msg \in Message
    /\ u.buf \in Seq(Symbol) /\ Len(u.buf) \in Nat
BY DEF UiState, NoUi, UiAsking

LEMMA ZeroSum == \A i, j \in Nat : i + j = 0 => i = 0 /\ j = 0
OBVIOUS

LEMMA MovedSum == \A i, j, n \in Int : (i - n) + (j + n) = i + j
OBVIOUS

\* What is under way on a connection, as numbers.
LEMMA Counts ==
  ASSUME NEW u \in UiState, NEW t, TaskOK(t), NEW upward \in Seq(Symbol), NEW downward \in Seq(Symbol)
  PROVE  /\ Sent(t, upward) \in Nat /\ Arrived(u, downward) \in Nat
         /\ Len(upward) \in Nat /\ Len(downward) \in Nat
         /\ Reading(t) => t.buf \in Seq(Symbol) /\ Len(t.buf) \in Nat
                          /\ Sent(t, upward) = Len(upward) + Len(t.buf)
         /\ ~Reading(t) => Sent(t, upward) = Len(upward)
         /\ u.at = "idle" => Arrived(u, downward) = Len(downward)
         /\ u.at # "idle" => Arrived(u, downward) = Len(downward) + Len(u.buf)
         /\ Len(upward) <= Sent(t, upward) /\ Len(downward) <= Arrived(u, downward)
<1>1. Reading(t) => t.buf \in Seq(Symbol) /\ Len(t.buf) \in Nat
  BY DEF TaskOK
<1>2. u.at # "idle" => Len(u.buf) \in Nat
  BY UiFields
<1>3. Len(upward) \in Nat /\ Len(downward) \in Nat
  OBVIOUS
<1> QED BY <1>1, <1>2, <1>3 DEF Sent, Arrived

\* Every other connection is left alone.
Others(c) ==
  /\ DOMAIN ui' = Conns /\ DOMAIN task' = Conns /\ DOMAIN up' = Conns /\ DOMAIN down' = Conns
  /\ \A d \in Conns \ {c} :
       ui'[d] = ui[d] /\ task'[d] = task[d] /\ up'[d] = up[d] /\ down'[d] = down[d]

LEMMA OthersOK ==
  ASSUME ConnsOK, NEW c \in Conns, Others(c), ConnOK(ui'[c], task'[c], up'[c], down'[c])
  PROVE  ConnsOK'
<1>1. ASSUME NEW d \in Conns PROVE ConnOK(ui'[d], task'[d], up'[d], down'[d])
  <2>1. CASE d = c
    BY <2>1
  <2>2. CASE d # c
    <3>1. ui'[d] = ui[d] /\ task'[d] = task[d] /\ up'[d] = up[d] /\ down'[d] = down[d]
      BY <2>2 DEF Others
    <3>2. ConnOK(ui[d], task[d], up[d], down[d])
      BY DEF ConnsOK
    <3> QED BY <3>1, <3>2
  <2> QED BY <2>1, <2>2
<1> QED BY <1>1 DEF ConnsOK, Others

\* The steps of the launcher keep the turns of a connection.
LEMMA ClientTurns ==
  ASSUME ConnsOK, NEW c \in Conns,
         Invoke(c) \/ AuditCommand(c) \/ ClientStep(c) \/ LauncherQuits(c)
  PROVE  ConnsOK'
<1>a. /\ ui[c] \in UiState /\ TaskOK(task[c]) /\ up[c] \in Seq(Symbol) /\ down[c] \in Seq(Symbol)
      /\ Turns(ui[c], task[c], Sent(task[c], up[c]), Arrived(ui[c], down[c]))
  BY DEF ConnsOK, ConnOK
<1>b. << >> \in Seq(Symbol) /\ Len(<< >>) = 0
  OBVIOUS
<1>c. ui[c].at # "idle" =>
        /\ ui[c] \in UiAsking /\ ui[c].buf \in Seq(Symbol) /\ Len(ui[c].buf) \in Nat
        /\ ui[c].at \in {"connect", "write", "read"} /\ ui[c].msg \in Message /\ ui[c].req \in Request
  BY <1>a, UiFields
<1>d. PICK sent \in Nat, arrived \in Nat :
        sent = Sent(task[c], up[c]) /\ arrived = Arrived(ui[c], down[c])
  BY <1>a, Counts
<1>e. /\ Len(up[c]) \in Nat /\ Len(down[c]) \in Nat /\ Len(up[c]) <= sent /\ Len(down[c]) <= arrived
      /\ ui[c].at # "idle" => arrived = Len(down[c]) + Len(ui[c].buf)
      /\ Reading(task[c]) => Len(task[c].buf) \in Nat /\ sent = Len(up[c]) + Len(task[c].buf)
      /\ ~Reading(task[c]) => sent = Len(up[c])
  BY <1>a, <1>d, Counts
<1>f. Turns(ui[c], task[c], sent, arrived) /\ sent <= 2 /\ arrived <= 2
  BY <1>a, <1>d DEF Turns, Reading
<1>1. CASE Invoke(c) \/ AuditCommand(c)
  <2>1. PICK req \in Request, proto \in {PROTO_VERSION, OldVersion} : Begin(c, req, proto)
    BY <1>1 DEF Invoke, AuditCommand, Request
  <2>2. /\ task[c].at = "none" /\ ui'[c] = Asking("connect", req, Hello(proto), << >>)
        /\ task' = task /\ up'[c] = << >> /\ down'[c] = << >> /\ Others(c)
    BY <2>1 DEF Begin, Ui, Up, Down, Others, ConnsOK
  <2>3. Hello(proto) \in Message
    BY DEF Hello, Message
  <2>4. ui'[c] \in UiState /\ ui'[c].at = "connect" /\ ui'[c].buf = << >>
    BY <1>b, <2>2, <2>3 DEF UiState, UiAsking, Asking
  <2>5. Sent(task'[c], up'[c]) = 0 /\ Arrived(ui'[c], down'[c]) = 0
    BY <1>b, <2>2, <2>4 DEF Sent, Arrived, Reading
  <2>6. ConnOK(ui'[c], task'[c], up'[c], down'[c])
    BY <1>a, <1>b, <2>2, <2>4, <2>5 DEF ConnOK, Turns, Reading
  <2> QED BY <2>2, <2>6, OthersOK
<1>2. ASSUME ui'[c] = NoUi, Others(c), task' = task, down' = down, up'[c] \in Seq(Symbol),
             Sent(task[c], up'[c]) <= 2
      PROVE  ConnsOK'
  <2>1. ui'[c] \in UiState /\ ui'[c].at = "idle"
    BY <1>2 DEF UiState, NoUi
  <2>2. Arrived(ui'[c], down'[c]) <= 2
    BY <1>a, <1>e, <1>f, <1>2, <2>1 DEF Arrived, Reading
  <2>3. Turns(ui'[c], task'[c], Sent(task'[c], up'[c]), Arrived(ui'[c], down'[c]))
    BY <1>2, <2>1, <2>2 DEF Turns, Reading
  <2>4. ConnOK(ui'[c], task'[c], up'[c], down'[c])
    BY <1>a, <1>2, <2>1, <2>3 DEF ConnOK
  <2> QED BY <1>2, <2>4, OthersOK
<1>3. Sent(task[c], up[c]) <= 2
  BY <1>d, <1>f
<1>4. CASE Connect(c)
  <2>1. CASE ui'[c] = NoUi /\ task' = task
    <3>1. Others(c) /\ down' = down /\ up' = up
      BY <1>4, <2>1 DEF Connect, Ui, End, Others, ConnsOK, Task
    <3> QED BY <1>a, <1>2, <1>3, <2>1, <3>1
  <2>2. CASE ~(ui'[c] = NoUi /\ task' = task)
    <3>1. /\ ui[c].at = "connect" /\ ui'[c] = [ui[c] EXCEPT !.at = "write"]
          /\ task'[c] = Serving("queued", << >>) /\ down' = down /\ up' = up /\ Others(c)
      BY <1>4, <2>2 DEF Connect, Ui, Task, End, Others, ConnsOK
    <3>2. ui'[c] \in UiState /\ ui'[c].at = "write" /\ ui'[c].buf = ui[c].buf
      BY <1>c, <3>1 DEF UiState, UiAsking
    <3>3. TaskOK(task'[c]) /\ task'[c].at = "queued" /\ task'[c].buf = << >>
      BY <1>b, <3>1 DEF TaskOK, Serving, Reading
    <3>4. sent = 0 /\ arrived = 0 /\ Len(up[c]) = 0
      BY <1>e, <1>f, <3>1 DEF Turns, Reading
    <3>5. Sent(task'[c], up'[c]) = 0
      BY <1>a, <1>b, <3>1, <3>3, <3>4 DEF Sent, Reading
    <3>6. Arrived(ui'[c], down'[c]) = 0
      BY <1>e, <3>1, <3>2, <3>4 DEF Arrived, Reading
    <3>7. ConnOK(ui'[c], task'[c], up'[c], down'[c])
      BY <1>a, <3>1, <3>2, <3>3, <3>5, <3>6 DEF ConnOK, Turns, Reading
    <3> QED BY <3>1, <3>7, OthersOK
  <2> QED BY <2>1, <2>2
<1>5. CASE ClientWrite(c)
  <2>1. CASE task[c].at = "none"
    <3>1. ui'[c] = NoUi /\ task' = task /\ Others(c) /\ down' = down /\ up' = up
      BY <1>5, <2>1 DEF ClientWrite, Ui, End, Others, ConnsOK
    <3> QED BY <1>a, <1>2, <1>3, <3>1
  <2>2. CASE task[c].at # "none"
    <3>1. /\ ui[c].at = "write" /\ ui'[c] = [ui[c] EXCEPT !.at = "read"]
          /\ up'[c] = up[c] \o Frame(ui[c].msg) /\ down' = down /\ task' = task /\ Others(c)
      BY <1>5, <2>2 DEF ClientWrite, Ui, Up, Others, ConnsOK
    <3>2. ui'[c] \in UiState /\ ui'[c].at = "read" /\ ui'[c].buf = ui[c].buf
      BY <1>c, <3>1 DEF UiState, UiAsking
    <3>3. up'[c] \in Seq(Symbol) /\ Len(up'[c]) = Len(up[c]) + 2
      <4>1. ui[c].msg \in Message
        BY <1>c, <3>1
      <4>2. up[c] \o Frame(ui[c].msg) \in Seq(Symbol) /\ Len(up[c] \o Frame(ui[c].msg)) = Len(up[c]) + 2
        BY ONLY <1>a, <4>1, Framed, Zenon
      <4> QED BY <3>1, <4>2
    <3>4. Reading(task[c]) /\ sent = 0 /\ arrived = 0
      BY <1>f, <2>2, <3>1 DEF Turns, Reading
    <3>5. Sent(task'[c], up'[c]) = 2
      <4>1. Sent(task'[c], up'[c]) = Len(up'[c]) + Len(task[c].buf)
        BY <3>1, <3>4 DEF Sent
      <4>2. Len(up[c]) = 0 /\ Len(task[c].buf) = 0
        BY <1>e, <3>4, ZeroSum
      <4> QED BY <3>3, <4>1, <4>2
    <3>6. Arrived(ui'[c], down'[c]) = 0
      BY <1>e, <3>1, <3>2, <3>4 DEF Arrived, Reading
    <3>7. ConnOK(ui'[c], task'[c], up'[c], down'[c])
      BY <1>a, <3>1, <3>2, <3>3, <3>4, <3>5, <3>6 DEF ConnOK, Turns, Reading
    <3> QED BY <3>1, <3>7, OthersOK
  <2> QED BY <2>1, <2>2
<1>6. CASE ClientRead(c)
  <2>1. CASE ui'[c] = NoUi /\ down' = down
    <3>1. task' = task /\ Others(c) /\ up' = up
      BY <1>6, <2>1 DEF ClientRead, Ui, End, Others, ConnsOK, Down
    <3> QED BY <1>a, <1>2, <1>3, <2>1, <3>1
  <2>2. CASE ~(ui'[c] = NoUi /\ down' = down)
    <3>1. ui[c].at = "read" /\ task' = task /\ up' = up
      BY <1>6 DEF ClientRead
    <3>2. PICK n \in 1..Len(down[c]) :
            /\ Ui(c, [ui[c] EXCEPT !.buf = ui[c].buf \o SubSeq(down[c], 1, n)])
            /\ Down(c, SubSeq(down[c], n + 1, Len(down[c])))
      BY <1>6, <2>2 DEF ClientRead, Ui, End, ConnsOK
    <3>3. PICK b : b = ui[c].buf \o SubSeq(down[c], 1, n)
      OBVIOUS
    <3>4. PICK rest : rest = SubSeq(down[c], n + 1, Len(down[c]))
      OBVIOUS
    <3>5. ui'[c] = [ui[c] EXCEPT !.buf = b] /\ down'[c] = rest /\ Others(c)
      BY <3>1, <3>2, <3>3, <3>4 DEF Ui, Down, Others, ConnsOK
    <3>6. /\ b \in Seq(Symbol) /\ Len(b) = Len(ui[c].buf) + n
          /\ rest \in Seq(Symbol) /\ Len(rest) = Len(down[c]) - n
      <4>1. ui[c].buf \in Seq(Symbol)
        BY <1>c, <3>1
      <4> QED BY ONLY <1>a, <3>3, <3>4, <4>1, Taken
    <3>7. ui'[c] \in UiState /\ ui'[c].at = "read" /\ ui'[c].buf = b
      BY <1>c, <3>1, <3>5, <3>6 DEF UiState, UiAsking
    <3>8. Arrived(ui'[c], down'[c]) = arrived
      <4>1. Arrived(ui'[c], down'[c]) = Len(rest) + Len(b)
        BY <3>5, <3>7 DEF Arrived
      <4>2. arrived = Len(down[c]) + Len(ui[c].buf) /\ Len(ui[c].buf) \in Nat
        BY <1>c, <1>e, <3>1
      <4>3. (Len(down[c]) - n) + (Len(ui[c].buf) + n) = Len(down[c]) + Len(ui[c].buf)
        <5>1. n \in Int /\ Len(down[c]) \in Int /\ Len(ui[c].buf) \in Int
          BY <1>e, <4>2
        <5> QED BY ONLY <5>1, MovedSum
      <4> QED BY ONLY <3>6, <4>1, <4>2, <4>3
    <3>9. Turns(ui'[c], task'[c], sent, arrived)
      BY <1>f, <3>1, <3>7 DEF Turns, Reading
    <3>10. ConnOK(ui'[c], task'[c], up'[c], down'[c])
      BY <1>a, <1>d, <3>1, <3>5, <3>6, <3>7, <3>8, <3>9 DEF ConnOK
    <3> QED BY <3>5, <3>10, OthersOK
  <2> QED BY <2>1, <2>2
<1>7. CASE ClientReceive(c)
  <2>0. task' = task /\ up' = up /\ down' = down /\ Others(c) /\ ui[c].at = "read"
    BY <1>7 DEF ClientReceive, Ui, End, Others, ConnsOK
  <2>1. CASE ui'[c] = NoUi
    BY <1>a, <1>2, <1>3, <2>0, <2>1
  <2>2. CASE ui'[c] # NoUi
    <3>1. ui'[c] = Asking("write", ui[c].req, ui[c].req, << >>) /\ Len(ui[c].buf) = 2
      BY <1>7, <2>2 DEF ClientReceive, Ui, End, ConnsOK, Decodable
    <3>2. ui[c].req \in Message
      BY <1>c, <2>0 DEF Message
    <3>3. ui'[c] \in UiState /\ ui'[c].at = "write" /\ ui'[c].buf = << >>
      BY <1>b, <1>c, <2>0, <3>1, <3>2 DEF UiState, UiAsking, Asking
    <3>4. arrived = 2 /\ Len(down[c]) = 0
      BY <1>e, <1>f, <2>0, <3>1
    <3>5. task[c].at # "none" => Reading(task[c]) /\ sent = 0
      BY <1>f, <2>0, <3>4 DEF Turns, Reading
    <3>6. Arrived(ui'[c], down'[c]) = 0
      BY <1>b, <2>0, <3>3, <3>4 DEF Arrived, Reading
    <3>7. Turns(ui'[c], task'[c], sent, 0)
      BY <1>f, <2>0, <3>3, <3>5 DEF Turns, Reading
    <3>8. ConnOK(ui'[c], task'[c], up'[c], down'[c])
      BY <1>a, <1>d, <2>0, <3>3, <3>6, <3>7 DEF ConnOK
    <3> QED BY <2>0, <3>8, OthersOK
  <2> QED BY <2>1, <2>2
<1>8. CASE LauncherQuits(c)
  <2>0. task' = task /\ down' = down /\ ui'[c] = NoUi /\ Others(c)
    BY <1>8 DEF LauncherQuits, Ui, Up, End, Others, ConnsOK
  <2>1. CASE up' = up
    BY <1>a, <1>2, <1>3, <2>0, <2>1
  <2>2. CASE up' # up
    <3>1. /\ ui[c].at = "write" /\ task[c].at # "none"
          /\ up'[c] = up[c] \o SubSeq(Frame(ui[c].msg), 1, 1)
      BY <1>8, <2>2 DEF LauncherQuits, Up, ConnsOK
    <3>2. up'[c] \in Seq(Symbol) /\ Len(up'[c]) = Len(up[c]) + 1
      BY <1>a, <1>c, <3>1, Framed
    <3>3. Reading(task[c]) /\ sent = 0
      BY <1>f, <3>1 DEF Turns, Reading
    <3>4. Sent(task[c], up'[c]) <= 2
      <4>1. Sent(task[c], up'[c]) = Len(up'[c]) + Len(task[c].buf)
        BY <3>3 DEF Sent
      <4>2. Len(up[c]) = 0 /\ Len(task[c].buf) = 0
        BY <1>e, <3>3, ZeroSum
      <4> QED BY <3>2, <4>1, <4>2
    <3> QED BY <1>2, <2>0, <3>2, <3>4
  <2> QED BY <2>1, <2>2
<1> QED BY <1>1, <1>4, <1>5, <1>6, <1>7, <1>8 DEF ClientStep

\* A task that has ended leaves the turns as they are.
LEMMA EndedOK ==
  ASSUME NEW u, NEW t, NEW upward, NEW downward, ConnOK(u, t, upward, downward)
  PROVE  ConnOK(u, NoTask, upward, downward)
<1>1. TaskOK(NoTask) /\ NoTask.at = "none" /\ ~Reading(NoTask)
  BY DEF TaskOK, NoTask, Reading
<1>2. Sent(NoTask, upward) = Len(upward) /\ Len(upward) <= Sent(t, upward) /\ Len(upward) \in Nat
  BY <1>1, Counts DEF ConnOK
<1>3. Sent(t, upward) \in Nat /\ Sent(t, upward) <= 2
  BY Counts DEF ConnOK, Turns
<1>4. Sent(NoTask, upward) <= 2
  BY <1>2, <1>3
<1>5. u.at = "connect" => Len(upward) = 0
  BY <1>2, <1>3 DEF ConnOK, Turns
<1>6. Turns(u, NoTask, Sent(NoTask, upward), Arrived(u, downward))
  BY <1>1, <1>2, <1>4, <1>5 DEF ConnOK, Turns
<1> QED BY <1>1, <1>6 DEF ConnOK

\* The steps of serve_launcher keep the turns of its connection.
LEMMA TaskTurns ==
  ASSUME ConnsOK, NEW c \in Conns, TaskStep(c)
  PROVE  ConnsOK'
<1>0. ConnOK(ui[c], task[c], up[c], down[c])
  BY DEF ConnsOK
<1>a. /\ ui[c] \in UiState /\ TaskOK(task[c]) /\ up[c] \in Seq(Symbol) /\ down[c] \in Seq(Symbol)
      /\ Turns(ui[c], task[c], Sent(task[c], up[c]), Arrived(ui[c], down[c]))
  BY <1>0 DEF ConnOK
<1>b. << >> \in Seq(Symbol) /\ Len(<< >>) = 0
  OBVIOUS
<1>d. PICK sent \in Nat, arrived \in Nat :
        sent = Sent(task[c], up[c]) /\ arrived = Arrived(ui[c], down[c])
  BY <1>a, Counts
<1>e. /\ Len(up[c]) \in Nat /\ Len(down[c]) \in Nat /\ Len(up[c]) <= sent /\ Len(down[c]) <= arrived
      /\ ui[c].at # "idle" => arrived = Len(down[c]) + Len(ui[c].buf)
      /\ Reading(task[c]) => /\ task[c].buf \in Seq(Symbol) /\ Len(task[c].buf) \in Nat
                             /\ sent = Len(up[c]) + Len(task[c].buf)
      /\ ~Reading(task[c]) => sent = Len(up[c])
  BY <1>a, <1>d, Counts
<1>f. Turns(ui[c], task[c], sent, arrived) /\ sent <= 2 /\ arrived <= 2
  BY <1>a, <1>d DEF Turns
<1>1. ASSUME task'[c] = NoTask, ui' = ui, up' = up, down' = down, Others(c)
      PROVE  ConnsOK'
  BY <1>0, <1>1, EndedOK, OthersOK
<1>2. ASSUME Reading(task[c]), Len(task[c].buf) = 2, TaskOK(task'[c]), ~Reading(task'[c]),
             ui' = ui, up' = up, down' = down, Others(c)
      PROVE  ConnsOK'
  <2>1. Len(up[c]) = 0 /\ sent = 2
    BY <1>e, <1>f, <1>2
  <2>2. Sent(task'[c], up'[c]) = 0 /\ Arrived(ui'[c], down'[c]) = arrived
    BY <1>d, <1>2, <2>1 DEF Sent
  <2>3. task[c].at # "none"
    BY <1>2 DEF Reading
  <2>4. Turns(ui'[c], task'[c], 0, arrived)
    BY <1>f, <1>2, <2>1, <2>3 DEF Turns
  <2>5. ConnOK(ui'[c], task'[c], up'[c], down'[c])
    BY <1>a, <1>2, <2>2, <2>4 DEF ConnOK
  <2> QED BY <1>2, <2>5, OthersOK
<1>3. ASSUME ~Reading(task[c]), task[c].at # "none", TaskOK(task'[c]), ~Reading(task'[c]),
             ui' = ui, up' = up, down' = down, Others(c)
      PROVE  ConnsOK'
  <2>1. Sent(task'[c], up'[c]) = sent /\ Arrived(ui'[c], down'[c]) = arrived
    BY <1>d, <1>e, <1>3 DEF Sent
  <2>2. Turns(ui'[c], task'[c], sent, arrived)
    BY <1>f, <1>3 DEF Turns, Reading
  <2>3. ConnOK(ui'[c], task'[c], up'[c], down'[c])
    BY <1>a, <1>3, <2>1, <2>2 DEF ConnOK
  <2> QED BY <1>3, <2>3, OthersOK
<1>g. ASSUME NEW kind \in {"Data", "Oversized", "LaunchFailed", "LaunchSpec", "Launched"}
      PROVE  TaskOK(Replying(Answer(kind))) /\ ~Reading(Replying(Answer(kind)))
  <2>1. Answer(kind) \in Message
    BY DEF Answer, Message
  <2> QED BY <2>1 DEF TaskOK, Replying, Reading
<1>h. ASSUME NEW req, NEW todo
      PROVE  TaskOK(Working("dirs", req, todo)) /\ ~Reading(Working("dirs", req, todo))
  BY DEF TaskOK, Working, Reading
<1>4. CASE Accept(c)
  <2>1. /\ task[c].at = "queued" /\ task'[c] = Serving("hello", << >>)
        /\ ui' = ui /\ up' = up /\ down' = down /\ Others(c)
    BY <1>4 DEF Accept, Task, ServerAlone, Others, ConnsOK
  <2>2. TaskOK(task'[c]) /\ task'[c].at = "hello" /\ task'[c].buf = << >> /\ Reading(task'[c])
    BY <1>b, <2>1 DEF TaskOK, Serving, Reading
  <2>3. task[c].buf = << >> /\ Reading(task[c])
    BY <1>a, <2>1 DEF TaskOK, Reading
  <2>4. Sent(task'[c], up'[c]) = sent
    BY <1>d, <2>1, <2>2, <2>3 DEF Sent
  <2>5. Turns(ui'[c], task'[c], sent, arrived)
    BY <1>f, <2>1, <2>2, <2>3 DEF Turns
  <2>6. ConnOK(ui'[c], task'[c], up'[c], down'[c])
    BY <1>a, <1>d, <2>1, <2>2, <2>4, <2>5 DEF ConnOK
  <2> QED BY <2>1, <2>6, OthersOK
<1>5. CASE ServerRead(c)
  <2>0. task[c].at \in {"hello", "serve"} /\ Reading(task[c]) /\ ui' = ui /\ down' = down
    BY <1>5 DEF ServerRead, ServerAlone, Reading
  <2>1. CASE task'[c] = NoTask /\ up' = up
    <3>1. Others(c)
      BY <1>5, <2>0, <2>1 DEF ServerRead, Task, Others, ConnsOK, Up
    <3> QED BY <1>1, <2>0, <2>1, <3>1
  <2>2. CASE ~(task'[c] = NoTask /\ up' = up)
    <3>1. PICK n \in 1..Len(up[c]) :
            /\ Task(c, [task[c] EXCEPT !.buf = task[c].buf \o SubSeq(up[c], 1, n)])
            /\ Up(c, SubSeq(up[c], n + 1, Len(up[c])))
      BY <1>5, <2>2 DEF ServerRead, Task, ConnsOK
    <3>2. PICK b : b = task[c].buf \o SubSeq(up[c], 1, n)
      OBVIOUS
    <3>3. PICK rest : rest = SubSeq(up[c], n + 1, Len(up[c]))
      OBVIOUS
    <3>4. task'[c] = [task[c] EXCEPT !.buf = b] /\ up'[c] = rest /\ Others(c)
      BY <2>0, <3>1, <3>2, <3>3 DEF Task, Up, Others, ConnsOK
    <3>5. /\ b \in Seq(Symbol) /\ Len(b) = Len(task[c].buf) + n
          /\ rest \in Seq(Symbol) /\ Len(rest) = Len(up[c]) - n
      BY <1>a, <1>e, <2>0, <3>2, <3>3, Taken
    <3>6. task'[c] = Serving(task[c].at, b)
      <4>1. task[c] = Serving(task[c].at, task[c].buf)
        BY <1>a, <2>0 DEF TaskOK
      <4> QED BY <3>4, <4>1 DEF Serving
    <3>7. TaskOK(task'[c]) /\ task'[c].at = task[c].at /\ task'[c].buf = b /\ Reading(task'[c])
      BY <2>0, <3>5, <3>6 DEF TaskOK, Serving, Reading
    <3>8. Sent(task'[c], up'[c]) = sent
      <4>1. Sent(task'[c], up'[c]) = Len(rest) + Len(b)
        BY <3>4, <3>7 DEF Sent
      <4>2. sent = Len(up[c]) + Len(task[c].buf) /\ Len(task[c].buf) \in Nat
        BY <1>e, <2>0
      <4>3. (Len(up[c]) - n) + (Len(task[c].buf) + n) = Len(up[c]) + Len(task[c].buf)
        <5>1. n \in Int /\ Len(up[c]) \in Int /\ Len(task[c].buf) \in Int
          BY <1>e, <4>2
        <5> QED BY ONLY <5>1, MovedSum
      <4> QED BY ONLY <3>5, <4>1, <4>2, <4>3
    <3>9. Turns(ui'[c], task'[c], sent, arrived)
      BY <1>f, <2>0, <3>7 DEF Turns
    <3>10. ConnOK(ui'[c], task'[c], up'[c], down'[c])
      BY <1>a, <1>d, <2>0, <3>4, <3>5, <3>7, <3>8, <3>9 DEF ConnOK
    <3> QED BY <3>4, <3>10, OthersOK
  <2> QED BY <2>1, <2>2
<1>6. CASE ServerHello(c)
  <2>0. /\ task[c].at = "hello" /\ Len(task[c].buf) = 2 /\ Reading(task[c])
        /\ ui' = ui /\ up' = up /\ down' = down /\ Others(c)
        /\ task'[c] \in {NoTask, Replying(Welcome(PROTO_VERSION))}
    BY <1>6 DEF ServerHello, Task, ServerAlone, Others, ConnsOK, Decodable, Reading
  <2>1. Welcome(PROTO_VERSION) \in Message
    BY DEF Welcome, Message
  <2>2. TaskOK(Replying(Welcome(PROTO_VERSION))) /\ ~Reading(Replying(Welcome(PROTO_VERSION)))
    BY <2>1 DEF TaskOK, Replying, Reading
  <2> QED BY <1>1, <1>2, <2>0, <2>2
<1>7. CASE HandleQuery(c)
  <2>0. /\ Len(task[c].buf) = 2 /\ Reading(task[c])
        /\ ui' = ui /\ up' = up /\ down' = down /\ Others(c)
        /\ task'[c] \in {NoTask, Replying(Answer("Data")), Replying(Answer("Oversized"))}
    BY <1>7 DEF HandleQuery, Requested, Task, ServerAlone, Others, ConnsOK, Decodable, Reading
  <2> QED BY <1>1, <1>2, <1>g, <2>0
<1>8. CASE PrepareLaunch(c) \/ PrepareWebLaunch(c)
  <2>0. /\ Len(task[c].buf) = 2 /\ Reading(task[c]) /\ ui' = ui /\ up' = up /\ down' = down
    BY <1>8 DEF PrepareLaunch, PrepareWebLaunch, Requested, ServerAlone, Decodable, Reading
  <2>1. \/ \E req, todo : Task(c, Working("dirs", req, todo))
        \/ \E kind \in {"LaunchSpec", "LaunchFailed"} : Task(c, Replying(Answer(kind)))
    BY <1>8 DEF PrepareLaunch, PrepareWebLaunch, Prepared
  <2>2. Others(c)
    BY <2>0, <2>1 DEF Task, Others, ConnsOK
  <2>3. CASE \E req, todo : Task(c, Working("dirs", req, todo))
    <3>1. PICK req, todo : task'[c] = Working("dirs", req, todo)
      BY <2>3 DEF Task, ConnsOK
    <3> QED BY <1>2, <1>h, <2>0, <2>2, <3>1
  <2>4. CASE \E kind \in {"LaunchSpec", "LaunchFailed"} : Task(c, Replying(Answer(kind)))
    <3>1. PICK kind \in {"LaunchSpec", "LaunchFailed"} : task'[c] = Replying(Answer(kind))
      BY <2>4 DEF Task, ConnsOK
    <3> QED BY <1>2, <1>g, <2>0, <2>2, <3>1
  <2> QED BY <2>1, <2>3, <2>4
<1>9. CASE MakeDir(c)
  <2>0. /\ task[c].at = "dirs" /\ ui' = ui /\ up' = up /\ down' = down /\ Others(c)
        /\ task'[c] = [task[c] EXCEPT !.todo = Tail(task[c].todo)]
    BY <1>9 DEF MakeDir, Task, ServerAlone, Others, ConnsOK
  <2>1. task'[c] = Working("dirs", task[c].req, Tail(task[c].todo))
    <3>1. task[c] = Working("dirs", task[c].req, task[c].todo)
      BY <1>a, <2>0 DEF TaskOK
    <3> QED BY <2>0, <3>1 DEF Working
  <2>2. TaskOK(task'[c]) /\ ~Reading(task'[c]) /\ ~Reading(task[c])
    BY <1>h, <2>0, <2>1 DEF Reading
  <2> QED BY <1>3, <2>0, <2>2
<1>10. CASE Spawn(c)
  <2>0. /\ task[c].at = "dirs" /\ ui' = ui /\ up' = up /\ down' = down /\ Others(c)
        /\ \/ \E pid \in Proc : task'[c] = Working("join", pid, << >>)
           \/ task'[c] = Replying(Answer("LaunchFailed"))
    BY <1>10 DEF Spawn, Task, ServerAlone, Others, ConnsOK
  <2>1. TaskOK(task'[c]) /\ ~Reading(task'[c])
    <3>1. CASE \E pid \in Proc : task'[c] = Working("join", pid, << >>)
      BY <3>1 DEF TaskOK, Working, Reading
    <3>2. CASE task'[c] = Replying(Answer("LaunchFailed"))
      BY <1>g, <3>2
    <3> QED BY <2>0, <3>1, <3>2
  <2>2. ~Reading(task[c])
    BY <2>0 DEF Reading
  <2> QED BY <1>3, <2>0, <2>1, <2>2
<1>11. CASE JoinZone(c)
  <2>0. /\ task[c].at = "join" /\ ui' = ui /\ up' = up /\ down' = down /\ Others(c)
        /\ task'[c] = Replying(Answer("Launched"))
    BY <1>11 DEF JoinZone, Task, ServerAlone, Others, ConnsOK
  <2>1. TaskOK(task'[c]) /\ ~Reading(task'[c]) /\ ~Reading(task[c])
    BY <1>g, <2>0 DEF Reading
  <2> QED BY <1>3, <2>0, <2>1
<1>12. CASE ServerReply(c)
  <2>0. task[c].at = "reply" /\ ui' = ui /\ up' = up
    BY <1>12 DEF ServerReply, ServerAlone
  <2>1. CASE task'[c] = NoTask /\ down' = down
    <3>1. Others(c)
      BY <1>12, <2>0, <2>1 DEF ServerReply, Task, Others, ConnsOK, Down
    <3> QED BY <1>1, <2>0, <2>1, <3>1
  <2>2. CASE ~(task'[c] = NoTask /\ down' = down)
    <3>1. /\ ui[c].at # "idle" /\ down'[c] = down[c] \o Frame(task[c].msg)
          /\ task'[c] = Serving("serve", << >>) /\ Others(c)
      BY <1>12, <2>0, <2>2 DEF ServerReply, Task, Down, Others, ConnsOK
    <3>2. TaskOK(task'[c]) /\ task'[c].at = "serve" /\ task'[c].buf = << >> /\ Reading(task'[c])
      BY <1>b, <3>1 DEF TaskOK, Serving, Reading
    <3>3. ui[c].at \in {"connect", "write", "read"} /\ ~Reading(task[c]) /\ task[c].msg \in Message
      BY <1>a, <2>0, <3>1, UiFields DEF TaskOK, Reading
    <3>4. ui[c].at = "read" /\ sent = 0 /\ arrived = 0
      BY <1>f, <2>0, <3>3 DEF Turns
    <3>5. down'[c] \in Seq(Symbol) /\ Len(down'[c]) = Len(down[c]) + 2
      <4>1. /\ down[c] \o Frame(task[c].msg) \in Seq(Symbol)
            /\ Len(down[c] \o Frame(task[c].msg)) = Len(down[c]) + 2
        BY ONLY <1>a, <3>3, Framed, Zenon
      <4> QED BY <3>1, <4>1
    <3>6. Sent(task'[c], up'[c]) = 0
      <4>1. Sent(task'[c], up'[c]) = Len(up[c]) + 0
        BY <1>b, <2>0, <3>2 DEF Sent
      <4> QED BY <1>e, <3>3, <3>4, <4>1
    <3>7. Arrived(ui'[c], down'[c]) = 2
      <4>1. Len(down[c]) = 0 /\ Len(ui[c].buf) = 0
        <5>1. Len(ui[c].buf) \in Nat
          BY <1>a, <3>1, UiFields
        <5> QED BY <1>e, <3>1, <3>4, <5>1, ZeroSum
      <4>2. Arrived(ui'[c], down'[c]) = Len(down'[c]) + Len(ui[c].buf)
        BY <2>0, <3>1 DEF Arrived
      <4> QED BY <3>5, <4>1, <4>2
    <3>8. Turns(ui'[c], task'[c], 0, 2)
      BY <2>0, <3>2, <3>4 DEF Turns
    <3>9. ConnOK(ui'[c], task'[c], up'[c], down'[c])
      BY <1>a, <2>0, <3>2, <3>5, <3>6, <3>7, <3>8 DEF ConnOK
    <3> QED BY <3>1, <3>9, OthersOK
  <2> QED BY <2>1, <2>2
<1> QED BY <1>4, <1>5, <1>6, <1>7, <1>8, <1>9, <1>10, <1>11, <1>12 DEF TaskStep

\* What a step of the disk does to the mount: it ends with the process, by an eject
\* or by the detach of a wipe, and is recorded only where a disk is attached.
LEMMA MountStep ==
  ASSUME DiskInv, pc = "down" => ~mount_point, Next
  PROVE  /\ pc' = "down" => ~mount_point'
         /\ attached # 0 /\ attached' = 0 => pc' = "down" \/ pc' = pc \/ ~mount_point'
         /\ mount_point' => mount_point \/ attached' # 0
<1>1. CASE MountBundle
  BY <1>1 DEF MountBundle, DiskInv, AttachHolds
<1>2. CASE FindDisk
  BY <1>2 DEF FindDisk, DiskInv, TypeOK
<1>3. CASE StartDaemon \/ MintPassphrase \/ CreateBundle \/ AttachFails \/ ProvisionVolume
  BY <1>3 DEF StartDaemon, MintPassphrase, CreateBundle, AttachFails, ProvisionVolume, diskVars
<1>4. CASE UnlockVolume \/ LockVolume \/ WipeVolume
  BY <1>4 DEF UnlockVolume, LockVolume, WipeVolume, Running, Wiping, diskVars
<1>5. CASE WipeStep
  BY <1>5 DEF WipeStep, DetachDisk, ShredPassphrase, UnlinkBundle, ReportWiped, diskVars
<1>6. CASE Crash \/ Reboot \/ Eject
  <2>1. CASE Crash \/ Reboot
    BY <2>1 DEF Crash, Reboot, Dies
  <2>2. CASE Eject
    BY <2>2 DEF Eject
  <2> QED BY <1>6, <2>1, <2>2
<1> QED BY <1>1, <1>2, <1>3, <1>4, <1>5, <1>6 DEF Next, Boot

\* Every step keeps the disk under the launches that write on it.
LEMMA HomeStep ==
  ASSUME DiskInv, IpcInv, LNext
  PROVE  HomeUnder' /\ spilled' = FALSE
<1>0. HomeUnder /\ spilled = FALSE /\ DOMAIN task = Conns
  BY DEF IpcInv, ConnsOK
<1>1. ASSUME UNCHANGED <<vars, disturbed>>, spilled' = spilled,
             \A d \in Conns : task'[d].at = "dirs" => task[d].at = "dirs" \/ mount_point
      PROVE  HomeUnder' /\ spilled' = FALSE
  BY <1>0, <1>1 DEF HomeUnder, vars, diskVars
<1>2. ASSUME NEW c \in Conns, Invoke(c) \/ AuditCommand(c) \/ ClientStep(c) \/ LauncherQuits(c)
      PROVE  HomeUnder' /\ spilled' = FALSE
  <2>1. UNCHANGED <<vars, disturbed>> /\ spilled' = spilled
    BY <1>2 DEF Invoke, AuditCommand, Begin, ClientStep, Connect, ClientWrite, ClientRead,
      ClientReceive, LauncherQuits, ClientAlone
  <2>2. task' = task \/ task' = [task EXCEPT ![c] = Serving("queued", << >>)]
    BY <1>2 DEF Invoke, AuditCommand, Begin, ClientStep, Connect, ClientWrite, ClientRead,
      ClientReceive, LauncherQuits, Task
  <2>3. \A d \in Conns : task'[d].at = "dirs" => task[d].at = "dirs"
    BY <1>0, <2>2 DEF Serving
  <2> QED BY <1>1, <2>1, <2>3
<1>3. ASSUME NEW c \in Conns, TaskStep(c) PROVE HomeUnder' /\ spilled' = FALSE
  <2>0. UNCHANGED <<vars, disturbed>>
    BY <1>3 DEF TaskStep, Accept, ServerRead, ServerHello, HandleQuery, PrepareLaunch,
      PrepareWebLaunch, MakeDir, Spawn, JoinZone, ServerReply, ServerAlone
  <2>1. ASSUME NEW t, task' = [task EXCEPT ![c] = t],
               t.at = "dirs" => task[c].at = "dirs" \/ mount_point, spilled' = spilled
        PROVE  HomeUnder' /\ spilled' = FALSE
    <3>1. \A d \in Conns : task'[d].at = "dirs" => task[d].at = "dirs" \/ mount_point
      BY <1>0, <2>1
    <3> QED BY <1>1, <2>0, <2>1, <3>1
  <2>2. CASE Accept(c)
    BY <2>1, <2>2 DEF Accept, Task, Serving
  <2>3. CASE ServerRead(c)
    <3>1. spilled' = spilled /\ task[c].at \in {"hello", "serve"}
      BY <2>3 DEF ServerRead
    <3>2. PICK t : /\ task' = [task EXCEPT ![c] = t]
                   /\ t = NoTask \/ \E b : t = [task[c] EXCEPT !.buf = b]
      BY <2>3 DEF ServerRead, Task
    <3>3. t.at # "dirs"
      <4>1. CASE t = NoTask
        BY <4>1 DEF NoTask
      <4>2. CASE \E b : t = [task[c] EXCEPT !.buf = b]
        <5>1. task[c] = Serving(task[c].at, task[c].buf)
          BY <3>1 DEF IpcInv, ConnsOK, ConnOK, TaskOK, Reading
        <5> QED BY <3>1, <4>2, <5>1 DEF Serving
      <4> QED BY <3>2, <4>1, <4>2
    <3> QED BY <2>1, <3>1, <3>2, <3>3
  <2>4. CASE ServerHello(c) \/ HandleQuery(c)
    <3>1. spilled' = spilled
      BY <2>4 DEF ServerHello, HandleQuery
    <3>2. PICK t : task' = [task EXCEPT ![c] = t] /\ (t = NoTask \/ \E msg : t = Replying(msg))
      BY <2>4 DEF ServerHello, HandleQuery, Task
    <3>3. t.at # "dirs"
      BY <3>2 DEF NoTask, Replying
    <3> QED BY <2>1, <3>1, <3>2, <3>3
  <2>5. CASE PrepareLaunch(c) \/ PrepareWebLaunch(c)
    <3>1. spilled' = spilled
      BY <2>5 DEF PrepareLaunch, PrepareWebLaunch
    <3>2. PICK t : task' = [task EXCEPT ![c] = t] /\ (mount_point \/ \E msg : t = Replying(msg))
      BY <2>5 DEF PrepareLaunch, PrepareWebLaunch, Prepared, Task
    <3>3. t.at = "dirs" => mount_point
      BY <3>2 DEF Replying
    <3> QED BY <2>1, <3>1, <3>2, <3>3
  <2>6. CASE MakeDir(c)
    <3>1. task[c].at = "dirs" /\ spilled' = (spilled \/ (attached = 0 /\ ~disturbed))
      BY <2>6 DEF MakeDir
    <3>2. spilled' = spilled
      BY <1>0, <3>1 DEF HomeUnder
    <3> QED BY <2>1, <2>6, <3>1, <3>2 DEF MakeDir, Task
  <2>7. CASE Spawn(c)
    <3>1. task[c].at = "dirs" /\ spilled' = spilled
      BY <2>7 DEF Spawn
    <3>2. PICK t : task' = [task EXCEPT ![c] = t]
      BY <2>7 DEF Spawn, Task
    <3> QED BY <2>1, <3>1, <3>2
  <2>8. CASE JoinZone(c)
    BY <2>1, <2>8 DEF JoinZone, Task, Replying
  <2>9. CASE ServerReply(c)
    <3>1. spilled' = spilled
      BY <2>9 DEF ServerReply
    <3>2. PICK t : task' = [task EXCEPT ![c] = t] /\ (t = NoTask \/ t = Serving("serve", << >>))
      BY <2>9 DEF ServerReply, Task
    <3>3. t.at # "dirs"
      BY <3>2 DEF NoTask, Serving
    <3> QED BY <2>1, <3>1, <3>2, <3>3
  <2> QED BY <1>3, <2>2, <2>3, <2>4, <2>5, <2>6, <2>7, <2>8, <2>9 DEF TaskStep
<1>4. CASE BindServer \/ VolumeCall
  <2>1. UNCHANGED <<vars, disturbed>> /\ spilled' = spilled /\ task' = task
    BY <1>4 DEF BindServer, VolumeCall, WriteVolume, Write, ipcVars
  <2> QED BY <1>1, <2>1
<1>5. CASE AcceptFails
  <2>1. UNCHANGED <<vars, disturbed>> /\ spilled' = spilled
    BY <1>5 DEF AcceptFails, ServerAlone
  <2>2. task' = [c \in Conns |-> IF Busy(c) THEN task[c] ELSE NoTask]
    BY <1>5 DEF AcceptFails
  <2>3. ASSUME NEW d \in Conns, task'[d].at = "dirs" PROVE task[d].at = "dirs"
    BY <2>2, <2>3 DEF NoTask
  <2> QED BY <1>1, <2>1, <2>3
<1>6. CASE Machine
  <2>0. Next /\ spilled' = spilled
    BY <1>6 DEF Machine, DiskStep
  <2>1. CASE pc' = "down"
    <3>1. task' = [c \in Conns |-> NoTask]
      BY <1>6, <2>1 DEF Machine
    <3>2. ~mount_point'
      BY <2>0, <2>1, <1>0, MountStep DEF HomeUnder
    <3> QED BY <1>0, <2>0, <2>1, <3>1, <3>2 DEF HomeUnder, NoTask
  <2>2. CASE pc' # "down" /\ attached' = 0 /\ attached # 0
    <3>1. task' = task /\ disturbed' = (pc = pc' \/ \E c \in Conns : Busy(c))
      BY <1>6, <2>2 DEF Machine
    <3>2. ~disturbed' => ~mount_point'
      BY <2>0, <2>2, <3>1, <1>0, MountStep DEF HomeUnder
    <3>3. ASSUME NEW c \in Conns, task'[c].at = "dirs" PROVE disturbed'
      BY <3>1, <3>3 DEF Busy
    <3> QED BY <1>0, <2>0, <2>2, <3>2, <3>3 DEF HomeUnder
  <2>3. CASE pc' # "down" /\ (attached = 0 \/ attached' # 0)
    <3>1. task' = task /\ disturbed' = disturbed
      BY <1>6, <2>3 DEF Machine
    <3>2. mount_point' => mount_point \/ attached' # 0
      BY <1>0, <2>0, MountStep DEF HomeUnder
    <3> QED BY <1>0, <2>0, <2>3, <3>1, <3>2 DEF HomeUnder
  <2> QED BY <2>1, <2>2, <2>3
<1> QED BY <1>2, <1>3, <1>4, <1>5, <1>6 DEF LNext

\* Every step keeps the sectors and the zone.
LEMMA IOStep ==
  ASSUME IOInv, IpcInv, LNext
  PROVE  IOInv'
<1>1. ASSUME UNCHANGED ioVars PROVE IOInv'
  BY <1>1 DEF IOInv, IOTypeOK, SectorOK, ioVars
<1>2. ASSUME NEW c \in Conns,
             Invoke(c) \/ AuditCommand(c) \/ ClientStep(c) \/ LauncherQuits(c) \/ TaskStep(c)
      PROVE  IOInv'
  <2>1. CASE JoinZone(c)
    <3>1. task[c].at = "join" /\ supervised' = supervised \cup {task[c].req}
          /\ backing' = backing /\ written' = written
      BY <2>1 DEF JoinZone, Join
    <3>2. task[c].req \in Proc
      BY <3>1 DEF IpcInv, ConnsOK, ConnOK, TaskOK
    <3> QED BY <3>1, <3>2 DEF IOInv, IOTypeOK, SectorOK
  <2>2. CASE ~JoinZone(c)
    <3>1. UNCHANGED ioVars
      BY <1>2, <2>2 DEF Invoke, AuditCommand, Begin, ClientStep, Connect, ClientWrite, ClientRead,
        ClientReceive, LauncherQuits, TaskStep, Accept, ServerRead, ServerHello, HandleQuery,
        PrepareLaunch, PrepareWebLaunch, MakeDir, Spawn, ServerReply, ClientAlone
    <3> QED BY <1>1, <3>1
  <2> QED BY <2>1, <2>2
<1>3. CASE BindServer \/ AcceptFails
  BY <1>1, <1>3 DEF BindServer, AcceptFails
<1>4. CASE Machine
  BY <1>1, <1>4, ZeroedOK DEF Machine, DiskStep
<1>5. CASE VolumeCall
  BY <1>5, WriteOK DEF VolumeCall, WriteVolume
<1> QED BY <1>2, <1>3, <1>4, <1>5 DEF LNext

\* Every step keeps the connections in turn and the rest in its type.
LEMMA IpcStep ==
  ASSUME DiskInv, IpcInv, LNext
  PROVE  IpcInv'
<1>1. ConnsOK'
  <2>0. ConnsOK
    BY DEF IpcInv
  <2>1. ASSUME NEW c \in Conns,
               Invoke(c) \/ AuditCommand(c) \/ ClientStep(c) \/ LauncherQuits(c)
        PROVE  ConnsOK'
    BY <2>0, <2>1, ClientTurns
  <2>2. ASSUME NEW c \in Conns, TaskStep(c) PROVE ConnsOK'
    BY <2>0, <2>2, TaskTurns
  <2>3. ASSUME ui' = ui, up' = up, down' = down, DOMAIN task' = Conns,
               \A c \in Conns : task'[c] \in {task[c], NoTask}
        PROVE  ConnsOK'
    <3>1. ASSUME NEW c \in Conns PROVE ConnOK(ui'[c], task'[c], up'[c], down'[c])
      <4>1. ConnOK(ui[c], task[c], up[c], down[c])
        BY <2>0 DEF ConnsOK
      <4>2. ConnOK(ui[c], NoTask, up[c], down[c])
        BY <4>1, EndedOK
      <4> QED BY <2>3, <4>1, <4>2
    <3> QED BY <2>0, <2>3, <3>1 DEF ConnsOK
  <2>4. CASE BindServer \/ VolumeCall
    BY <2>0, <2>3, <2>4 DEF BindServer, VolumeCall, ipcVars, ConnsOK
  <2>5. CASE AcceptFails
    <3>1. /\ ui' = ui /\ up' = up /\ down' = down
          /\ task' = [c \in Conns |-> IF Busy(c) THEN task[c] ELSE NoTask]
      BY <2>5 DEF AcceptFails, ServerAlone
    <3> QED BY <2>3, <3>1
  <2>6. CASE Machine
    <3>1. /\ ui' = ui /\ up' = up /\ down' = down
          /\ task' = [c \in Conns |-> NoTask] \/ task' = task
      BY <2>6 DEF Machine
    <3> QED BY <2>0, <2>3, <3>1 DEF ConnsOK
  <2> QED BY <2>1, <2>2, <2>4, <2>5, <2>6 DEF LNext
<1>2. HomeUnder' /\ spilled' = FALSE
  BY HomeStep
<1>3. /\ server' \in {"unbound", "listening", "stopped"} /\ disturbed' \in BOOLEAN
      /\ commands' \in 0..MaxCommands
  <2>1. ASSUME NEW c \in Conns, Invoke(c) \/ AuditCommand(c)
        PROVE  UNCHANGED <<server, disturbed>> /\ commands' \in 0..MaxCommands
    BY <2>1, LauncherAssumption DEF Invoke, AuditCommand, Begin, IpcInv
  <2>2. ASSUME NEW c \in Conns, ClientStep(c) \/ LauncherQuits(c) \/ TaskStep(c)
        PROVE  UNCHANGED <<server, disturbed, commands>>
    BY <2>2 DEF ClientStep, Connect, ClientWrite, ClientRead, ClientReceive, LauncherQuits,
      TaskStep, Accept, ServerRead, ServerHello, HandleQuery, PrepareLaunch, PrepareWebLaunch,
      MakeDir, Spawn, JoinZone, ServerReply, ClientAlone, ServerAlone
  <2>3. CASE BindServer \/ AcceptFails \/ VolumeCall
    BY <2>3 DEF BindServer, AcceptFails, VolumeCall, ServerAlone, ipcVars, IpcInv
  <2>4. CASE Machine
    <3>1. server' \in {"unbound", server} /\ commands' = commands
      BY <2>4 DEF Machine
    <3>2. disturbed' \in {FALSE, disturbed, pc = pc' \/ \E c \in Conns : Busy(c)}
      BY <2>4 DEF Machine
    <3> QED BY <3>1, <3>2 DEF IpcInv
  <2>5. UNCHANGED <<server, disturbed, commands>> =>
          /\ server' \in {"unbound", "listening", "stopped"} /\ disturbed' \in BOOLEAN
          /\ commands' \in 0..MaxCommands
    BY DEF IpcInv
  <2>6. UNCHANGED <<server, disturbed>> =>
          server' \in {"unbound", "listening", "stopped"} /\ disturbed' \in BOOLEAN
    BY DEF IpcInv
  <2> QED BY <2>1, <2>2, <2>3, <2>4, <2>5, <2>6 DEF LNext
<1> QED BY <1>1, <1>2, <1>3 DEF IpcInv

\* The invariant of the composition.
ComposedInv == DiskInv /\ Lit /\ IOInv /\ IpcInv

LEMMA ComposedInvariant == LSpec => []ComposedInv
<1>1. LInit => Lit /\ IOInv /\ IpcInv
  <2> SUFFICES ASSUME LInit PROVE Lit /\ IOInv /\ IpcInv
    OBVIOUS
  <2>1. Lit
    BY Zenon DEF LInit, Init, Provisioned, Lit, VolumeTypeOK
  <2>2. IOInv
    BY ZeroedOK DEF LInit
  <2>3. ASSUME NEW c \in Conns PROVE ConnOK(ui[c], task[c], up[c], down[c])
    <3>1. ui[c] = NoUi /\ task[c] = NoTask /\ up[c] = << >> /\ down[c] = << >>
      BY DEF LInit, IpcInit
    <3>2. << >> \in Seq(Symbol) /\ Len(<< >>) = 0
      OBVIOUS
    <3>3. NoUi \in UiState /\ NoUi.at = "idle" /\ TaskOK(NoTask) /\ NoTask.at = "none"
      BY DEF UiState, NoUi, NoTask, TaskOK, Reading
    <3>4. Sent(NoTask, << >>) = 0 /\ Arrived(NoUi, << >>) = 0
      BY <3>2, <3>3 DEF Sent, Arrived, Reading
    <3> QED BY <3>1, <3>2, <3>3, <3>4 DEF ConnOK, Turns
  <2>4. HomeUnder
    BY DEF LInit, Init, IpcInit, HomeUnder, NoTask
  <2>5. ConnsOK
    BY <2>3 DEF LInit, IpcInit, ConnsOK
  <2>6. 0 \in 0..MaxCommands
    BY LauncherAssumption
  <2> QED BY <2>1, <2>2, <2>4, <2>5, <2>6 DEF LInit, IpcInit, IpcInv
<1>2. DiskInv /\ Lit /\ IOInv /\ IpcInv /\ [LNext]_allVars => Lit' /\ IOInv' /\ IpcInv'
  <2> SUFFICES ASSUME DiskInv, Lit, IOInv, IpcInv, [LNext]_allVars PROVE Lit' /\ IOInv' /\ IpcInv'
    OBVIOUS
  <2>1. Lit'
    BY DiskInComposition, LitStep
  <2>2. CASE LNext
    BY <2>1, <2>2, IOStep, IpcStep
  <2>3. CASE UNCHANGED allVars
    <3>1. UNCHANGED <<pc, mount_point, attached, supervised, backing, written, ui, task, up, down,
                      server, disturbed, spilled, commands>>
      BY <2>3 DEF allVars, vars, diskVars, ioVars, ipcVars
    <3>2. IOInv'
      BY <3>1 DEF IOInv, IOTypeOK, SectorOK
    <3>3. ConnsOK' /\ HomeUnder'
      BY <3>1 DEF IpcInv, ConnsOK, HomeUnder
    <3> QED BY <2>1, <3>1, <3>2, <3>3 DEF IpcInv
  <2> QED BY <2>2, <2>3
<1>3. LSpec => []DiskInv
  BY DiskKept, DiskInvariant, PTL
<1>4. Lit /\ IOInv /\ IpcInv /\ DiskInv <=> ComposedInv
  BY DEF ComposedInv
<1> QED BY <1>1, <1>2, <1>3, <1>4, PTL DEF LSpec

\* volume_read returns what volume_write last wrote to each sector, to a process of
\* the zone and while the volume is unlocked, for every size of volume and buffer
\* and in every interleaving with launches, wipes, crashes and restarts.
THEOREM ReadsWhatWasWritten == LSpec => []RoundTrip
<1>1. ComposedInv => RoundTrip
  BY ReadOK DEF ComposedInv
<1> QED BY <1>1, ComposedInvariant, PTL

\* A launch writes the home of its app on the encrypted disk: for any number of
\* connections and apps, spawn_contained and seed_contained_home find the disk under
\* the mount point they read, unless it was ejected or a wipe detached it meanwhile.
THEOREM HomeStaysOnDisk == LSpec => []HomeOnDisk
<1>1. ComposedInv => HomeOnDisk
  <2> SUFFICES ASSUME ComposedInv PROVE HomeOnDisk
    OBVIOUS
  <2>1. ASSUME NEW c \in Conns
        PROVE  /\ ui[c].at \in {"idle", "connect", "write", "read"}
               /\ task[c].at \in {"none", "queued", "hello", "serve", "reply", "dirs", "join"}
               /\ Len(up[c]) <= 2 /\ Len(down[c]) <= 2
    <3>1. /\ ui[c] \in UiState /\ TaskOK(task[c]) /\ up[c] \in Seq(Symbol) /\ down[c] \in Seq(Symbol)
          /\ Turns(ui[c], task[c], Sent(task[c], up[c]), Arrived(ui[c], down[c]))
      BY DEF ComposedInv, IpcInv, ConnsOK, ConnOK
    <3>2. PICK sent \in Nat, arrived \in Nat :
            sent = Sent(task[c], up[c]) /\ arrived = Arrived(ui[c], down[c])
      BY <3>1, Counts
    <3>3. /\ Len(up[c]) \in Nat /\ Len(down[c]) \in Nat
          /\ Len(up[c]) <= sent /\ Len(down[c]) <= arrived
      BY <3>1, <3>2, Counts
    <3>4. sent <= 2 /\ arrived <= 2
      BY <3>1, <3>2 DEF Turns
    <3>5. ui[c].at \in {"idle", "connect", "write", "read"}
      BY <3>1, UiFields
    <3>6. task[c].at \in {"none", "queued", "hello", "serve", "reply", "dirs", "join"}
      BY <3>1 DEF TaskOK
    <3> QED BY <3>3, <3>4, <3>5, <3>6
  <2>2. TypeOK /\ IOTypeOK
    BY DEF ComposedInv, DiskInv, IOInv
  <2> QED BY <2>1, <2>2 DEF ComposedInv, IpcInv, HomeOnDisk, LauncherTypeOK
<1> QED BY <1>1, ComposedInvariant, PTL

-----------------------------------------------------------------------------
(***************************************************************************)
(* Part 2: WorkGuards                                                      *)
(***************************************************************************)

\* What the desktop holds.
DeskOK ==
  /\ platform \in {"mac", "win"} /\ now \in 0..MaxTime /\ version \in DOMAIN Policies
  /\ zones \subseteq Pids /\ front \in shown /\ shown \subseteq Pids
  /\ clip \in [count : Nat, formats : SUBSET ClipFormat]
  /\ subjects \in [Watches -> SUBSET Pids]

GuardRecord == [at : GuardAt, front : Zone, count : Nat, last : Nat,
                tagged : [count : Nat \cup {-1}, formats : SUBSET ClipFormat]]
Tag == [count : Nat \cup {-1}, formats : SUBSET ClipFormat]

\* The clipboard guard.  What it has tagged is the payload that was last copied in the work
\* zone, and it decides to clear only while its own reading of the counter is that payload's.
ClipOK ==
  /\ guard \in GuardRecord
  /\ guard.last <= clip.count /\ guard.count <= clip.count
  /\ guard.tagged.count <= guard.count
  /\ guard.tagged.count # -1 => guard.tagged.count = work_payload.count
  /\ guard.at = "clear" => work_payload.count = guard.count

WatchOK ==
  /\ watch \in [Watches -> [reported : SUBSET Pids, todo : SUBSET Pids]]
  /\ \A k \in Watches : watch[k].todo \subseteq watch[k].reported

\* Coalescing remembers an event that was audited, and the last refusal has its event.
AuditOK ==
  /\ last_audit # Never => last_audit \in emitted /\ last_audit.time \in Nat
  /\ denied # Never => \E e \in emitted :
       e.kind = denied.kind /\ denied.time - e.time < AUDIT_COALESCE_SECS

\* The inductive invariant behind DenialsExplained and ClearsOnlyWork.
GuardsInv == DeskOK /\ ClipOK /\ WatchOK /\ AuditOK

LEMMA InitGuards == GuardsInit => GuardsInv
<1> SUFFICES ASSUME GuardsInit PROVE GuardsInv
  OBVIOUS
<1> USE GuardsAssumption DEF GuardsInit
<1>1. DeskOK
  BY DEF DeskOK
<1>2. ClipOK
  BY DEF ClipOK, GuardRecord, Untagged, GuardAt, Zone
<1>3. WatchOK
  BY DEF WatchOK
<1>4. AuditOK
  BY DEF AuditOK
<1> QED BY <1>1, <1>2, <1>3, <1>4 DEF GuardsInv

\* decide_action: either the refusal is audited now, or should_audit found the last event
\* to be of its kind and less than AUDIT_COALESCE_SECS old.
LEMMA AuditStep ==
  ASSUME DeskOK, AuditOK, NEW act, decide_action(act) \/ UNCHANGED auditing
  PROVE  AuditOK'
<1>1. CASE UNCHANGED auditing
  BY <1>1 DEF AuditOK, auditing
<1>2. CASE decide_action(act)
  <2> DEFINE verdict == decide(act, zones, policy, now)
             event == [kind |-> audit_action_for(act, verdict), time |-> now]
  <2>0. now \in Nat
    BY GuardsAssumption DEF DeskOK
  <2>1. CASE IsAllow(verdict)
    BY <1>1, <1>2, <2>1 DEF decide_action
  <2>2. CASE ~IsAllow(verdict) /\ should_audit(event.kind)
    <3>1. denied' = event /\ last_audit' = event /\ emitted' = emitted \cup {event}
      BY <1>2, <2>2 DEF decide_action
    <3>2. event.time = now /\ now - now < AUDIT_COALESCE_SECS
      BY <2>0 DEF AUDIT_COALESCE_SECS
    <3> HIDE DEF event
    <3> QED BY <2>0, <3>1, <3>2 DEF AuditOK
  <2>3. CASE ~IsAllow(verdict) /\ ~should_audit(event.kind)
    <3>1. denied' = event /\ UNCHANGED <<last_audit, emitted>>
      BY <1>2, <2>3 DEF decide_action
    <3>2. /\ last_audit # Never /\ last_audit.kind = event.kind
          /\ event.time - last_audit.time < AUDIT_COALESCE_SECS
      BY <2>3 DEF should_audit
    <3> HIDE DEF event
    <3> QED BY <3>1, <3>2 DEF AuditOK
  <2> QED BY <2>1, <2>2, <2>3
<1> QED BY <1>1, <1>2

\* The user and the system change the desktop and nothing the threads hold; the counter of
\* the clipboard only grows.
LEMMA MovesGuards ==
  ASSUME GuardsInv,
         \/ Tick \/ update_policy
         \/ \E p \in Pids : ZoneChange(p) \/ \E hide \in BOOLEAN : Switch(p, hide)
         \/ \E payload \in Payloads : Copy(payload)
         \/ \E k \in Watches, p \in Pids : Watched(k, p)
  PROVE  GuardsInv'
<1> USE DEF GuardsInv
<1>1. UNCHANGED <<platform, guard, watch, auditing, work_payload>>
  BY DEF Tick, update_policy, ZoneChange, Switch, Copy, Watched, Move
<1>2. DeskOK' /\ clip'.count \in Nat /\ clip'.count >= clip.count
  <2> USE DEF DeskOK, desktop
  <2>1. CASE Tick
    BY <2>1 DEF Tick, Move
  <2>2. CASE update_policy
    BY <2>2 DEF update_policy, Move
  <2>3. ASSUME NEW p \in Pids, ZoneChange(p)
        PROVE  DeskOK' /\ clip' = clip
    BY <2>3 DEF ZoneChange, Move
  <2>4. ASSUME NEW p \in Pids, NEW hide \in BOOLEAN, Switch(p, hide)
        PROVE  DeskOK' /\ clip' = clip
    BY <2>4 DEF Switch, Move
  <2>5. ASSUME NEW payload \in Payloads, Copy(payload)
        PROVE  DeskOK' /\ clip'.count \in Nat /\ clip'.count >= clip.count
    BY <2>5, GuardsAssumption DEF Copy, Move
  <2>6. ASSUME NEW k \in Watches, NEW p \in Pids, Watched(k, p)
        PROVE  DeskOK' /\ clip' = clip
    BY <2>6 DEF Watched, Move
  <2> QED BY <2>1, <2>2, <2>3, <2>4, <2>5, <2>6
<1>3. ClipOK'
  BY <1>1, <1>2 DEF ClipOK, DeskOK, GuardRecord
<1>4. WatchOK' /\ AuditOK'
  BY <1>1 DEF WatchOK, AuditOK, auditing
<1> QED BY <1>2, <1>3, <1>4

\* The steps of the clipboard guard.
LEMMA GuardMoves ==
  ASSUME GuardsInv, NEW at \in GuardAt, NEW tag \in Tag, NEW zone \in Zone,
         NEW count \in Nat, NEW last \in Nat,
         guard' = [guard EXCEPT !.at = at, !.front = zone, !.count = count, !.last = last,
                                !.tagged = tag],
         clip' \in [count : Nat, formats : SUBSET ClipFormat],
         last <= clip'.count, count <= clip'.count, tag.count <= count,
         tag.count # -1 => tag.count = work_payload'.count,
         at = "clear" => work_payload'.count = count
  PROVE  ClipOK'
<1>1. guard \in GuardRecord
  BY DEF GuardsInv, ClipOK
<1>2. /\ guard' \in GuardRecord /\ guard'.at = at /\ guard'.count = count /\ guard'.last = last
      /\ guard'.tagged = tag
  BY <1>1 DEF GuardRecord, Tag
<1> QED BY <1>2 DEF ClipOK

LEMMA GuardSettles ==
  ASSUME GuardsInv, NEW at \in GuardAt \ {"clear"}, NEW tag \in Tag, NEW zone \in Zone,
         NEW count \in Nat, NEW last \in Nat,
         guard' = [guard EXCEPT !.at = at, !.front = zone, !.count = count, !.last = last,
                                !.tagged = tag],
         clip' = clip, last <= clip.count, count <= clip.count, tag.count <= count,
         tag.count # -1 => tag.count = work_payload'.count
  PROVE  ClipOK'
<1>1. clip' \in [count : Nat, formats : SUBSET ClipFormat]
  BY DEF GuardsInv, DeskOK
<1> QED BY <1>1, GuardMoves

LEMMA PollGuards ==
  ASSUME GuardsInv, run_clipboard_guard
  PROVE  GuardsInv'
<1> SUFFICES DeskOK' /\ ClipOK' /\ WatchOK' /\ AuditOK'
  BY DEF GuardsInv
<1>a. DeskOK /\ ClipOK /\ WatchOK /\ AuditOK
  BY DEF GuardsInv
<1>b. /\ guard.last <= clip.count /\ guard.count <= clip.count
      /\ guard.tagged.count <= guard.count
      /\ guard.tagged.count # -1 => guard.tagged.count = work_payload.count
      /\ guard.at = "clear" => work_payload.count = guard.count
  BY <1>a DEF ClipOK
<1>0. /\ clip \in [count : Nat, formats : SUBSET ClipFormat]
      /\ guard \in [at : GuardAt, front : Zone, count : Nat, last : Nat, tagged : Tag]
      /\ guard.tagged \in Tag /\ clip.count \in Nat /\ guard.count \in Nat /\ guard.last \in Nat
  BY <1>a DEF DeskOK, ClipOK, GuardRecord, Tag
<1>1. UNCHANGED <<platform, now, version, zones, front, shown, subjects, watch>>
  BY DEF run_clipboard_guard, PollFront, PollCount, on_copy, on_front, clear_pasteboard,
         clear_clipboard, ReadSequence, Guarding
<1>2. WatchOK'
  BY <1>a, <1>1 DEF WatchOK
<1>3. ASSUME clip' \in [count : Nat, formats : SUBSET ClipFormat]
      PROVE  DeskOK'
  BY <1>a, <1>1, <1>3 DEF DeskOK
<1>4. CASE PollFront
  <2>1. /\ UNCHANGED <<clip, auditing, work_payload>>
        /\ guard' = [guard EXCEPT !.at = "front", !.front = frontmost_zone]
    BY <1>4 DEF PollFront, Guarding
  <2>2. frontmost_zone \in Zone
    BY DEF frontmost_zone, Zone
  <2>3. PICK at \in GuardAt \ {"clear"} :
          guard' = [guard EXCEPT !.at = at, !.front = frontmost_zone, !.count = guard.count,
                                 !.last = guard.last, !.tagged = guard.tagged]
    BY <1>0, <2>1 DEF GuardAt
  <2>4. ClipOK'
    <3>1. /\ clip' = clip /\ clip.count <= clip.count
          /\ guard.tagged.count # -1 => guard.tagged.count = work_payload'.count
      BY <1>0, <1>b, <2>1
    <3> QED BY <1>0, <1>b, <2>2, <2>3, <3>1, GuardSettles
  <2> QED BY <1>0, <1>2, <1>3, <2>1, <2>4, AuditStep, <1>a
<1>5. CASE PollCount
  <2>1. /\ UNCHANGED <<clip, auditing, work_payload>>
        /\ guard' = [guard EXCEPT !.at = IF clip.count # guard.last THEN "copied" ELSE "check",
                                  !.count = clip.count, !.last = clip.count]
    BY <1>5 DEF PollCount, Guarding
  <2>2. PICK at \in GuardAt \ {"clear"} :
          guard' = [guard EXCEPT !.at = at, !.front = guard.front, !.count = clip.count,
                                 !.last = clip.count, !.tagged = guard.tagged]
    BY <1>0, <2>1 DEF GuardAt
  <2>3. guard.tagged.count <= clip.count /\ guard.front \in Zone
    BY <1>b, <1>0 DEF Tag, GuardAt
  <2>4. ClipOK'
    <3>1. /\ clip' = clip /\ clip.count <= clip.count
          /\ guard.tagged.count # -1 => guard.tagged.count = work_payload'.count
      BY <1>0, <1>b, <2>1
    <3> QED BY <1>0, <1>b, <2>2, <2>3, <3>1, GuardSettles
  <2> QED BY <1>0, <1>2, <1>3, <2>1, <2>4, AuditStep, <1>a
<1>6. CASE on_copy
  <2>0. PICK failed \in BOOLEAN :
          guard' = [guard EXCEPT !.at = "check", !.tagged =
            IF guard.front = "Work"
            THEN [count |-> guard.count, formats |-> formats(failed)]
            ELSE Untagged]
    BY <1>6 DEF on_copy
  <2>1. /\ UNCHANGED <<clip, auditing>>
        /\ work_payload' = IF guard.front = "Work" THEN [Untagged EXCEPT !.count = guard.count]
                                                   ELSE work_payload
    BY <1>6 DEF on_copy, Guarding
  <2>2. formats(failed) \in SUBSET ClipFormat
    BY <1>0 DEF formats, Offered
  <2>3. CASE guard.front = "Work"
    <3>1. work_payload'.count = guard.count
      BY <2>1, <2>3 DEF Untagged
    <3> DEFINE tag == [count |-> guard.count, formats |-> formats(failed)]
    <3>2. PICK at \in GuardAt \ {"clear"} :
            guard' = [guard EXCEPT !.at = at, !.front = guard.front, !.count = guard.count,
                                   !.last = guard.last, !.tagged = tag]
      BY <1>0, <2>0, <2>3 DEF GuardAt
    <3>3. tag \in Tag /\ tag.count = guard.count
      BY <1>0, <2>2 DEF Tag
    <3> HIDE DEF tag
    <3>4. ClipOK'
      <4>1. guard.front \in Zone /\ clip' = clip /\ tag.count <= guard.count
        BY <1>0, <2>1, <3>3
      <4> QED BY <1>0, <1>b, <3>1, <3>2, <3>3, <4>1, GuardSettles
    <3> QED BY <1>0, <1>2, <1>3, <2>1, <3>4, AuditStep, <1>a
  <2>4. CASE guard.front # "Work"
    <3>1. PICK at \in GuardAt \ {"clear"} :
            guard' = [guard EXCEPT !.at = at, !.front = guard.front, !.count = guard.count,
                                   !.last = guard.last, !.tagged = Untagged]
      BY <1>0, <2>0, <2>4 DEF GuardAt
    <3>2. Untagged \in Tag /\ Untagged.count = -1
      BY DEF Tag, Untagged
    <3>3. ClipOK'
      <4>1. guard.front \in Zone /\ clip' = clip /\ Untagged.count <= guard.count
        BY <1>0, <2>1, <3>2
      <4> QED BY <1>0, <1>b, <3>1, <3>2, <4>1, GuardSettles
    <3> QED BY <1>0, <1>2, <1>3, <2>1, <3>3, AuditStep, <1>a
  <2> QED BY <2>3, <2>4
<1>7. CASE on_front
  <2>1. /\ UNCHANGED <<clip, work_payload>> /\ guard.at = "check"
    BY <1>7 DEF on_front, Guarding
  <2>3. Untagged \in Tag /\ Untagged.count = -1
    BY DEF Tag, Untagged
  <2>2. AuditOK'
    <3>1. ASSUME NEW f, decide_action(Transfer(f)) PROVE AuditOK'
      BY <3>1, AuditStep, <1>a
    <3>2. ASSUME UNCHANGED auditing PROVE AuditOK'
      BY <3>2, AuditStep, <1>a
    <3> QED BY <1>0, <1>7, <2>3, <3>1, <3>2 DEF on_front, Zone
  <2>4. \/ Proceed("sleep", guard.tagged) \/ Proceed("sleep", Untagged)
        \/ guard.tagged.count = guard.count /\ Proceed("clear", Untagged)
    BY <1>0, <1>7, <2>3 DEF on_front, Zone
  <2>5. ASSUME NEW at \in GuardAt, NEW tag \in Tag, Proceed(at, tag),
               tag = guard.tagged \/ tag = Untagged,
               at = "clear" => guard.tagged.count = guard.count
        PROVE  ClipOK'
    <3>1. guard' = [guard EXCEPT !.at = at, !.front = guard.front, !.count = guard.count,
                                 !.last = guard.last, !.tagged = tag]
      BY <1>0, <2>5 DEF Proceed
    <3>2. at = "clear" => work_payload.count = guard.count
      BY <1>b, <1>0, <2>5 DEF Tag
    <3>3. tag.count <= guard.count /\ (tag.count # -1 => tag.count = work_payload.count)
      BY <1>b, <1>0, <2>3, <2>5
    <3> QED BY <1>0, <2>1, <3>1, <3>2, <3>3, GuardMoves, <1>b
  <2>6. ClipOK'
    BY <1>0, <2>3, <2>4, <2>5 DEF GuardAt
  <2> QED BY <1>0, <1>2, <1>3, <2>1, <2>2, <2>6
<1>8. CASE clear_pasteboard \/ clear_clipboard \/ ReadSequence
  <2>1. UNCHANGED <<auditing, work_payload>> /\ (clip' = Emptied \/ UNCHANGED clip)
    BY <1>8 DEF clear_pasteboard, clear_clipboard, ReadSequence, Guarding
  <2>2. /\ clip' \in [count : Nat, formats : SUBSET ClipFormat]
        /\ clip'.count >= clip.count
    BY <1>0, <2>1 DEF Emptied
  <2>3. ClipOK'
    <3>1. ASSUME NEW at \in GuardAt \ {"clear"}, NEW last \in {guard.last, clip'.count},
                 guard' = [guard EXCEPT !.at = at, !.last = last]
          PROVE  ClipOK'
      <4>1. guard' = [guard EXCEPT !.at = at, !.front = guard.front, !.count = guard.count,
                                   !.last = last, !.tagged = guard.tagged]
        BY <1>0, <3>1
      <4>2. last \in Nat /\ last <= clip'.count /\ guard.count <= clip'.count
        BY <1>b, <1>0, <2>2
      <4> QED BY <1>0, <2>1, <2>2, <4>1, <4>2, GuardMoves, <1>b
    <3>2. CASE clear_pasteboard
      <4>1. guard' = [guard EXCEPT !.at = "sleep", !.last = clip'.count]
        BY <1>0, <3>2 DEF clear_pasteboard, Emptied
      <4> QED BY <3>1, <4>1 DEF GuardAt
    <3>3. CASE clear_clipboard
      <4>1. guard' = [guard EXCEPT !.at = "cleared", !.last = guard.last]
        BY <1>0, <3>3 DEF clear_clipboard
      <4> QED BY <3>1, <4>1 DEF GuardAt
    <3>4. CASE ReadSequence
      <4>1. guard' = [guard EXCEPT !.at = "sleep", !.last = clip'.count]
        BY <1>0, <3>4 DEF ReadSequence, Guarding
      <4> QED BY <3>1, <4>1 DEF GuardAt
    <3> QED BY <1>8, <3>2, <3>3, <3>4
  <2> QED BY <1>2, <1>3, <2>1, <2>2, <2>3, AuditStep, <1>a
<1> QED BY <1>4, <1>5, <1>6, <1>7, <1>8 DEF run_clipboard_guard

\* What leaves the clipboard and its guard alone.
LEMMA OthersGuards ==
  ASSUME GuardsInv, UNCHANGED <<platform, now, version, desktop, guard, work_payload>>
  PROVE  DeskOK' /\ ClipOK'
BY DEF GuardsInv, DeskOK, ClipOK, desktop

\* The watches and the keyboard hook.
LEMMA WatchesGuards ==
  ASSUME GuardsInv,
         \/ \E k \in Watches : run_watch(k)
         \/ report_if_over_work
         \/ \E act \in Requests : handle_shim_msg(act)
         \/ UNCHANGED guardsVars
  PROVE  GuardsInv'
<1>1. DeskOK' /\ ClipOK'
  <2>1. UNCHANGED <<platform, now, version, desktop, guard, work_payload>>
    BY DEF run_watch, observe, Report, report_if_over_work, handle_shim_msg, Watching, guardsVars
  <2> QED BY <2>1, OthersGuards
<1>2. AuditOK'
  <2>1. UNCHANGED auditing \/ \E act : decide_action(act)
    BY DEF run_watch, observe, Report, report_if_over_work, handle_shim_msg, Watching, guardsVars,
           auditing
  <2> QED BY <2>1, AuditStep DEF GuardsInv
<1>3. WatchOK'
  <2> USE DEF GuardsInv, WatchOK
  <2>1. ASSUME NEW k \in Watches, observe(k) PROVE WatchOK'
    <3>1. Listed(k) \subseteq Pids
      BY DEF Listed, running_capture_tools, keyboard_tappers, DeskOK, Watches
    <3> QED BY <2>1, <3>1 DEF observe
  <2>2. ASSUME NEW k \in Watches, NEW p \in Pids, Report(k, p) PROVE WatchOK'
    BY <2>2 DEF Report
  <2>3. CASE UNCHANGED watch
    BY <2>3
  <2> QED BY <2>1, <2>2, <2>3 DEF run_watch, report_if_over_work, handle_shim_msg, guardsVars
<1> QED BY <1>1, <1>2, <1>3 DEF GuardsInv

LEMMA StepGuards == GuardsInv /\ [GuardsNext]_guardsVars => GuardsInv'
BY MovesGuards, PollGuards, WatchesGuards DEF GuardsNext

LEMMA GuardsInvariant == GuardsSpec => []GuardsInv
BY InitGuards, StepGuards, PTL DEF GuardsSpec

\* Whatever is refused, by whichever thread and under whichever policy, an event of that
\* very kind was audited less than AUDIT_COALESCE_SECS before, or is dated after the refusal
\* because the clock was set back: coalescing never silences a kind that was not just audited.
THEOREM NoSilentDenial == GuardsSpec => []DenialsExplained
<1>1. GuardsInv => DenialsExplained
  <2> SUFFICES ASSUME GuardsInv PROVE GuardsTypeOK
    BY DEF GuardsInv, AuditOK, DenialsExplained
  <2>1. clip.count \in Nat /\ clip.formats \subseteq ClipFormat
    BY DEF GuardsInv, DeskOK
  <2>2. guard.at \in GuardAt /\ guard.front \in Zone
    BY DEF GuardsInv, ClipOK, GuardRecord
  <2>3. \A k \in Watches : watch[k].todo \subseteq watch[k].reported /\ watch[k].reported \subseteq Pids
    BY DEF GuardsInv, WatchOK
  <2> QED BY <2>1, <2>2, <2>3 DEF GuardsInv, DeskOK, ClipOK, GuardsTypeOK
<1> QED BY GuardsInvariant, <1>1, PTL

\* The guard empties the clipboard only of a payload it had tagged as work, or of one that
\* was copied after its poll had read the counter, whatever the user copies and switches to
\* between two of its calls.
THEOREM OnlyWorkCleared == GuardsSpec => ClearsOnlyWork
<1>1. GuardsInv /\ [GuardsNext]_guardsVars =>
        [ guard.at = "clear" /\ clip' # clip /\ moves' = moves =>
            clip.count = work_payload.count \/ clip.count > guard.count ]_guardsVars
  <2> SUFFICES ASSUME GuardsInv, guard.at = "clear"
               PROVE  clip.count = work_payload.count \/ clip.count > guard.count
    OBVIOUS
  <2>1. clip.count \in Nat /\ guard.count \in Nat
    BY DEF GuardsInv, DeskOK, ClipOK, GuardRecord
  <2> QED BY <2>1 DEF GuardsInv, ClipOK
<1> QED BY GuardsInvariant, <1>1, PTL DEF GuardsSpec, ClearsOnlyWork
=============================================================================
