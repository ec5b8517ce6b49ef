----------------------------- MODULE ClaveDisk -----------------------------
(***************************************************************************)
(* The Clave Disk of a Mac: MacVolumeMount (clave-mac/src/volume.rs) and   *)
(* the portable ClaveVolume beside it, as run_macos boots them and         *)
(* Daemon::unlock_volume, ::lock_volume and ::wipe drive them.             *)
(*                                                                         *)
(* A passphrase is named by the number of its minting, 0 when there is     *)
(* none; a sparsebundle and a mount by the passphrase they are encrypted   *)
(* under.  The Keychain item, the bundle and the mount belong to the       *)
(* operating system and survive the daemon; the mount also ends at reboot. *)
(***************************************************************************)
EXTENDS Naturals, ClaveVolume

CONSTANTS MaxMints,    \* bound on the passphrases minted
          MaxFaults,   \* bound on the number of faults
          Faults       \* the faults that may happen (see FaultKind)

FaultKind == {"crash",     \* the daemon dies, at any step
              "reboot",    \* the machine restarts
              "eject",     \* the user ejects the disk
              "busy",      \* hdiutil detach fails: a file is open
              "keychain",  \* a Keychain call fails
              "tool"}      \* hdiutil or the file system fails

ASSUME DiskAssumption ==
  MaxMints \in Nat /\ MaxFaults \in Nat /\ Faults \subseteq FaultKind

VARIABLES
  passphrase,    \* the Keychain item of the container
  bundle,        \* the sparsebundle
  attached,      \* what the operating system has attached at the mount point
  mount_point,   \* MacVolumeMount::mount_point is Some
  pc,            \* where the daemon is: booting, running, or in Daemon::wipe
  using,         \* the passphrase held by attach
  minted,        \* passphrases minted so far
  shredded,      \* auxiliary: the passphrases deleted from the Keychain
  nfaults

diskVars == <<passphrase, bundle, attached, mount_point>>
auxVars == <<minted, shredded>>
vars == <<volumeVars, diskVars, pc, using, auxVars, nfaults>>

Booting == {"attach", "mint", "create", "mount", "provision"}
Wiping == {"detach", "shred", "unlink", "report"}
Passphrase == 0..MaxMints

TypeOK ==
  /\ VolumeTypeOK
  /\ passphrase \in Passphrase /\ bundle \in Passphrase /\ attached \in Passphrase
  /\ mount_point \in BOOLEAN
  /\ pc \in {"down", "run"} \cup Booting \cup Wiping
  /\ using \in Passphrase
  /\ minted \in Passphrase
  /\ shredded \subseteq 1..MaxMints
  /\ nfaults \in Nat

Init ==
  /\ Provisioned
  /\ passphrase = 0 /\ bundle = 0 /\ attached = 0 /\ mount_point = FALSE
  /\ pc = "down" /\ using = 0
  /\ minted = 0 /\ shredded = {}
  /\ nfaults = 0

Fault(kind) == kind \in Faults /\ nfaults < MaxFaults /\ nfaults' = nfaults + 1

-----------------------------------------------------------------------------
(* Boot: MacVolumeMount::attach, then the volume is provisioned anew.      *)

StartDaemon ==
  /\ pc = "down" /\ pc' = "attach"
  /\ UNCHANGED <<volumeVars, diskVars, using, auxVars, nfaults>>

\* keychain_get answers None when there is no item and when the call fails.
Stored(found) == IF found THEN passphrase ELSE 0

KeychainGet(found) ==
  \/ found /\ UNCHANGED nfaults
  \/ ~found /\ Fault("keychain")

\* Mutant: a replacement is minted for an existing bundle.
FindDiskMintsAnew ==
  /\ pc = "attach"
  /\ \/ /\ attached # 0
        /\ mount_point' = TRUE /\ pc' = "provision" /\ UNCHANGED <<using, nfaults>>
     \/ /\ attached = 0
        /\ \E found \in BOOLEAN :
             /\ KeychainGet(found)
             /\ using' = Stored(found)
             /\ pc' = IF Stored(found) = 0 THEN "mint" ELSE IF bundle # 0 THEN "mount" ELSE "create"
        /\ UNCHANGED mount_point
  /\ UNCHANGED <<volumeVars, passphrase, bundle, attached, auxVars>>

\* attach: a mount found in place is adopted; an existing bundle is opened with
\* the stored passphrase or refused; a new one reuses a stored passphrase.
FindDisk ==
  /\ pc = "attach"
  /\ \/ /\ attached # 0
        /\ mount_point' = TRUE /\ pc' = "provision" /\ UNCHANGED <<using, nfaults>>
     \/ /\ attached = 0
        /\ \E found \in BOOLEAN :
             /\ KeychainGet(found)
             /\ using' = Stored(found)
             /\ pc' = CASE bundle # 0 /\ Stored(found) # 0 -> "mount"
                        [] bundle # 0 /\ Stored(found) = 0 -> "provision"
                        [] bundle = 0 /\ Stored(found) # 0 -> "create"
                        [] OTHER                           -> "mint"
        /\ UNCHANGED mount_point
  /\ UNCHANGED <<volumeVars, passphrase, bundle, attached, auxVars>>

\* Mutant: the passphrase is derived from the container, so it comes out the same.
MintDerived ==
  /\ pc = "mint" /\ minted < MaxMints
  /\ minted' = 1 /\ passphrase' = 1 /\ using' = 1
  /\ pc' = "create"
  /\ UNCHANGED <<volumeVars, bundle, attached, mount_point, shredded, nfaults>>

\* passphrase_for_new: mint, seal, and store in the Keychain before it is used.
MintPassphrase ==
  /\ pc = "mint" /\ minted < MaxMints
  /\ minted' = minted + 1 /\ passphrase' = minted + 1 /\ using' = minted + 1
  /\ pc' = "create"
  /\ UNCHANGED <<volumeVars, bundle, attached, mount_point, shredded, nfaults>>

CreateBundle ==
  /\ pc = "create" /\ bundle' = using /\ pc' = "mount"
  /\ UNCHANGED <<volumeVars, passphrase, attached, mount_point, using, auxVars, nfaults>>

\* hdiutil attach opens the bundle only with the passphrase it was created with.
MountBundle ==
  /\ pc = "mount"
  /\ attached' = IF using = bundle THEN bundle ELSE 0
  /\ mount_point' = (using = bundle)
  /\ pc' = "provision"
  /\ UNCHANGED <<volumeVars, passphrase, bundle, using, auxVars, nfaults>>

\* attach fails (the Keychain refuses the new item, the Secure Enclave cannot be
\* reached, hdiutil fails); run_macos continues unmounted.
AttachFails ==
  /\ pc \in {"mint", "create", "mount"} /\ Fault("tool")
  /\ pc' = "provision"
  /\ UNCHANGED <<volumeVars, diskVars, using, auxVars>>

\* run_macos: MemKeyStore::provision from the enrolled DEK, a zeroed MemBacking.
ProvisionVolume ==
  /\ pc = "provision" /\ Reprovision
  /\ pc' = "run" /\ using' = 0
  /\ UNCHANGED <<diskVars, auxVars, nfaults>>

-----------------------------------------------------------------------------
(* The running daemon.  unlock_volume and lock_volume come from any thread. *)

Running == pc = "run" \/ pc \in Wiping

UnlockVolume ==
  /\ Running /\ Unlock
  /\ UNCHANGED <<diskVars, pc, using, auxVars, nfaults>>

LockVolume ==
  /\ Running /\ Lock
  /\ UNCHANGED <<diskVars, pc, using, auxVars, nfaults>>

\* Daemon::wipe: the portable volume under its mutex, then request_wipe, whose
\* result is ignored, then the audit event.
WipeVolume ==
  /\ pc = "run" /\ Wipe /\ pc' = "detach"
  /\ UNCHANGED <<diskVars, using, auxVars, nfaults>>

\* Mutant: the mount point stays recorded when the disk is detached.
DetachKeepsMountPoint ==
  /\ pc = "detach" /\ UNCHANGED mount_point
  /\ \/ ~mount_point /\ pc' = "shred" /\ UNCHANGED <<attached, nfaults>>
     \/ mount_point /\ attached # 0 /\ attached' = 0 /\ pc' = "shred" /\ UNCHANGED nfaults
     \/ mount_point /\ attached = 0 /\ pc' = "report" /\ UNCHANGED <<attached, nfaults>>
     \/ mount_point /\ Fault("busy") /\ pc' = "report" /\ UNCHANGED attached
  /\ UNCHANGED <<volumeVars, passphrase, bundle, using, auxVars>>

\* detach takes the mount point out of the mutex before it runs hdiutil; an error
\* of hdiutil ends request_wipe.
DetachDisk ==
  /\ pc = "detach" /\ mount_point' = FALSE
  /\ \/ ~mount_point /\ pc' = "shred" /\ UNCHANGED <<attached, nfaults>>
     \/ mount_point /\ attached # 0 /\ attached' = 0 /\ pc' = "shred" /\ UNCHANGED nfaults
     \/ mount_point /\ attached = 0 /\ pc' = "report" /\ UNCHANGED <<attached, nfaults>>
     \/ mount_point /\ Fault("busy") /\ pc' = "report" /\ UNCHANGED attached
  /\ UNCHANGED <<volumeVars, passphrase, bundle, using, auxVars>>

\* keychain_delete: an error is ignored.
ShredPassphrase ==
  /\ pc = "shred" /\ pc' = "unlink"
  /\ \/ /\ passphrase' = 0 /\ shredded' = shredded \cup ({passphrase} \ {0})
        /\ UNCHANGED nfaults
     \/ Fault("keychain") /\ UNCHANGED <<passphrase, shredded>>
  /\ UNCHANGED <<volumeVars, bundle, attached, mount_point, using, minted>>

UnlinkBundle ==
  /\ pc = "unlink" /\ pc' = "report"
  /\ \/ bundle' = 0 /\ UNCHANGED nfaults
     \/ Fault("tool") /\ UNCHANGED bundle
  /\ UNCHANGED <<volumeVars, passphrase, attached, mount_point, using, auxVars>>

ReportWiped ==
  /\ pc = "report" /\ pc' = "run"
  /\ UNCHANGED <<volumeVars, diskVars, using, auxVars, nfaults>>

-----------------------------------------------------------------------------
(* The environment. *)

Dies == pc' = "down" /\ using' = 0 /\ mount_point' = FALSE

Crash ==
  /\ pc # "down" /\ Fault("crash") /\ Dies
  /\ UNCHANGED <<volumeVars, passphrase, bundle, attached, auxVars>>

Reboot ==
  /\ Fault("reboot") /\ Dies /\ attached' = 0
  /\ UNCHANGED <<volumeVars, passphrase, bundle, auxVars>>

Eject ==
  /\ attached # 0 /\ Fault("eject") /\ attached' = 0
  /\ UNCHANGED <<volumeVars, passphrase, bundle, mount_point, pc, using, auxVars>>

Boot ==
  \/ StartDaemon \/ FindDisk \/ MintPassphrase \/ CreateBundle \/ MountBundle
  \/ AttachFails \/ ProvisionVolume

WipeStep == DetachDisk \/ ShredPassphrase \/ UnlinkBundle \/ ReportWiped

Next ==
  \/ Boot
  \/ UnlockVolume \/ LockVolume \/ WipeVolume \/ WipeStep
  \/ Crash \/ Reboot \/ Eject

Spec == Init /\ [][Next]_vars

-----------------------------------------------------------------------------
(* Properties. *)

\* No crash or failure between minting, storing, creating and wiping leaves a
\* bundle beside a passphrase that cannot open it: attach never mints a
\* replacement for a container that exists ("it could never open this container").
PassphraseOpensBundle == bundle # 0 /\ passphrase # 0 => passphrase = bundle

\* Crypto-shredding holds: what was encrypted under a passphrase that was deleted
\* from the Keychain is never attached again, by any later boot or wipe.
ShreddedNeverMounts ==
  [][attached' # attached /\ attached' # 0 => attached' \notin shredded]_vars

\* Within the life of a process a wiped volume stays dark, whichever thread calls
\* unlock while the wipe of the platform disk is still under way.
WipedStaysLocked == marker /\ pc # "down" => ~cipher
=============================================================================
