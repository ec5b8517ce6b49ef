---------------------------- MODULE ClaveVolume ----------------------------
(***************************************************************************)
(* The key states of the portable encrypted volume: ClaveVolume            *)
(* (clave-volume/src/volume.rs) over a MemKeyStore (store.rs) and a        *)
(* MemBacking (container.rs).  All three live in the daemon's memory, and  *)
(* every call is made under the mutex that holds the ClaveVolume.          *)
(***************************************************************************)

VARIABLES cipher,   \* an XtsCipher is held: the volume is unlocked
          key,      \* the key store holds the wrapped DEK of this container
          marker    \* the backing's wipe marker

volumeVars == <<cipher, key, marker>>

VolumeTypeOK == cipher \in BOOLEAN /\ key \in BOOLEAN /\ marker \in BOOLEAN

\* Provisioned at boot: MemKeyStore::provision, MemBacking::zeroed, ClaveVolume::new.
Provisioned == cipher = FALSE /\ key = TRUE /\ marker = FALSE

Reprovision == cipher' = FALSE /\ key' = TRUE /\ marker' = FALSE

UnlockError ==
  IF marker THEN "WipeMarkerSet" ELSE IF ~key THEN "KeyDestroyed" ELSE "Ok"

\* Mutant: the marker and the key store are not consulted.
UnlockUnchecked == cipher' = TRUE /\ UNCHANGED <<key, marker>>

Unlock ==
  /\ cipher' = IF UnlockError = "Ok" THEN TRUE ELSE cipher
  /\ UNCHANGED <<key, marker>>

Lock == cipher' = FALSE /\ UNCHANGED <<key, marker>>

\* Evict the cipher, destroy the wrapped key, set the marker.
Wipe == cipher' = FALSE /\ key' = FALSE /\ marker' = TRUE
=============================================================================
