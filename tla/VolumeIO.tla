------------------------------ MODULE VolumeIO ------------------------------
(***************************************************************************)
(* Sector I/O on the portable volume beside the Clave Disk: volume_read    *)
(* and volume_write, that is ClaveVolume::read and ::write with the access *)
(* gate of authorize, over MemBacking.  A ciphertext sector is the pair of *)
(* the tweak it was encrypted under and its plaintext (AES-XTS taken to be *)
(* a perfect cipher): decrypting under another tweak yields garbage.       *)
(*                                                                         *)
(* The zone registry, the backing and the key store are in the memory of   *)
(* the daemon: whatever step of ClaveDisk ends the process loses them.     *)
(***************************************************************************)
EXTENDS ClaveDisk, Sequences

CONSTANTS Proc,      \* processes on the device
          Value,     \* plaintexts of one sector
          Sectors,   \* MemBacking::zeroed(Sectors)
          MaxIO,     \* longest buffer, in sectors
          Garbage    \* what decryption yields under the wrong tweak

ASSUME VolumeIOAssumption ==
  /\ Sectors \in Nat \ {0} /\ MaxIO \in Nat \ {0}
  /\ Garbage \notin Value

VARIABLES supervised,   \* the members of the ZoneRegistry
          backing,      \* MemBacking's data
          written       \* auxiliary: the plaintext last written to each sector

ioVars == <<supervised, backing, written>>

Sector == 0..(Sectors - 1)
Zeroed == [tweak |-> Sectors, plain |-> Garbage]
Ciphertext == [tweak : 0..Sectors, plain : Value \cup {Garbage}]
Buffer == UNION {[1..n -> Value] : n \in 1..MaxIO}

IOTypeOK ==
  /\ supervised \subseteq Proc
  /\ backing \in [Sector -> Ciphertext]
  /\ written \in [Sector -> Value \cup {Garbage}]

IOInit ==
  /\ supervised = {}
  /\ backing = [s \in Sector |-> Zeroed]
  /\ written = [s \in Sector |-> Garbage]

\* What the process held is gone with it.
LoseMemory ==
  /\ supervised' = {}
  /\ backing' = [s \in Sector |-> Zeroed]
  /\ written' = [s \in Sector |-> Garbage]

-----------------------------------------------------------------------------
\* Mutant: the tweak counts from the start of the buffer.
EncryptFromZero(data, first, i) == [tweak |-> i - 1, plain |-> data[i]]

\* XtsCipher: sector i of a buffer is transformed under tweak first_sector + i.
Encrypt(data, first, i) == [tweak |-> first + i - 1, plain |-> data[i]]

Decrypt(sector, ct) == IF ct.tweak = sector THEN ct.plain ELSE Garbage

Authorize(caller) ==
  IF caller \notin supervised THEN "AccessDenied"
  ELSE IF ~cipher THEN "Locked" ELSE "Ok"

\* The checks of read and write, in order: the gate, the alignment of the buffer,
\* and the range check of the first sector that lies beyond the backing.
IOResult(caller, first, n, aligned) ==
  IF Authorize(caller) # "Ok" THEN Authorize(caller)
  ELSE IF ~aligned THEN "Misaligned"
  ELSE IF first + n > Sectors THEN "OutOfRange" ELSE "Ok"

\* Every sector is read before any is decrypted, so a failed read returns nothing.
Read(caller, first, n, aligned) ==
  IF IOResult(caller, first, n, aligned) # "Ok" THEN << >>
  ELSE [i \in 1..n |-> Decrypt(first + i - 1, backing[first + i - 1])]

\* The sectors are written one by one: the ones before the end of the backing
\* stay written when the call fails with OutOfRange.
Write(caller, first, data, aligned) ==
  LET result == IOResult(caller, first, Len(data), aligned)
      Touched(s) == /\ result \in {"Ok", "OutOfRange"}
                    /\ s \in first..(first + Len(data) - 1)
  IN  /\ Running
      /\ backing' = [s \in Sector |->
                       IF Touched(s) THEN Encrypt(data, first, s - first + 1) ELSE backing[s]]
      /\ written' = [s \in Sector |-> IF Touched(s) THEN data[s - first + 1] ELSE written[s]]
      /\ UNCHANGED <<vars, supervised>>

\* ZoneRegistry::join.  On a Mac nothing leaves the daemon's registry again.
Join(proc) ==
  /\ supervised' = supervised \cup {proc}
  /\ UNCHANGED <<backing, written>>

\* A step of ClaveDisk, and what it does to the memory of the daemon.
DiskStep == Next /\ (IF pc' = "down" THEN LoseMemory ELSE UNCHANGED ioVars)

WriteVolume ==
  \E caller \in Proc, first \in 0..Sectors, data \in Buffer, aligned \in BOOLEAN :
    Write(caller, first, data, aligned)

-----------------------------------------------------------------------------
\* A read returns, sector by sector, what was last written there in this life of
\* the process, whatever the buffers it was written with (the tweaks of read and
\* write agree for every placement of a buffer, and a write cut short by
\* OutOfRange leaves each sector either old or new); and it returns anything only
\* to a process of the zone, and never once the volume is locked or wiped, in
\* whatever order unlock, lock, wipe, launches and restarts came.
RoundTrip ==
  \A caller \in Proc, first \in 0..Sectors, n \in 1..MaxIO, aligned \in BOOLEAN :
    LET data == Read(caller, first, n, aligned) IN
    data # << >> =>
      /\ \A i \in 1..n : data[i] = written[first + i - 1]
      /\ caller \in supervised /\ cipher /\ key /\ ~marker
=============================================================================
