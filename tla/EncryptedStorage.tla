-------------------------- MODULE EncryptedStorage --------------------------
(***************************************************************************)
(* internal/storage/encryption.go: a bolt file whose values are sealed     *)
(* with one key, which is found in the environment, or in a key file, or   *)
(* is drawn and written to that file by the first start.                   *)
(*                                                                         *)
(* Every look at a file is a step: processes that start at once, or are    *)
(* killed between two steps, meet what the others left.  Bolt commits      *)
(* durably and lets one process have its file, the others wait (Timeout    *)
(* 0); os.WriteFile cuts the key file, then writes it, and never syncs it. *)
(* Keys are numbers, a drawn key is a new one.  Nothing in the program     *)
(* opens such a storage yet: a process here is whatever does.              *)
(***************************************************************************)
EXTENDS Integers

CONSTANTS
  Processes,  \* processes that open the storage
  Entries,    \* bucket and key of what is stored
  EnvKeys,    \* keys that KeyFromEnv may hold, the same at every start
  MaxDrawn,   \* bound: keys drawn
  Absent,     \* no key, no value, no process
  Missing,    \* a key file that is not there
  Short       \* one that does not hold 32 bytes

ASSUME StorageAssumption ==
  /\ EnvKeys \subseteq Int \ Nat /\ MaxDrawn \in Nat
  /\ Absent \notin Processes
  /\ {Absent, Missing, Short} \cap Int = {} /\ Missing # Short

VARIABLES
  envKey,   \* what the variable KeyFromEnv names holds
  keyFile,  \* the key file: Missing, Short, or the key it holds
  synced,   \* whether the key file has reached the disk
  sealed,   \* the key that each entry is sealed with, Absent when there is none
  holder,   \* the process that has the bolt file
  stage,    \* where each process is
  gcm,      \* the key each process seals and opens with
  drawn,    \* keys drawn so far
  raced,    \* history: a start drew a key that it no longer had to draw
  lost      \* history: the power failed before the key file was on the disk

storageVars == <<envKey, keyFile, synced, sealed, holder, stage, gcm, drawn, raced, lost>>

Keys == EnvKeys \cup 1..MaxDrawn

StorageTypeOK ==
  /\ envKey \in EnvKeys \cup {Absent}
  /\ keyFile \in {Missing, Short} \cup 1..MaxDrawn
  /\ synced \in BOOLEAN
  /\ sealed \in [Entries -> Keys \cup {Absent}]
  /\ holder \in Processes \cup {Absent}
  /\ stage \in [Processes -> {"off", "draw", "read", "save", "open", "running"}]
  /\ gcm \in [Processes -> Keys \cup {Absent}]
  /\ drawn \in 0..MaxDrawn
  /\ raced \in BOOLEAN /\ lost \in BOOLEAN

StorageInit ==
  /\ envKey \in EnvKeys \cup {Absent}
  /\ keyFile = Missing /\ synced = TRUE
  /\ sealed = [e \in Entries |-> Absent]
  /\ holder = Absent
  /\ stage = [p \in Processes |-> "off"]
  /\ gcm = [p \in Processes |-> Absent]
  /\ drawn = 0 /\ raced = FALSE /\ lost = FALSE

Enter(p, s) == stage' = [stage EXCEPT ![p] = s]
UseKey(p, key) == gcm' = [gcm EXCEPT ![p] = key]

\* The process ends, or its NewEncryptedStorage returns an error.
Leave(p) ==
  /\ Enter(p, "off") /\ UseKey(p, Absent)
  /\ holder' = IF holder = p THEN Absent ELSE holder

-----------------------------------------------------------------------------
(* NewEncryptedStorage.                                                    *)

\* The environment first, then the key file when os.Stat finds one.
LoadOrGenerateKey(p) ==
  /\ stage[p] = "off"
  /\ IF envKey # Absent THEN UseKey(p, envKey) /\ Enter(p, "open")
     ELSE /\ Enter(p, IF keyFile = Missing THEN "draw" ELSE "read")
          /\ UNCHANGED gcm
  /\ UNCHANGED <<envKey, keyFile, synced, sealed, holder, drawn, raced, lost>>

\* A key that is not 32 bytes is an error, and stays one.
ReadKeyFile(p) ==
  /\ stage[p] = "read"
  /\ IF keyFile \in Nat THEN UseKey(p, keyFile) /\ Enter(p, "open") /\ UNCHANGED holder
                        ELSE Leave(p)
  /\ UNCHANGED <<envKey, keyFile, synced, sealed, drawn, raced, lost>>

\* WriteFile opens the file, and so cuts it to nothing.
GenerateKey(p) ==
  /\ stage[p] = "draw" /\ drawn < MaxDrawn
  /\ drawn' = drawn + 1 /\ UseKey(p, drawn')
  /\ keyFile' = Short /\ synced' = FALSE
  /\ raced' = (raced \/ keyFile # Missing)
  /\ Enter(p, "save")
  /\ UNCHANGED <<envKey, sealed, holder, lost>>

\* Mutant: a key that cannot be saved is used all the same.
SaveKey_IgnoresFailure(p) ==
  /\ stage[p] = "save"
  /\ keyFile' \in {keyFile, gcm[p]} /\ Enter(p, "open")
  /\ UNCHANGED <<envKey, synced, sealed, holder, gcm, drawn, raced, lost>>

SaveKey(p) ==
  /\ stage[p] = "save"
  /\ \/ keyFile' = gcm[p] /\ Enter(p, "open") /\ UNCHANGED <<holder, gcm>>
     \/ Leave(p) /\ UNCHANGED keyFile
  /\ UNCHANGED <<envKey, synced, sealed, drawn, raced, lost>>

OpenBolt(p) ==
  /\ stage[p] = "open" /\ holder = Absent
  /\ holder' = p /\ Enter(p, "running")
  /\ UNCHANGED <<envKey, keyFile, synced, sealed, gcm, drawn, raced, lost>>

-----------------------------------------------------------------------------
(* The storage in use.  Retrieve and List change nothing.                  *)

Store(p) ==
  /\ stage[p] = "running"
  /\ \E e \in Entries : sealed' = [sealed EXCEPT ![e] = gcm[p]]
  /\ UNCHANGED <<envKey, keyFile, synced, holder, stage, gcm, drawn, raced, lost>>

Remove(p) ==
  /\ stage[p] = "running"
  /\ \E e \in Entries : sealed' = [sealed EXCEPT ![e] = Absent]
  /\ UNCHANGED <<envKey, keyFile, synced, holder, stage, gcm, drawn, raced, lost>>

\* Close, an error on the way, or the end of the process: bolt's lock goes too.
EndProcess(p) ==
  /\ stage[p] # "off"
  /\ Leave(p)
  /\ UNCHANGED <<envKey, keyFile, synced, sealed, drawn, raced, lost>>

-----------------------------------------------------------------------------
\* The kernel writes the key file back.
Sync ==
  /\ ~synced /\ synced' = TRUE
  /\ UNCHANGED <<envKey, keyFile, sealed, holder, stage, gcm, drawn, raced, lost>>

\* What was never synced may be lost; a file just made may be lost whole.
PowerFails ==
  /\ lost' = (lost \/ ~synced)
  /\ stage' = [p \in Processes |-> "off"] /\ gcm' = [p \in Processes |-> Absent]
  /\ holder' = Absent
  /\ keyFile' \in IF synced THEN {keyFile} ELSE {keyFile, Short, Missing}
  /\ synced' = TRUE
  /\ UNCHANGED <<envKey, sealed, drawn, raced>>

StorageNext ==
  \/ \E p \in Processes :
       \/ LoadOrGenerateKey(p) \/ ReadKeyFile(p) \/ GenerateKey(p) \/ SaveKey(p) \/ OpenBolt(p)
       \/ Store(p) \/ Remove(p) \/ EndProcess(p)
  \/ Sync \/ PowerFails

StorageSpec == StorageInit /\ [][StorageNext]_storageVars

-----------------------------------------------------------------------------
\* The key of a start that finds one.
KeyOfNextStart == IF envKey # Absent THEN envKey ELSE keyFile

(* Everything that is stored can be opened by the next start, wherever     *)
(* processes were killed and writes of the key file failed, and while      *)
(* another process is starting: unless two starts both found that the key  *)
(* file was missing, or the power failed before that file was on the disk. *)
StoredIsReadable ==
  raced \/ lost \/ \A e \in Entries : sealed[e] \in {Absent, KeyOfNextStart}

=============================================================================
