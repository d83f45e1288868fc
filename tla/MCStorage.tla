----------------------------- MODULE MCStorage -----------------------------
(***************************************************************************)
(* The package storage for TLC.  The database file with its migrations and *)
(* the encrypted file share nothing, so TLC looks at one at a time.        *)
(***************************************************************************)
EXTENDS MCMigrations, EncryptedStorage

VARIABLE scene

MCEnvKeys == {-1}

MCInit ==
  /\ Init /\ StorageInit
  /\ scene \in {"schema", "secrets"}
  /\ scene = "schema" => envKey = Absent
  /\ scene = "secrets" => plan = CHOOSE p \in Plans : TRUE

MCNext ==
  /\ \/ scene = "schema" /\ Next /\ UNCHANGED storageVars
     \/ scene = "secrets" /\ StorageNext /\ UNCHANGED vars
  /\ UNCHANGED scene

MCSpec == MCInit /\ [][MCNext]_<<vars, storageVars, scene>>

-----------------------------------------------------------------------------
(* What the code means and does not do: see README.md, "Departures".       *)

(* "GenerateKeyIfMissing": after a start that was killed, or that failed   *)
(* to write the key file, the next one finds a key or makes one.           *)
StartsAgain == keyFile = Short => \E p \in Processes : stage[p] = "save"

(* "Generated new encryption key and saved to file": whoever runs uses the *)
(* key that the next start will find.                                      *)
RunningHasTheKey == \A p \in Processes : stage[p] = "running" => gcm[p] = KeyOfNextStart

=============================================================================
