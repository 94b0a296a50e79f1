------------------------------ MODULE SecretStore ------------------------------
(* aegis/security.py: SecretManager keeps the secrets in memory and in a file,  *)
(* SecurityManager.ensure_audit_key hands out the key of the audit log, from    *)
(* the keyring of the desktop where there is one.  A value is the number of its *)
(* creation.  One call at a time.                                               *)
EXTENDS Naturals

CONSTANTS
  Secret,
  AuditKey,          \* "audit_log_key"
  MaxCreated         \* bound: values created

ASSUME SecretConstants == AuditKey \in Secret /\ MaxCreated \in Nat

VARIABLES
  hasKeyring,        \* the keyring module is installed and works
  access,            \* to the directory of the store: it can be written, it cannot
                     \* be created, or it is there and cannot be written
  keyring,           \* the value the keyring holds for the audit key
  secrets,           \* SecretManager.secrets
  storagePath,       \* the configured path, or the one under /tmp
  stored,            \* path -> what its file holds: nothing, also when it is
                     \* missing or does not parse
  created,
  answer,            \* history: the audit key that was handed out last
  kept,              \* history: there was a keyring then
  rotated,           \* history: since then it was rotated
  lost               \* history: since then a start did not find it as it was

secretVars ==
  <<hasKeyring, access, keyring, secrets, storagePath, stored, created, answer, kept, rotated,
    lost>>

NoValue == 0
NoSecrets == [k \in Secret |-> NoValue]

SecretTypeOK ==
  /\ hasKeyring \in BOOLEAN /\ access \in {"full", "none", "read"}
  /\ created \in 0 .. MaxCreated
  /\ keyring \in 0 .. created /\ answer \in 0 .. created
  /\ secrets \in [Secret -> 0 .. created] /\ storagePath \in {"main", "tmp"}
  /\ stored \in [{"main", "tmp"} -> [Secret -> 0 .. created]]
  /\ kept \in BOOLEAN /\ rotated \in BOOLEAN /\ lost \in BOOLEAN

-------------------------------------------------------------------------------
(* _persist: where the directory cannot be made the path moves to /tmp for the  *)
(* rest of the process.  A write that fails is logged only, and may have cut    *)
(* the file.                                                                    *)
Persist ==
  /\ storagePath' = IF access = "none" THEN "tmp" ELSE storagePath
  /\ \/ access # "read" /\ \E found \in {secrets', NoSecrets} :
          stored' = [stored EXCEPT ![storagePath'] = found]
     \/ UNCHANGED stored

CreateSecret(k) ==
  /\ created < MaxCreated /\ created' = created + 1      \* bound
  /\ secrets' = [secrets EXCEPT ![k] = created'] /\ Persist

RotateSecret(k) ==
  /\ secrets[k] # NoValue /\ CreateSecret(k)
  /\ rotated' = (rotated \/ k = AuditKey)
  /\ UNCHANGED <<hasKeyring, access, keyring, answer, kept, lost>>

HandOut(value) ==
  /\ answer' = value /\ kept' = hasKeyring /\ rotated' = FALSE /\ lost' = FALSE
  /\ UNCHANGED <<hasKeyring, access>>

\* ensure_audit_key looks in the keyring first,
FromKeyring ==
  /\ hasKeyring /\ keyring # NoValue /\ HandOut(keyring)
  /\ UNCHANGED <<keyring, secrets, storagePath, stored, created>>

InKeyring == hasKeyring /\ keyring # NoValue

\* mutant: a stored key is handed out, and not copied to the keyring
FromStoreOnly ==
  /\ ~ InKeyring /\ secrets[AuditKey] # NoValue /\ HandOut(secrets[AuditKey])
  /\ UNCHANGED <<keyring, secrets, storagePath, stored, created>>

\* then among the secrets, which it copies to the keyring,
FromStore ==
  /\ ~ InKeyring /\ secrets[AuditKey] # NoValue /\ HandOut(secrets[AuditKey])
  /\ keyring' = IF hasKeyring THEN secrets[AuditKey] ELSE keyring
  /\ UNCHANGED <<secrets, storagePath, stored, created>>

\* and creates one in the end, for both places.
FromNowhere ==
  /\ ~ InKeyring /\ secrets[AuditKey] = NoValue
  /\ CreateSecret(AuditKey) /\ HandOut(created')
  /\ keyring' = IF hasKeyring THEN created' ELSE keyring

EnsureAuditKey == FromKeyring \/ FromStore \/ FromNowhere

(* A new process reads the configured path, never the one under /tmp; a file    *)
(* that cannot be read counts as empty, and the next secret overwrites it.  By  *)
(* now there may be a keyring, for a store that has its key already.            *)
RestartSecrets ==
  /\ hasKeyring' \in {hasKeyring, TRUE}
  /\ secrets' \in {stored["main"], NoSecrets} /\ storagePath' = "main"
  /\ lost' = (lost \/ secrets'[AuditKey] # secrets[AuditKey])
  /\ UNCHANGED <<access, keyring, stored, created, answer, kept, rotated>>

-------------------------------------------------------------------------------
SecretInit ==
  /\ hasKeyring \in BOOLEAN /\ access \in {"full", "none", "read"}
  /\ keyring = NoValue /\ secrets = NoSecrets /\ storagePath = "main"
  /\ stored = [p \in {"main", "tmp"} |-> NoSecrets]
  /\ created = 0 /\ answer = NoValue /\ kept = FALSE
  /\ rotated = FALSE /\ lost = FALSE

SecretNext ==
  \/ \E k \in Secret :
       \/ RotateSecret(k)
       \/ CreateSecret(k) /\ k # AuditKey
            /\ UNCHANGED <<hasKeyring, access, keyring, answer, kept, rotated, lost>>
  \/ EnsureAuditKey \/ RestartSecrets

SecretSpec == SecretInit /\ [][SecretNext]_secretVars

-------------------------------------------------------------------------------
(* The audit key that is handed out stays the same from one call to the next,   *)
(* unless it was rotated, or it came from the store and that lost it: because a *)
(* write had failed, the path cannot be used, or the file could not be read     *)
(* once; what came with a keyring is not lost that way.  And after a rotation   *)
(* that the store kept another key is handed out, unless the keyring holds one: *)
(* a rotation does not reach the keyring, so then nothing is claimed.           *)
KeyIsStable ==
  [][answer # NoValue =>
       /\ answer' # answer => rotated \/ (lost /\ ~ kept)
       /\ rotated /\ ~ rotated' /\ ~ lost /\ ~ InKeyring => answer' # answer]_secretVars
===============================================================================
