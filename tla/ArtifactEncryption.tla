------------------------- MODULE ArtifactEncryption -------------------------
(***************************************************************************)
(* encrypt_tree of api/services/artifact_encryption.py: the plaintext files *)
(* of a retained work tree are replaced by ciphertexts.  Phase one writes  *)
(* every ciphertext beside its source (a temporary file renamed into       *)
(* place), phase two removes the sources one by one; an error in either    *)
(* phase is rolled back as far as the file system lets it.                 *)
(*                                                                         *)
(* Any single file operation may fail, and the process may die between two *)
(* of them; a later call starts from the tree that was left.               *)
(***************************************************************************)
CONSTANT Files      \* the artifacts of the tree

VARIABLES
    plain,      \* files whose plaintext is on disk
    cipher,     \* files whose .enc ciphertext is on disk, complete
    phase,      \* what encrypt_tree is doing
    batch,      \* files: the plaintext files this call found
    todo,       \* files of the batch the phase still has to handle
    encrypted,  \* ciphertexts this call made and has not deleted
    removed,    \* sources this call removed and has not restored
    errors,     \* files named in rollback_errors
    outcome     \* how the last call ended

treeVars == <<plain, cipher>>
callVars == <<batch, todo, encrypted, removed, errors>>
encryptionVars == <<treeVars, phase, callVars, outcome>>

Phases == {"idle", "encrypt", "discard", "unlink", "restore", "drop"}

\* none: no call ended since the process started; raised: phase one failed;
\* restored, incomplete: the two errors of phase two.
Outcomes == {"none", "done", "raised", "restored", "incomplete"}

EncryptionTypeOK ==
    /\ plain \subseteq Files
    /\ cipher \subseteq Files
    /\ phase \in Phases
    /\ batch \subseteq Files
    /\ todo \subseteq Files
    /\ encrypted \subseteq Files
    /\ removed \subseteq Files
    /\ errors \subseteq Files
    /\ outcome \in Outcomes

EncryptionInit ==
    /\ plain = Files
    /\ cipher = {}
    /\ phase = "idle"
    /\ batch = {}
    /\ todo = {}
    /\ encrypted = {}
    /\ removed = {}
    /\ errors = {}
    /\ outcome = "none"

-----------------------------------------------------------------------------
Begin ==
    /\ phase = "idle"
    /\ phase' = "encrypt"
    /\ batch' = plain
    /\ todo' = plain
    /\ encrypted' = {}
    /\ removed' = {}
    /\ errors' = {}
    /\ outcome' = "none"
    /\ UNCHANGED treeVars

\* Mutant of Encrypt: encrypt_file is called with delete_source=True and
\* may overwrite what is there.
EncryptDeleting(f) ==
    /\ phase = "encrypt"
    /\ f \in todo \ cipher
    /\ cipher' = cipher \cup {f}
    /\ plain' = plain \ {f}
    /\ encrypted' = encrypted \cup {f}
    /\ todo' = todo \ {f}
    /\ UNCHANGED <<phase, batch, removed, errors, outcome>>

\* encrypt_file(path, delete_source=False)
Encrypt(f) ==
    /\ phase = "encrypt"
    /\ f \in todo \ cipher
    /\ cipher' = cipher \cup {f}
    /\ encrypted' = encrypted \cup {f}
    /\ todo' = todo \ {f}
    /\ UNCHANGED <<plain, phase, batch, removed, errors, outcome>>

\* The destination exists already, or reading, writing or renaming fails.
EncryptFails ==
    /\ phase = "encrypt"
    /\ todo # {}
    /\ phase' = "discard"
    /\ UNCHANGED <<treeVars, callVars, outcome>>

\* unlink errors are ignored here.
Discard(f) ==
    /\ phase = "discard"
    /\ f \in encrypted
    /\ cipher' \in {cipher, cipher \ {f}}
    /\ encrypted' = encrypted \ {f}
    /\ UNCHANGED <<plain, phase, batch, todo, removed, errors, outcome>>

Raised ==
    /\ phase = "discard"
    /\ encrypted = {}
    /\ phase' = "idle"
    /\ outcome' = "raised"
    /\ UNCHANGED <<treeVars, callVars>>

AllEncrypted ==
    /\ phase = "encrypt"
    /\ todo = {}
    /\ phase' = "unlink"
    /\ todo' = batch
    /\ UNCHANGED <<treeVars, batch, encrypted, removed, errors, outcome>>

Unlink(f) ==
    /\ phase = "unlink"
    /\ f \in todo
    /\ plain' = plain \ {f}
    /\ removed' = removed \cup {f}
    /\ todo' = todo \ {f}
    /\ UNCHANGED <<cipher, phase, batch, encrypted, errors, outcome>>

UnlinkFails ==
    /\ phase = "unlink"
    /\ todo # {}
    /\ phase' = "restore"
    /\ UNCHANGED <<treeVars, callVars, outcome>>

Finish ==
    /\ phase = "unlink"
    /\ todo = {}
    /\ phase' = "idle"
    /\ outcome' = "done"
    /\ UNCHANGED <<treeVars, callVars>>

\* _restore_plaintext: the plaintext is back, or the error is noted.
Restore(f) ==
    /\ phase = "restore"
    /\ f \in removed
    /\ removed' = removed \ {f}
    /\ \/ plain' = plain \cup {f} /\ UNCHANGED errors
       \/ errors' = errors \cup {f} /\ UNCHANGED plain
    /\ UNCHANGED <<cipher, phase, batch, todo, encrypted, outcome>>

\* Mutant of Restored: the ciphertexts go even if a plaintext is not back.
RestoredAlways ==
    /\ phase = "restore"
    /\ removed = {}
    /\ phase' = "drop"
    /\ UNCHANGED <<treeVars, callVars, outcome>>

\* if not rollback_errors: remove the generated ciphertexts
Restored ==
    /\ phase = "restore"
    /\ removed = {}
    /\ IF errors # {} THEN phase' = "idle" /\ outcome' = "incomplete"
                 ELSE phase' = "drop" /\ UNCHANGED outcome
    /\ UNCHANGED <<treeVars, callVars>>

\* Mutant of Drop: an unlink error is ignored, as in phase one.
DropSilently(f) ==
    /\ phase = "drop"
    /\ f \in encrypted
    /\ encrypted' = encrypted \ {f}
    /\ cipher' \in {cipher, cipher \ {f}}
    /\ UNCHANGED <<plain, phase, batch, todo, removed, errors, outcome>>

Drop(f) ==
    /\ phase = "drop"
    /\ f \in encrypted
    /\ encrypted' = encrypted \ {f}
    /\ \/ cipher' = cipher \ {f} /\ UNCHANGED errors
       \/ errors' = errors \cup {f} /\ UNCHANGED cipher
    /\ UNCHANGED <<plain, phase, batch, todo, removed, outcome>>

RolledBack ==
    /\ phase = "drop"
    /\ encrypted = {}
    /\ phase' = "idle"
    /\ outcome' = IF errors # {} THEN "incomplete" ELSE "restored"
    /\ UNCHANGED <<treeVars, callVars>>

\* The process dies in the middle of a call.
Crash ==
    /\ phase # "idle"
    /\ phase' = "idle"
    /\ outcome' = "none"
    /\ batch' = {} /\ todo' = {} /\ encrypted' = {} /\ removed' = {}
    /\ errors' = {}
    /\ UNCHANGED treeVars

EncryptionNext ==
    \/ Begin
    \/ \E f \in Files : Encrypt(f) \/ Discard(f) \/ Unlink(f)
                          \/ Restore(f) \/ Drop(f)
    \/ EncryptFails \/ Raised \/ AllEncrypted
    \/ UnlinkFails \/ Finish \/ Restored \/ RolledBack
    \/ Crash

EncryptionSpec == EncryptionInit /\ [][EncryptionNext]_encryptionVars

-----------------------------------------------------------------------------
\* Whatever fails and wherever the process dies, each artifact is on disk as
\* plaintext or as a complete ciphertext.
EvidenceKept == \A f \in Files : f \in plain \/ f \in cipher

\* What encrypt_tree reports is what it left: on success every file of the
\* call is ciphertext only; "plaintext state was restored" means plaintext
\* only; an error of phase one means that no source was touched.
OutcomeIsTrue ==
    /\ outcome = "done"     => batch \cap plain = {} /\ batch \subseteq cipher
    /\ outcome = "restored" => batch \subseteq plain /\ batch \cap cipher = {}
    /\ outcome = "raised"   => batch \subseteq plain

-----------------------------------------------------------------------------
(* The inductive invariant: what each phase knows of its batch.            *)

InEncrypt ==
    phase \in {"encrypt", "discard"} =>
        /\ batch \subseteq plain
        /\ removed = {}

Made == phase = "encrypt" => /\ batch = todo \cup encrypted
                             /\ encrypted \subseteq cipher

InUnlink ==
    phase \in {"unlink", "restore"} =>
        /\ batch = encrypted
        /\ batch \subseteq cipher
        /\ errors = {} => batch \subseteq plain \cup removed

SourcesGone ==
    phase = "unlink" => /\ errors = {}
                        /\ batch \ todo \subseteq removed
                        /\ removed \cap plain = {}

InDrop ==
    phase = "drop" =>
        /\ batch \subseteq plain
        /\ errors = {} => batch \cap cipher \subseteq encrypted

WithinBatch ==
    /\ todo \subseteq batch
    /\ encrypted \subseteq batch
    /\ removed \subseteq batch

EncryptionInv ==
    /\ EncryptionTypeOK
    /\ WithinBatch
    /\ EvidenceKept
    /\ OutcomeIsTrue
    /\ InEncrypt
    /\ Made
    /\ InUnlink
    /\ SourcesGone
    /\ InDrop
    /\ phase = "encrypt" => errors = {}
    /\ phase # "idle" => outcome = "none"
=============================================================================
