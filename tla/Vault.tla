------------------------------- MODULE Vault -------------------------------
(***************************************************************************)
(* The encrypted store of tokens (internal/vault), which no part of the    *)
(* program opens yet.  A change holds the lock and lets it go before Save, *)
(* which takes it again only to encode: two callers may write the file at  *)
(* once.  The key is derived from the passphrase and a salt when the vault *)
(* is opened, and again from the salt in the file's header at the next     *)
(* opening; Save writes a new random salt there and keeps the key.         *)
(***************************************************************************)
EXTENDS Naturals, Sequences, SequencesExt, FileWrites

CONSTANTS
  VaultUsers,   \* goroutines that call the vault's methods
  Secrets,      \* token ids
  MaxEntries,   \* bound: entries of one id
  NoVault       \* no file

ASSUME VaultAssumption == MaxEntries \in Nat \ {0}

VARIABLES
  secrets,      \* the data in memory, see Contents
  vaultFile,    \* no file, an unreadable one, or the data in it
  saltFits,     \* the header's salt gives the key the data is encrypted with
  vaultPhase, vaultDraft, vaultUnsure,   \* see SavedFile
  vaultOpen

vaultVars == <<secrets, vaultFile, saltFits, vaultPhase, vaultDraft, vaultUnsure, vaultOpen>>

\* The validity flags of each id's entries, in the order of the list: nothing
\* keeps two entries from having one id.  How ids alternate is left out.
Contents == [Secrets -> BoundedSeq(BOOLEAN, MaxEntries)]

VaultTypeOK ==
  /\ secrets \in Contents
  /\ vaultFile \in Contents \cup Unreadable \cup {NoVault}
  /\ saltFits \in BOOLEAN
  /\ vaultPhase \in [VaultUsers -> {"idle", "save", "encoded", "emptied"}]
  /\ vaultDraft \in [VaultUsers -> Contents \cup {Empty}]
  /\ vaultUnsure \in BOOLEAN /\ vaultOpen \in BOOLEAN

VFile == INSTANCE SavedFile WITH Writers <- VaultUsers, memory <- secrets,
           file <- vaultFile, phase <- vaultPhase, draft <- vaultDraft,
           unsure <- vaultUnsure

Nothing == [s \in Secrets |-> <<>>]

VaultInit ==
  /\ secrets = Nothing /\ vaultFile = NoVault /\ saltFits = FALSE
  /\ vaultPhase = [u \in VaultUsers |-> "idle"]
  /\ vaultDraft = [u \in VaultUsers |-> Empty]
  /\ vaultUnsure = FALSE /\ vaultOpen = FALSE

\* Open: without a file a new vault is saved under the salt of its key; data is
\* decrypted only if the salt in the header gives the key.  What fails changes
\* nothing (a new vault's failed save aside, which RemoveVault undoes).
OpenVault ==
  /\ ~vaultOpen /\ vaultOpen' = TRUE
  /\ \/ /\ vaultFile = NoVault
        /\ secrets' = Nothing /\ vaultFile' = Nothing /\ saltFits' = TRUE
     \/ /\ vaultFile \in Contents /\ saltFits
        /\ secrets' = vaultFile /\ UNCHANGED <<vaultFile, saltFits>>
  /\ vaultUnsure' = FALSE
  /\ UNCHANGED <<vaultPhase, vaultDraft>>

\* A caller changes the data under the lock and goes on to Save.
Changed(u, data) ==
  /\ vaultOpen /\ vaultPhase[u] = "idle"
  /\ secrets' = data
  /\ vaultPhase' = [vaultPhase EXCEPT ![u] = "save"]
  /\ UNCHANGED <<vaultFile, saltFits, vaultDraft, vaultUnsure, vaultOpen>>

\* AddToken appends, whether the id is there or not.
AddSecret(u) ==
  \E s \in Secrets, valid \in BOOLEAN :
    /\ Len(secrets[s]) < MaxEntries                           \* bound
    /\ Changed(u, [secrets EXCEPT ![s] = Append(@, valid)])

\* RemoveToken drops every entry of the id.
RemoveSecret(u) ==
  \E s \in Secrets : Changed(u, [secrets EXCEPT ![s] = <<>>])

\* SetTokenValidity stops at the first entry of the id; without one it saves all
\* the same.
SetValidity(u) ==
  \E s \in Secrets, valid \in BOOLEAN :
    Changed(u, [secrets EXCEPT ![s] = IF @ = <<>> THEN @ ELSE ReplaceAt(@, 1, valid)])

\* Mutant: a save is left to the one that is under way.
SaveVault_Skips(u) ==
  \/ /\ VFile!SaveStep(u)
     /\ saltFits' = (saltFits /\ vaultFile' = vaultFile)
     /\ UNCHANGED vaultOpen
  \/ /\ vaultPhase[u] = "save" /\ \E v \in VaultUsers : VFile!Saving(v)
     /\ vaultPhase' = [vaultPhase EXCEPT ![u] = "idle"]
     /\ UNCHANGED <<secrets, vaultFile, saltFits, vaultDraft, vaultUnsure, vaultOpen>>

\* Save and save.  What is written has a salt the key was not derived from.
SaveVault(u) ==
  /\ VFile!SaveStep(u)
  /\ saltFits' = (saltFits /\ vaultFile' = vaultFile)
  /\ UNCHANGED vaultOpen

\* The program ends, perhaps in the middle of a save.
VaultCrash ==
  /\ vaultOpen /\ vaultOpen' = FALSE
  /\ vaultPhase' = [u \in VaultUsers |-> "idle"]
  /\ vaultDraft' = [u \in VaultUsers |-> Empty]
  /\ vaultFile' \in {vaultFile} \cup
       (IF \E u \in VaultUsers : vaultPhase[u] = "emptied" THEN Unreadable ELSE {})
  /\ UNCHANGED <<secrets, saltFits, vaultUnsure>>

\* Somebody removes a file that cannot be opened.
RemoveVault ==
  /\ ~vaultOpen /\ vaultFile # NoVault /\ vaultFile' = NoVault
  /\ UNCHANGED <<secrets, saltFits, vaultPhase, vaultDraft, vaultUnsure, vaultOpen>>

VaultNext ==
  \/ OpenVault \/ VaultCrash \/ RemoveVault
  \/ \E u \in VaultUsers :
       AddSecret(u) \/ RemoveSecret(u) \/ SetValidity(u) \/ SaveVault(u)

-----------------------------------------------------------------------------
\* However the callers interleave, it takes two saves at once or a failed save to
\* leave the vault's file without what its memory holds.
VaultBacked == vaultOpen => VFile!Backed
=============================================================================
