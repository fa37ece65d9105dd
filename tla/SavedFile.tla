----------------------------- MODULE SavedFile -----------------------------
(***************************************************************************)
(* A document in memory and the file it is saved to, when the savers do    *)
(* not exclude each other: each encodes the document, then writes the file *)
(* (FileWrites), and another may be anywhere in between.                   *)
(***************************************************************************)
EXTENDS FileWrites

CONSTANT Writers
VARIABLES
  memory, file,
  phase,    \* of each writer: "idle", "save" (about to), "encoded", "emptied", or its caller's
  draft,    \* what each writer is to write, Empty if nothing
  unsure    \* ghost: since a save last began with no other under way, one overlapped it or failed

Saving(w) == phase[w] \in {"encoded", "emptied"}

Encode(w) ==
  /\ phase[w] = "save"
  /\ draft' = [draft EXCEPT ![w] = memory]
  /\ phase' = [phase EXCEPT ![w] = "encoded"]
  /\ unsure' = \E v \in Writers \ {w} : Saving(v)
  /\ UNCHANGED <<memory, file>>

Truncate(w) ==
  /\ phase[w] = "encoded"
  /\ file' = Empty
  /\ phase' = [phase EXCEPT ![w] = "emptied"]
  /\ UNCHANGED <<memory, draft, unsure>>

Fill(w) ==
  /\ phase[w] = "emptied"
  /\ file' \in WrittenOver(file, draft[w])
  /\ phase' = [phase EXCEPT ![w] = "idle"]
  /\ draft' = [draft EXCEPT ![w] = Empty]
  /\ UNCHANGED <<memory, unsure>>

\* The file cannot be opened, or the disk is full.
WriteFails(w) ==
  /\ Saving(w)
  /\ file' \in IF phase[w] = "encoded" THEN {file} ELSE WriteCut(file)
  /\ phase' = [phase EXCEPT ![w] = "idle"]
  /\ draft' = [draft EXCEPT ![w] = Empty]
  /\ unsure' = TRUE
  /\ UNCHANGED memory

SaveStep(w) == Encode(w) \/ Truncate(w) \/ Fill(w) \/ WriteFails(w)

\* At rest the file holds the document, unless a save overlapped another or failed.
Backed == (\A w \in Writers : phase[w] = "idle") /\ ~unsure => file = memory
=============================================================================
