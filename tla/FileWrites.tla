----------------------------- MODULE FileWrites -----------------------------
(***************************************************************************)
(* What os.WriteFile, which every store of the program saves with, does to *)
(* a file: it empties the file, then writes from its start.  Nothing makes *)
(* the two one step, for a crash or for another writer.                    *)
(***************************************************************************)
CONSTANTS Empty, Torn   \* contents that no reader can make sense of

Unreadable == {Empty, Torn}

\* What is in the file once doc is written over what is there: a longer
\* content that came in between shows behind the end of doc.
WrittenOver(content, doc) == IF content = Empty THEN {doc} ELSE {doc, Torn}

\* A write that fails, or a process that dies in it, leaves the file as it was,
\* empty or cut off.
WriteCut(content) == {content} \cup Unreadable
=============================================================================
