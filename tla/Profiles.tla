------------------------------ MODULE Profiles ------------------------------
(***************************************************************************)
(* The profiles and their JSON file (internal/account/manager.go), with    *)
(* the API's profile and archive requests.  Every method holds the mutex   *)
(* for its whole body, the save included, so each is one action; memory is *)
(* changed before the save, which may fail.  The archives imported are     *)
(* those the export wrote.  A profile is its id, its platform and channel, *)
(* and whether it is active; Update has no caller.                         *)
(***************************************************************************)
EXTENDS Naturals, Sequences, FiniteSets, SequencesExt, FileWrites

CONSTANTS
  Ids,          \* what generateID may return: random, of eight bytes
  Targets,      \* platform/channel pairs
  MaxProfiles   \* bound on the list

\* There are always ids that neither the list nor the archive has.
ASSUME ProfilesAssumption ==
  /\ MaxProfiles \in Nat \ {0}
  /\ IsFiniteSet(Ids) /\ Cardinality(Ids) > 2 * MaxProfiles

VARIABLES
  profiles,     \* Manager.profiles
  profilesFile, \* the file: a list, or what no reader understands
  managed,      \* main has a manager: the file could be read
  archive,      \* the profiles of the last config.export
  unread        \* ghost: the last start met a file it could not read

profileVars == <<profiles, profilesFile, managed, archive, unread>>

Profile == [id : Ids, target : Targets, active : BOOLEAN]
Lists == BoundedSeq(Profile, MaxProfiles)

ProfilesTypeOK ==
  /\ profiles \in Lists /\ archive \in Lists
  /\ profilesFile \in Lists \cup Unreadable
  /\ managed \in BOOLEAN /\ unread \in BOOLEAN

\* No file yet: an empty list.
ProfilesInit ==
  /\ profiles = <<>> /\ profilesFile = <<>> /\ managed = TRUE /\ archive = <<>>
  /\ unread = FALSE

IdsOf(list) == {list[i].id : i \in DOMAIN list}
\* generateID: random, never seen before.
FreshId == CHOOSE x \in Ids : x \notin IdsOf(profiles) \cup IdsOf(archive)
NewProfile(target) == [id |-> FreshId, target |-> target, active |-> FALSE]

\* Mutant: the clone keeps the active mark of its original.
Clone_KeepsActive(p) == [p EXCEPT !.id = FreshId]

Clone(p) == [p EXCEPT !.id = FreshId, !.active = FALSE]

\* Every change ends in Manager.save, which may fail with memory changed already.
Change(list) ==
  /\ managed /\ Len(list) <= MaxProfiles
  /\ profiles' = list
  /\ profilesFile' \in {list} \cup WriteCut(profilesFile)
  /\ UNCHANGED <<managed, archive, unread>>

Create(target) ==
  /\ \A i \in DOMAIN profiles : profiles[i].target # target
  /\ Change(Append(profiles, NewProfile(target)))

\* The filter drops the one profile that has the id.
Delete(id) ==
  \E i \in DOMAIN profiles :
    profiles[i].id = id /\ Change(RemoveAt(profiles, i))

\* Mutant: the others stay as they are.
Activated_OnlySets(id) ==
  [i \in DOMAIN profiles |-> IF profiles[i].id = id
                             THEN [profiles[i] EXCEPT !.active = TRUE] ELSE profiles[i]]

Activated(id) ==
  [i \in DOMAIN profiles |-> [profiles[i] EXCEPT !.active = (profiles[i].id = id)]]

\* SetActive; an id that is not there deactivates all, in memory only.
SetActive(id) ==
  \/ id \in IdsOf(profiles) /\ Change(Activated(id))
  \/ /\ managed /\ id \notin IdsOf(profiles)
     /\ profiles' = Activated(id)
     /\ UNCHANGED <<profilesFile, managed, archive, unread>>

\* Duplicate does not look at the target.
Duplicate(id) ==
  \E i \in DOMAIN profiles :
    /\ profiles[i].id = id /\ \A j \in 1..(i - 1) : profiles[j].id # id
    /\ Change(Append(profiles, Clone(profiles[i])))

\* config.export takes the list as it is in memory.
ExportArchive ==
  /\ managed /\ archive' = profiles
  /\ UNCHANGED <<profiles, profilesFile, managed, unread>>

\* Mutant: conflicting ids are kept.
Imported_KeepsIds(list) == [i \in DOMAIN list |-> [list[i] EXCEPT !.active = FALSE]]

\* What Import makes of a list: an id that was there before the import gets a
\* new one (another for each), nothing is active.
Imported(list) ==
  LET old == {i \in DOMAIN list : list[i].id \in IdsOf(profiles)}
      new == CHOOSE f \in [old -> Ids \ (IdsOf(profiles) \cup IdsOf(list))] : IsInjective(f)
  IN [i \in DOMAIN list |-> [list[i] EXCEPT !.active = FALSE,
                                           !.id = IF i \in old THEN new[i] ELSE @]]

\* config.import of the archive: appended, no look at the targets.
ImportArchive ==
  /\ Len(profiles) + Len(archive) <= MaxProfiles
  /\ Change(profiles \o Imported(archive))

\* Mutant: a file that cannot be read is taken for an empty list.
LoadProfiles_AnyFile ==
  /\ profiles' = IF profilesFile \in Unreadable THEN <<>> ELSE profilesFile
  /\ managed' = TRUE /\ unread' = (profilesFile \in Unreadable)
  /\ UNCHANGED <<profilesFile, archive>>

\* The program starts again, after a crash or a shutdown: NewManager fails on a
\* file it cannot parse, main goes on without a manager, and the requests fail.
LoadProfiles ==
  /\ profiles' = IF profilesFile \in Unreadable THEN <<>> ELSE profilesFile
  /\ managed' = (profilesFile \notin Unreadable) /\ unread' = ~managed'
  /\ UNCHANGED <<profilesFile, archive>>

ProfilesNext ==
  \/ \E target \in Targets : Create(target)
  \/ \E id \in Ids : Delete(id) \/ SetActive(id) \/ Duplicate(id)
  \/ ExportArchive \/ ImportArchive \/ LoadProfiles

-----------------------------------------------------------------------------
\* In memory and in the file no two profiles have one id, and at most one is
\* active: GetActive, by which main takes the platform, has no choice to make.
OneActive(list) ==
  \A i, j \in DOMAIN list : i # j => /\ list[i].id # list[j].id
                                   /\ ~(list[i].active /\ list[j].active)
ProfilesSafe ==
  OneActive(profiles) /\ (profilesFile \notin Unreadable => OneActive(profilesFile))

\* A file that could not be read at the start is left for its owner to mend: no
\* request of that process overwrites it.
UnreadFileKept == [][unread => profilesFile' = profilesFile]_profileVars
=============================================================================
