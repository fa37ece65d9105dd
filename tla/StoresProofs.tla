---------------------------- MODULE StoresProofs ----------------------------
(***************************************************************************)
(* Theorems about the stores: the profiles (Profiles), the configuration   *)
(* (AppConfig), the vault (Vault) and the tables of sessions (Sessions),   *)
(* each for every value of its constants; then about their composition,    *)
(* MCStores, which is model-checked.                                       *)
(***************************************************************************)
EXTENDS MCStores, FiniteSetTheorems, FunctionTheorems, SequenceTheorems, TLAPS

-----------------------------------------------------------------------------
(* Profiles: lists, and what the requests make of them.                      *)

\* A list is a sequence of profiles that is not too long.
LEMMA ListsAre ==
  \A list : list \in Lists <=> list \in Seq(Profile) /\ Len(list) \in 0..MaxProfiles
<1> SUFFICES ASSUME NEW list
             PROVE  list \in Lists <=> list \in Seq(Profile) /\ Len(list) \in 0..MaxProfiles
    OBVIOUS
<1>1. ASSUME list \in Lists PROVE list \in Seq(Profile) /\ Len(list) \in 0..MaxProfiles
  <2>1. PICK m \in 0..MaxProfiles : list \in [1..m -> Profile]
        BY <1>1 DEF Lists, BoundedSeq, SeqOf
  <2> QED
    BY <2>1, ProfilesAssumption DEF ProfilesAssumption
<1>2. ASSUME list \in Seq(Profile), Len(list) \in 0..MaxProfiles PROVE list \in Lists
      BY <1>2 DEF Lists, BoundedSeq, SeqOf
<1> QED
  BY <1>1, <1>2

\* The ids of a list are no more than its length.
LEMMA FewIds ==
  ASSUME NEW list \in Seq(Profile)
  PROVE  IdsOf(list) \subseteq Ids /\ IsFiniteSet(IdsOf(list)) /\ Cardinality(IdsOf(list)) <= Len(list)
<1>1. IdsOf(list) \subseteq Ids
  <2>1. \A i \in DOMAIN list : list[i] \in Profile
        OBVIOUS
  <2>2. \A p \in Profile : p.id \in Ids
        BY DEF Profile
  <2> QED
    BY <2>1, <2>2 DEF IdsOf
<1>2. IsFiniteSet(DOMAIN list) /\ Cardinality(DOMAIN list) = Len(list)
  <2>1. DOMAIN list = 1..Len(list) /\ Len(list) \in Nat
        OBVIOUS
  <2> QED
    BY <2>1, FS_Interval
<1>3. [i \in DOMAIN list |-> list[i].id] \in Surjection(DOMAIN list, IdsOf(list))
      BY DEF Surjection, IdsOf
<1> QED
  BY <1>1, <1>2, <1>3, FS_Surjection

\* As many ids as a list and an archive may use leave others.
LEMMA IdsAreLeft ==
  ASSUME NEW used \in SUBSET Ids, NEW n \in Nat, IsFiniteSet(used), Cardinality(used) <= n
  PROVE  IsFiniteSet(Ids \ used) /\ Cardinality(Ids \ used) >= Cardinality(Ids) - n
<1>1. IsFiniteSet(Ids) /\ Cardinality(Ids) \in Nat
      BY ProfilesAssumption, FS_CardinalityType DEF ProfilesAssumption
<1>2. IsFiniteSet(Ids \ used) /\ Cardinality(Ids \ used) = Cardinality(Ids) - Cardinality(Ids \cap used)
      BY <1>1, FS_Difference
<1>3. Ids \cap used = used /\ Cardinality(used) \in Nat
      BY FS_CardinalityType
<1> QED
  BY <1>1, <1>2, <1>3

LEMMA SomeFreshId ==
  ASSUME profiles \in Lists, archive \in Lists
  PROVE  FreshId \in Ids /\ FreshId \notin IdsOf(profiles) /\ FreshId \notin IdsOf(archive)
<1> DEFINE used == IdsOf(profiles) \cup IdsOf(archive)
<1>1. /\ profiles \in Seq(Profile) /\ Len(profiles) \in 0..MaxProfiles
      /\ archive \in Seq(Profile) /\ Len(archive) \in 0..MaxProfiles
      BY ListsAre
<1>2. /\ used \subseteq Ids /\ IsFiniteSet(used)
      /\ Cardinality(used) <= Cardinality(IdsOf(profiles)) + Cardinality(IdsOf(archive))
  <2>1. /\ IsFiniteSet(IdsOf(profiles)) /\ IsFiniteSet(IdsOf(archive))
        /\ IdsOf(profiles) \subseteq Ids /\ IdsOf(archive) \subseteq Ids
        BY <1>1, FewIds
  <2>2. /\ IsFiniteSet(used)
        /\ Cardinality(used) = Cardinality(IdsOf(profiles)) + Cardinality(IdsOf(archive))
                               - Cardinality(IdsOf(profiles) \cap IdsOf(archive))
        BY <2>1, FS_Union
  <2>3. IsFiniteSet(IdsOf(profiles) \cap IdsOf(archive))
        BY <2>1, FS_Intersection
  <2>4. /\ Cardinality(IdsOf(profiles)) \in Nat /\ Cardinality(IdsOf(archive)) \in Nat
        /\ Cardinality(IdsOf(profiles) \cap IdsOf(archive)) \in Nat
        BY <2>1, <2>3, FS_CardinalityType
  <2> QED
    BY <2>1, <2>2, <2>4
<1>3. Cardinality(used) <= 2 * MaxProfiles
  <2>1. /\ Cardinality(IdsOf(profiles)) <= Len(profiles) /\ Cardinality(IdsOf(profiles)) \in Nat
        /\ Cardinality(IdsOf(archive)) <= Len(archive) /\ Cardinality(IdsOf(archive)) \in Nat
        BY <1>1, FewIds, FS_CardinalityType
  <2>2. Cardinality(used) \in Nat
        BY <1>2, FS_CardinalityType
  <2> QED
    BY <1>1, <1>2, <2>1, <2>2, ProfilesAssumption DEF ProfilesAssumption
<1>4. Ids \ used # {}
  <2>1. Cardinality(Ids \ used) >= Cardinality(Ids) - 2 * MaxProfiles
        BY <1>2, <1>3, IdsAreLeft, ProfilesAssumption DEF ProfilesAssumption
  <2>2. Cardinality(Ids) \in Nat
        BY ProfilesAssumption, FS_CardinalityType DEF ProfilesAssumption
  <2>3. Cardinality(Ids \ used) # 0
        BY <2>1, <2>2, ProfilesAssumption DEF ProfilesAssumption
  <2> QED
    BY <2>3, FS_EmptySet
<1> QED
  BY <1>4 DEF FreshId

\* A set that is not larger than another has an injection into it.
LEMMA InjectionExists ==
  ASSUME NEW S, NEW T, IsFiniteSet(S), IsFiniteSet(T), Cardinality(S) <= Cardinality(T)
  PROVE  \E f \in [S -> T] : IsInjective(f)
<1> DEFINE n == Cardinality(S)
           m == Cardinality(T)
<1>1. n \in Nat /\ m \in Nat /\ n <= m
      BY FS_CardinalityType
<1>2. ExistsBijection(1..n, S) /\ ExistsBijection(1..m, T)
      BY FS_CardinalityType
<1> HIDE DEF n, m
<1>3. PICK b \in Bijection(1..n, S) : TRUE
      BY <1>2 DEF ExistsBijection
<1>4. PICK c \in Bijection(1..m, T) : TRUE
      BY <1>2 DEF ExistsBijection
<1>5. /\ b \in [1..n -> S] /\ \A x \in S : \E i \in 1..n : b[i] = x
      /\ c \in [1..m -> T] /\ \A i, j \in 1..m : c[i] = c[j] => i = j
      BY <1>3, <1>4, Fun_BijectionProperties DEF Bijection, Injection, Surjection, IsInjective
<1> DEFINE at(x) == CHOOSE i \in 1..n : b[i] = x
           f == [x \in S |-> c[at(x)]]
<1>6. \A x \in S : at(x) \in 1..n /\ b[at(x)] = x
      BY <1>5
<1>7. 1..n \subseteq 1..m
      BY <1>1
<1>8. f \in [S -> T]
      BY <1>5, <1>6, <1>7
<1>9. ASSUME NEW x \in S, NEW y \in S, f[x] = f[y] PROVE x = y
  <2>1. at(x) = at(y)
        BY <1>5, <1>6, <1>7, <1>9
  <2> QED
    BY <1>6, <2>1
<1> QED
  BY <1>8, <1>9 DEF IsInjective

\* A new profile, with an id of its own and not active, keeps the list as it must be.
LEMMA AppendKeeps ==
  ASSUME NEW list \in Seq(Profile), OneActive(list),
         NEW p \in Profile, p.id \notin IdsOf(list), ~p.active
  PROVE  Append(list, p) \in Seq(Profile) /\ OneActive(Append(list, p))
<1> DEFINE longer == Append(list, p)
<1>1. /\ longer \in Seq(Profile) /\ Len(longer) = Len(list) + 1
      /\ \A i \in 1..Len(list) : longer[i] = list[i]
      /\ longer[Len(list) + 1] = p
      BY AppendProperties
<1>2. DOMAIN longer = 1..(Len(list) + 1) /\ DOMAIN list = 1..Len(list) /\ Len(list) \in Nat
      BY <1>1
<1>3. \A i \in DOMAIN list : list[i].id # p.id
      BY DEF IdsOf
<1> HIDE DEF longer
<1>4. \A i \in DOMAIN longer : i \in DOMAIN list \/ (i = Len(list) + 1 /\ i \notin DOMAIN list)
      BY <1>2
<1>5. OneActive(longer)
      BY <1>1, <1>2, <1>3, <1>4 DEF OneActive
<1> QED
  BY <1>1, <1>5 DEF longer

\* So does a profile less.
LEMMA RemoveKeeps ==
  ASSUME NEW list \in Seq(Profile), OneActive(list), NEW i \in DOMAIN list
  PROVE  RemoveAt(list, i) \in Seq(Profile) /\ OneActive(RemoveAt(list, i))
<1> DEFINE less == RemoveAt(list, i)
<1>1. i \in 1..Len(list) /\ Len(list) \in Nat /\ DOMAIN list = 1..Len(list)
      OBVIOUS
<1>2. /\ SubSeq(list, 1, i - 1) \in Seq(Profile) /\ Len(SubSeq(list, 1, i - 1)) = i - 1
      /\ \A j \in 1..(i - 1) : SubSeq(list, 1, i - 1)[j] = list[j]
      BY <1>1, SubSeqProperties
<1>3. /\ SubSeq(list, i + 1, Len(list)) \in Seq(Profile)
      /\ Len(SubSeq(list, i + 1, Len(list))) = Len(list) - i
      /\ \A j \in 1..(Len(list) - i) : SubSeq(list, i + 1, Len(list))[j] = list[i + j]
      BY <1>1, SubSeqProperties
<1>4. /\ less \in Seq(Profile) /\ Len(less) = Len(list) - 1
      /\ \A j \in 1..(Len(list) - 1) : less[j] = list[IF j < i THEN j ELSE j + 1]
  <2> DEFINE before == SubSeq(list, 1, i - 1)
             after == SubSeq(list, i + 1, Len(list))
  <2>1. less = before \o after
        BY DEF RemoveAt
  <2> HIDE DEF before, after, less
  <2>2. /\ before \in Seq(Profile) /\ Len(before) = i - 1
        /\ after \in Seq(Profile) /\ Len(after) = Len(list) - i
        /\ \A j \in 1..(i - 1) : before[j] = list[j]
        /\ \A j \in 1..(Len(list) - i) : after[j] = list[i + j]
        BY <1>2, <1>3 DEF before, after
  <2>3. /\ less \in Seq(Profile) /\ Len(less) = Len(before) + Len(after)
        /\ \A j \in 1..(Len(before) + Len(after)) :
             less[j] = IF j <= Len(before) THEN before[j] ELSE after[j - Len(before)]
        BY <2>1, <2>2, ConcatProperties
  <2>4. Len(less) = Len(list) - 1
        BY <1>1, <2>2, <2>3
  <2>5. ASSUME NEW j \in 1..(Len(list) - 1) PROVE less[j] = list[IF j < i THEN j ELSE j + 1]
    <3>1. CASE j < i
          BY <1>1, <2>2, <2>3, <3>1
    <3>2. CASE ~(j < i)
      <4>1. j - (i - 1) \in 1..(Len(list) - i) /\ i + (j - (i - 1)) = j + 1
            BY <1>1, <3>2
      <4>2. less[j] = after[j - (i - 1)]
            BY <1>1, <2>2, <2>3, <3>2
      <4> QED
        BY <2>2, <3>2, <4>1, <4>2
    <3> QED
      BY <3>1, <3>2
  <2> QED
    BY <2>3, <2>4, <2>5
<1> HIDE DEF less
<1>5. DOMAIN less = 1..(Len(list) - 1)
      BY <1>1, <1>4
<1>6. ASSUME NEW j \in DOMAIN less, NEW k \in DOMAIN less, j # k
      PROVE  /\ less[j].id # less[k].id
             /\ ~(less[j].active /\ less[k].active)
  <2> DEFINE h == IF j < i THEN j ELSE j + 1
             l == IF k < i THEN k ELSE k + 1
  <2>1. h \in DOMAIN list /\ l \in DOMAIN list /\ h # l
        BY <1>1, <1>5, <1>6
  <2>2. less[j] = list[h] /\ less[k] = list[l]
        BY <1>4, <1>5
  <2> QED
    BY <2>1, <2>2 DEF OneActive
<1> QED
  BY <1>4, <1>6 DEF OneActive, less

\* So does the activation of one profile in place of all the others.
LEMMA ActivateKeeps ==
  ASSUME profiles \in Seq(Profile), OneActive(profiles), NEW id \in Ids
  PROVE  Activated(id) \in Seq(Profile) /\ Len(Activated(id)) = Len(profiles) /\ OneActive(Activated(id))
<1>1. DOMAIN profiles = 1..Len(profiles) /\ Len(profiles) \in Nat
      OBVIOUS
<1>2. \A i \in 1..Len(profiles) : profiles[i] \in Profile
      OBVIOUS
<1>3. ASSUME NEW i \in 1..Len(profiles)
      PROVE  /\ Activated(id)[i] \in Profile
             /\ Activated(id)[i].id = profiles[i].id
             /\ Activated(id)[i].active => profiles[i].id = id
      BY <1>1, <1>2 DEF Activated, Profile
<1>4. Activated(id) \in [1..Len(profiles) -> Profile]
      BY <1>1, <1>3 DEF Activated
<1>5. Activated(id) \in Seq(Profile) /\ Len(Activated(id)) = Len(profiles)
      BY <1>1, <1>4
<1>6. DOMAIN Activated(id) = 1..Len(profiles)
      BY <1>4
<1> QED
  BY <1>1, <1>3, <1>5, <1>6 DEF OneActive

\* So does an import: what was there keeps its ids, conflicting ids become new ones, and
\* nothing that comes in is active.
LEMMA ImportKeeps ==
  ASSUME profiles \in Lists, archive \in Lists, OneActive(profiles), OneActive(archive),
         Len(profiles) + Len(archive) <= MaxProfiles
  PROVE  /\ profiles \o Imported(archive) \in Seq(Profile)
         /\ OneActive(profiles \o Imported(archive))
<1> DEFINE old == {i \in DOMAIN archive : archive[i].id \in IdsOf(profiles)}
           used == IdsOf(profiles) \cup IdsOf(archive)
           free == Ids \ used
           new == CHOOSE f \in [old -> free] : IsInjective(f)
           imported == [i \in DOMAIN archive |->
                          [archive[i] EXCEPT !.active = FALSE,
                                             !.id = IF i \in old THEN new[i] ELSE @]]
<1>1. /\ profiles \in Seq(Profile) /\ Len(profiles) \in 0..MaxProfiles
      /\ archive \in Seq(Profile) /\ Len(archive) \in 0..MaxProfiles
      /\ DOMAIN profiles = 1..Len(profiles) /\ DOMAIN archive = 1..Len(archive)
      BY ListsAre
<1>2. /\ IsFiniteSet(IdsOf(profiles)) /\ IsFiniteSet(IdsOf(archive))
      /\ IdsOf(profiles) \subseteq Ids /\ IdsOf(archive) \subseteq Ids
      /\ Cardinality(IdsOf(profiles)) <= Len(profiles) /\ Cardinality(IdsOf(profiles)) \in Nat
      /\ Cardinality(IdsOf(archive)) <= Len(archive) /\ Cardinality(IdsOf(archive)) \in Nat
      BY <1>1, FewIds, FS_CardinalityType
<1>3. used \subseteq Ids /\ IsFiniteSet(used) /\ Cardinality(used) <= MaxProfiles
  <2>1. /\ IsFiniteSet(used)
        /\ Cardinality(used) = Cardinality(IdsOf(profiles)) + Cardinality(IdsOf(archive))
                               - Cardinality(IdsOf(profiles) \cap IdsOf(archive))
        BY <1>2, FS_Union
  <2>2. Cardinality(IdsOf(profiles) \cap IdsOf(archive)) \in Nat
        BY <1>2, FS_Intersection, FS_CardinalityType
  <2>3. Cardinality(used) <= MaxProfiles
    <3> HIDE DEF used
    <3> QED
      BY <1>1, <1>2, <2>1, <2>2, ProfilesAssumption DEF ProfilesAssumption
  <2> QED
    BY <1>2, <2>1, <2>3
<1>4. IsFiniteSet(old) /\ Cardinality(old) <= MaxProfiles
  <2>1. IsFiniteSet(1..Len(archive)) /\ Cardinality(1..Len(archive)) = Len(archive)
    <3>1. 1 \in Int /\ Len(archive) \in Int
          BY <1>1
    <3>2. /\ IsFiniteSet(1..Len(archive))
          /\ Cardinality(1..Len(archive)) =
               IF 1 > Len(archive) THEN 0 ELSE Len(archive) - 1 + 1
          BY <3>1, FS_Interval
    <3> QED
      BY <1>1, <3>2
  <2>2. IsFiniteSet(old) /\ Cardinality(old) <= Cardinality(1..Len(archive))
        BY <1>1, <2>1, FS_Subset
  <2>3. Cardinality(old) \in Nat
        BY <2>2, FS_CardinalityType
  <2> HIDE DEF old
  <2> QED
    BY <1>1, <2>1, <2>2, <2>3, ProfilesAssumption DEF ProfilesAssumption
<1>5. IsFiniteSet(free) /\ Cardinality(old) <= Cardinality(free)
  <2>1. IsFiniteSet(free) /\ Cardinality(free) >= Cardinality(Ids) - MaxProfiles
        BY <1>3, IdsAreLeft, ProfilesAssumption DEF ProfilesAssumption
  <2>2. /\ Cardinality(Ids) \in Nat /\ Cardinality(free) \in Nat /\ Cardinality(old) \in Nat
        BY <1>4, <2>1, FS_CardinalityType, ProfilesAssumption DEF ProfilesAssumption
  <2> HIDE DEF old, free
  <2> QED
    BY <1>4, <2>1, <2>2, ProfilesAssumption DEF ProfilesAssumption
<1>6. new \in [old -> free] /\ IsInjective(new)
  <2>1. \E f \in [old -> free] : IsInjective(f)
        BY <1>4, <1>5, InjectionExists
  <2> HIDE DEF old, free
  <2> QED
    BY <2>1
<1>7. Imported(archive) = imported
      BY DEF Imported
<1> HIDE DEF new
<1>8. ASSUME NEW i \in 1..Len(archive)
      PROVE  /\ imported[i] \in Profile /\ ~imported[i].active
             /\ imported[i].id = IF i \in old THEN new[i] ELSE archive[i].id
             /\ imported[i].id \notin IdsOf(profiles)
  <2>1. archive[i] \in Profile
        BY <1>1
  <2>2. archive[i].id \in IdsOf(archive)
        BY <1>1 DEF IdsOf
  <2>3. i \in old => new[i] \in free
        BY <1>6
  <2> QED
    BY <1>1, <2>1, <2>2, <2>3 DEF Profile
<1>9. ASSUME NEW i \in 1..Len(archive), NEW j \in 1..Len(archive), i # j
      PROVE  imported[i].id # imported[j].id
  <2>1. archive[i].id # archive[j].id
        BY <1>1, <1>9 DEF OneActive
  <2>2. archive[i].id \in IdsOf(archive) /\ archive[j].id \in IdsOf(archive)
        BY <1>1 DEF IdsOf
  <2>3. i \in old => new[i] \in Ids /\ new[i] \notin IdsOf(archive)
        BY <1>6
  <2>4. j \in old => new[j] \in Ids /\ new[j] \notin IdsOf(archive)
        BY <1>6
  <2>5. i \in old /\ j \in old => new[i] # new[j]
        BY <1>6, <1>9 DEF IsInjective
  <2>6. /\ imported[i].id = IF i \in old THEN new[i] ELSE archive[i].id
        /\ imported[j].id = IF j \in old THEN new[j] ELSE archive[j].id
        BY <1>8
  <2> HIDE DEF old, imported
  <2> QED
    BY <2>1, <2>2, <2>3, <2>4, <2>5, <2>6
<1>10. /\ imported \in [1..Len(archive) -> Profile]
       /\ imported \in Seq(Profile) /\ Len(imported) = Len(archive)
  <2>1. imported \in [1..Len(archive) -> Profile]
        BY <1>1, <1>8
  <2> HIDE DEF imported
  <2> QED
    BY <1>1, <2>1
<1> HIDE DEF imported, old, free, used
<1> DEFINE all == profiles \o imported
           n == Len(profiles)
<1>11. /\ all \in Seq(Profile) /\ Len(all) = n + Len(archive)
       /\ \A i \in 1..(n + Len(archive)) :
            all[i] = IF i <= n THEN profiles[i] ELSE imported[i - n]
  <2>1. /\ all \in Seq(Profile) /\ Len(all) = Len(profiles) + Len(imported)
        /\ \A i \in 1..(Len(profiles) + Len(imported)) :
             all[i] = IF i <= Len(profiles) THEN profiles[i] ELSE imported[i - Len(profiles)]
        BY <1>1, <1>10, ConcatProperties
  <2> QED
    BY <1>10, <2>1
<1> HIDE DEF all
<1>12. \A i \in 1..n : all[i] = profiles[i] /\ all[i].id \in IdsOf(profiles)
  <2>1. \A i \in 1..n : i \in 1..(n + Len(archive)) /\ i <= n
        BY <1>1
  <2>2. \A i \in 1..n : all[i] = profiles[i]
        BY <1>11, <2>1
  <2> QED
    BY <1>1, <2>2 DEF IdsOf
<1>13. \A i \in (n + 1)..(n + Len(archive)) :
         /\ all[i] = imported[i - n] /\ i - n \in 1..Len(archive)
         /\ ~all[i].active /\ all[i].id \notin IdsOf(profiles)
       BY <1>1, <1>8, <1>11
<1>14. ASSUME NEW i \in DOMAIN all, NEW j \in DOMAIN all, i # j
       PROVE  all[i].id # all[j].id /\ ~(all[i].active /\ all[j].active)
  <2>1. i \in 1..n \/ i \in (n + 1)..(n + Len(archive))
        BY <1>1, <1>11
  <2>2. j \in 1..n \/ j \in (n + 1)..(n + Len(archive))
        BY <1>1, <1>11
  <2>3. CASE i \in 1..n /\ j \in 1..n
        BY <1>1, <1>12, <1>14, <2>3 DEF OneActive
  <2>4. CASE i \in (n + 1)..(n + Len(archive)) /\ j \in (n + 1)..(n + Len(archive))
    <3>1. i - n # j - n
          BY <1>1, <1>14, <2>4
    <3> QED
      BY <1>9, <1>13, <2>4, <3>1
  <2>5. CASE \/ i \in 1..n /\ j \in (n + 1)..(n + Len(archive))
             \/ j \in 1..n /\ i \in (n + 1)..(n + Len(archive))
        BY <1>12, <1>13, <2>5
  <2> QED
    BY <2>1, <2>2, <2>3, <2>4, <2>5
<1> QED
  BY <1>7, <1>11, <1>14 DEF OneActive, all

-----------------------------------------------------------------------------
(* Profiles: the inductive invariant.                                        *)

\* What a start could not read is not managed.
UnreadIsUnmanaged == unread => ~managed

ProfilesInv ==
  /\ ProfilesTypeOK
  /\ ProfilesSafe
  /\ OneActive(archive)
  /\ UnreadIsUnmanaged

LEMMA InitProfiles == ProfilesInit => ProfilesInv
<1> SUFFICES ASSUME ProfilesInit PROVE ProfilesInv
    OBVIOUS
<1>1. <<>> \in Lists
  <2>1. <<>> \in Seq(Profile) /\ Len(<<>>) \in 0..MaxProfiles
        BY ProfilesAssumption DEF ProfilesAssumption
  <2> QED
    BY <2>1, ListsAre
<1>2. OneActive(<<>>)
      BY DEF OneActive
<1> QED
  BY <1>1, <1>2 DEF ProfilesInit, ProfilesInv, ProfilesTypeOK, ProfilesSafe, UnreadIsUnmanaged

\* A change of the list to one that is as it must be, whatever becomes of the save.
LEMMA ChangeKeeps ==
  ASSUME ProfilesInv, NEW list \in Seq(Profile), OneActive(list), Change(list)
  PROVE  ProfilesInv'
<1>1. list \in Lists
      BY ListsAre, ProfilesAssumption DEF ProfilesAssumption, Change
<1>2. profilesFile' = list \/ profilesFile' = profilesFile \/ profilesFile' \in Unreadable
      BY DEF Change, WriteCut
<1>3. ProfilesTypeOK'
      BY <1>1, <1>2 DEF ProfilesInv, ProfilesTypeOK, Change
<1> QED
  BY <1>2, <1>3 DEF ProfilesInv, ProfilesSafe, UnreadIsUnmanaged, Change

LEMMA NextProfiles == ProfilesInv /\ [ProfilesNext]_profileVars => ProfilesInv'
<1> SUFFICES ASSUME ProfilesInv, [ProfilesNext]_profileVars PROVE ProfilesInv'
    OBVIOUS
<1>1. /\ profiles \in Lists /\ archive \in Lists
      /\ profiles \in Seq(Profile) /\ OneActive(profiles) /\ OneActive(archive)
      BY ListsAre DEF ProfilesInv, ProfilesTypeOK, ProfilesSafe
<1>2. FreshId \in Ids /\ FreshId \notin IdsOf(profiles)
      BY <1>1, SomeFreshId
<1>3. ASSUME NEW target \in Targets, Create(target) PROVE ProfilesInv'
  <2>1. /\ NewProfile(target) \in Profile /\ NewProfile(target).id \notin IdsOf(profiles)
        /\ ~NewProfile(target).active
        BY <1>2 DEF NewProfile, Profile
  <2>2. /\ Append(profiles, NewProfile(target)) \in Seq(Profile)
        /\ OneActive(Append(profiles, NewProfile(target)))
        BY <1>1, <2>1, AppendKeeps
  <2> QED
    BY <1>3, <2>2, ChangeKeeps DEF Create
<1>4. ASSUME NEW id \in Ids, Delete(id) PROVE ProfilesInv'
  <2>1. PICK i \in DOMAIN profiles : Change(RemoveAt(profiles, i))
        BY <1>4 DEF Delete
  <2>2. RemoveAt(profiles, i) \in Seq(Profile) /\ OneActive(RemoveAt(profiles, i))
        BY <1>1, RemoveKeeps
  <2> QED
    BY <2>1, <2>2, ChangeKeeps
<1>5. ASSUME NEW id \in Ids, SetActive(id) PROVE ProfilesInv'
  <2>1. /\ Activated(id) \in Seq(Profile) /\ Len(Activated(id)) = Len(profiles)
        /\ OneActive(Activated(id))
        BY <1>1, ActivateKeeps
  <2>2. CASE Change(Activated(id))
        BY <2>1, <2>2, ChangeKeeps
  <2>3. CASE /\ profiles' = Activated(id)
             /\ UNCHANGED <<profilesFile, managed, archive, unread>>
    <3>1. Activated(id) \in Lists
          BY <1>1, <2>1, ListsAre
    <3> QED
      BY <2>1, <2>3, <3>1 DEF ProfilesInv, ProfilesTypeOK, ProfilesSafe, UnreadIsUnmanaged
  <2> QED
    BY <1>5, <2>2, <2>3 DEF SetActive
<1>6. ASSUME NEW id \in Ids, Duplicate(id) PROVE ProfilesInv'
  <2>1. PICK i \in DOMAIN profiles : Change(Append(profiles, Clone(profiles[i])))
        BY <1>6 DEF Duplicate
  <2>2. profiles[i] \in Profile
        BY <1>1
  <2>3. /\ Clone(profiles[i]) \in Profile /\ Clone(profiles[i]).id \notin IdsOf(profiles)
        /\ ~Clone(profiles[i]).active
        BY <1>2, <2>2 DEF Clone, Profile
  <2>4. /\ Append(profiles, Clone(profiles[i])) \in Seq(Profile)
        /\ OneActive(Append(profiles, Clone(profiles[i])))
        BY <1>1, <2>3, AppendKeeps
  <2> QED
    BY <2>1, <2>4, ChangeKeeps
<1>7. CASE ExportArchive
      BY <1>1, <1>7
      DEF ExportArchive, ProfilesInv, ProfilesTypeOK, ProfilesSafe, UnreadIsUnmanaged
<1>8. CASE ImportArchive
      BY <1>1, <1>8, ImportKeeps, ChangeKeeps DEF ImportArchive
<1>9. CASE LoadProfiles
  <2>1. <<>> \in Lists /\ OneActive(<<>>)
    <3>1. <<>> \in Seq(Profile) /\ Len(<<>>) \in 0..MaxProfiles
          BY ProfilesAssumption DEF ProfilesAssumption
    <3>2. <<>> \in Lists
          BY <3>1, ListsAre
    <3> QED
      BY <3>2 DEF OneActive
  <2>2. managed' \in BOOLEAN /\ unread' \in BOOLEAN /\ (unread' => ~managed')
        BY <1>9 DEF LoadProfiles
  <2>3. profiles' \in Lists /\ OneActive(profiles')
        BY <1>9, <2>1 DEF LoadProfiles, ProfilesInv, ProfilesTypeOK, ProfilesSafe
  <2> QED
    BY <1>9, <2>2, <2>3
    DEF LoadProfiles, ProfilesInv, ProfilesTypeOK, ProfilesSafe, UnreadIsUnmanaged
<1>10. CASE UNCHANGED profileVars
       BY <1>10
       DEF profileVars, ProfilesInv, ProfilesTypeOK, ProfilesSafe, UnreadIsUnmanaged
<1> QED
  BY <1>3, <1>4, <1>5, <1>6, <1>7, <1>8, <1>9, <1>10 DEF ProfilesNext

\* In memory and in a file that can be read, no two profiles have one id and at most one
\* is active, whatever fails.
THEOREM ProfilesAreSafe ==
  ProfilesInit /\ [][ProfilesNext]_profileVars => [](ProfilesTypeOK /\ ProfilesSafe)
<1>1. ProfilesInv => ProfilesTypeOK /\ ProfilesSafe
      BY DEF ProfilesInv
<1> QED
  BY <1>1, InitProfiles, NextProfiles, PTL

\* No request of a process that could not read the file at its start overwrites it.
THEOREM UnreadFileIsKept ==
  ProfilesInit /\ [][ProfilesNext]_profileVars => UnreadFileKept
<1>1. ProfilesInv /\ [ProfilesNext]_profileVars
        => [unread => profilesFile' = profilesFile]_profileVars
      BY DEF ProfilesInv, UnreadIsUnmanaged, ProfilesNext, Create, Delete, SetActive, Duplicate,
             ExportArchive, ImportArchive, LoadProfiles, Change, profileVars
<1> QED
  BY <1>1, InitProfiles, NextProfiles, PTL DEF UnreadFileKept

-----------------------------------------------------------------------------
(* The configuration and the vault save alike (SavedFile).  While the         *)
(* program runs and the last save that began alone is still alone and has not *)
(* failed, one writer at most is saving, the file is empty once it has been   *)
(* truncated, and what is written is what is in memory, unless somebody has   *)
(* changed that and is on the way to save it.                                 *)

\* A request is changing the configuration, or about to save it.
ConfigDirty == \E c \in ConfigClients : configPhase[c] \in {"decode", "save"}

OneConfigSaver ==
  \A c, d \in ConfigClients : File!Saving(c) /\ File!Saving(d) => c = d
EmptiedIsEmpty == \A c \in ConfigClients : configPhase[c] = "emptied" => configFile = Empty
DraftIsConfig ==
  \A c \in ConfigClients : File!Saving(c) => ConfigDirty \/ configDraft[c] = config
UnsavedIsDirty ==
  (\A c \in ConfigClients : ~File!Saving(c)) => ConfigDirty \/ configFile = config

SaverAlone == OneConfigSaver /\ EmptiedIsEmpty /\ DraftIsConfig /\ UnsavedIsDirty

\* A program that does not run saves nothing.
DownIsIdle == ~configUp => \A c \in ConfigClients : configPhase[c] = "idle"

ConfigInv ==
  /\ ConfigTypeOK
  /\ DownIsIdle
  /\ configUp /\ ~configUnsure => SaverAlone

LEMMA InitConfig == ConfigInit => ConfigInv
<1> SUFFICES ASSUME ConfigInit PROVE ConfigInv
    OBVIOUS
<1> USE ConfigAssumption DEF ConfigAssumption, ConfigInit, AtRest
<1>1. /\ config \in Configs /\ configFile = NoFile
      /\ configPhase \in [ConfigClients -> {"idle", "decode", "save", "encoded", "emptied"}]
      /\ configDraft \in [ConfigClients -> Configs \cup {Empty}]
      /\ merged \in [ConfigClients -> Configs] /\ undecoded \in [ConfigClients -> SUBSET Fields]
      BY DEF Configs
<1>2. illTyped \in [ConfigClients -> BOOLEAN] /\ configUnsure \in BOOLEAN /\ configUp \in BOOLEAN
      OBVIOUS
<1>3. ConfigTypeOK
      BY <1>1, <1>2 DEF ConfigTypeOK
<1>4. DownIsIdle /\ ~configUp
      BY DEF DownIsIdle
<1> QED
  BY <1>3, <1>4 DEF ConfigInv

\* What the overrides make of a configuration is one, too.
LEMMA OverriddenType == \A doc \in Configs : Overridden(doc) \subseteq Configs
BY DEF Overridden, Configs

LEMMA ConfigTypeStep == ConfigTypeOK /\ [ConfigNext]_configVars => ConfigTypeOK'
<1> SUFFICES ASSUME ConfigTypeOK, [ConfigNext]_configVars PROVE ConfigTypeOK'
    OBVIOUS
<1> USE DEF ConfigTypeOK
<1>1. CASE Load
  <2>1. /\ configFile' \in Configs
        /\ UNCHANGED configFile \/ configFile' = Defaults
        BY <1>1, ConfigAssumption DEF Load, Current, ConfigAssumption, Configs
  <2>2. config' \in Configs
        BY <1>1, <2>1, OverriddenType DEF Load
  <2>3. configUp' \in BOOLEAN /\ configUnsure' \in BOOLEAN /\ illTyped' \in [ConfigClients -> BOOLEAN]
        BY <1>1 DEF Load
  <2> QED
    BY <1>1, <2>1, <2>2, <2>3 DEF Load
<1>2. CASE LoadFails
  <2>1. configUp' \in BOOLEAN /\ configUnsure' \in BOOLEAN /\ illTyped' \in [ConfigClients -> BOOLEAN]
        BY <1>2 DEF LoadFails
  <2> QED
    BY <1>2, <2>1 DEF LoadFails
<1>3. CASE RemoveFile
  <2>1. configUp' \in BOOLEAN /\ configUnsure' \in BOOLEAN /\ illTyped' \in [ConfigClients -> BOOLEAN]
        BY <1>3 DEF RemoveFile
  <2> QED
    BY <1>3, <2>1 DEF RemoveFile
<1>4. CASE ConfigCrash
  <2>1. configUp' \in BOOLEAN /\ configUnsure' \in BOOLEAN /\ illTyped' \in [ConfigClients -> BOOLEAN]
        BY <1>4 DEF ConfigCrash, AtRest
  <2>2. /\ configFile' \in Configs \cup Unreadable \cup {NoFile}
        BY <1>4 DEF ConfigCrash
  <2>3. /\ configPhase' \in [ConfigClients -> {"idle", "decode", "save", "encoded", "emptied"}]
        /\ configDraft' \in [ConfigClients -> Configs \cup {Empty}]
        BY <1>4 DEF ConfigCrash, AtRest
  <2>4. /\ merged' \in [ConfigClients -> Configs] /\ undecoded' \in [ConfigClients -> SUBSET Fields]
        /\ config' \in Configs
        BY <1>4, ConfigAssumption DEF ConfigCrash, AtRest, ConfigAssumption, Configs
  <2> QED
    BY <2>1, <2>2, <2>3, <2>4
<1>5. ASSUME NEW c \in ConfigClients, Merge(c) PROVE ConfigTypeOK'
  <2>1. configUp' \in BOOLEAN /\ configUnsure' \in BOOLEAN /\ illTyped' \in [ConfigClients -> BOOLEAN]
        BY <1>5 DEF Merge
  <2>2. merged' \in [ConfigClients -> Configs] /\ undecoded' \in [ConfigClients -> SUBSET Fields]
        BY <1>5 DEF Merge, Configs
  <2> QED
    BY <1>5, <2>1, <2>2 DEF Merge
<1>6. ASSUME NEW c \in ConfigClients, Decode(c) PROVE ConfigTypeOK'
  <2>1. configUp' \in BOOLEAN /\ configUnsure' \in BOOLEAN /\ illTyped' \in [ConfigClients -> BOOLEAN]
        BY <1>6 DEF Decode
  <2>2. config' \in Configs /\ undecoded' \in [ConfigClients -> SUBSET Fields]
        BY <1>6 DEF Decode, Configs
  <2> QED
    BY <1>6, <2>1, <2>2 DEF Decode
<1>7. ASSUME NEW c \in ConfigClients, Decoded(c) PROVE ConfigTypeOK'
  <2>1. configUp' \in BOOLEAN /\ configUnsure' \in BOOLEAN /\ illTyped' \in [ConfigClients -> BOOLEAN]
        BY <1>7 DEF Decoded
  <2>2. merged' \in [ConfigClients -> Configs]
        BY <1>7, ConfigAssumption DEF Decoded, ConfigAssumption, Configs
  <2>3. configPhase' \in [ConfigClients -> {"idle", "decode", "save", "encoded", "emptied"}]
        BY <1>7 DEF Decoded
  <2> QED
    BY <1>7, <2>1, <2>2, <2>3 DEF Decoded
<1>8. ASSUME NEW c \in ConfigClients, SaveConfig(c) PROVE ConfigTypeOK'
  <2> USE DEF SaveConfig, File!SaveStep, File!Encode, File!Truncate, File!Fill, File!WriteFails
  <2>1. configUp' \in BOOLEAN /\ configUnsure' \in BOOLEAN /\ illTyped' \in [ConfigClients -> BOOLEAN]
        BY <1>8
  <2>2. configPhase' \in [ConfigClients -> {"idle", "decode", "save", "encoded", "emptied"}]
        BY <1>8
  <2>3. configDraft' \in [ConfigClients -> Configs \cup {Empty}]
        BY <1>8
  <2>4. configFile' \in Configs \cup Unreadable \cup {NoFile}
        BY <1>8 DEF File!WrittenOver, File!WriteCut, File!Unreadable, Unreadable
  <2> QED
    BY <1>8, <2>1, <2>2, <2>3, <2>4
<1>9. CASE UNCHANGED configVars
  <2>1. configUp' \in BOOLEAN /\ configUnsure' \in BOOLEAN /\ illTyped' \in [ConfigClients -> BOOLEAN]
        BY <1>9 DEF configVars
  <2> QED
    BY <1>9, <2>1 DEF configVars
<1> QED
  BY <1>1, <1>2, <1>3, <1>4, <1>5, <1>6, <1>7, <1>8, <1>9 DEF ConfigNext

\* A save step of one writer, among at most one.
LEMMA SaveKeepsAlone ==
  ASSUME ConfigInv, NEW c \in ConfigClients, SaveConfig(c)
  PROVE  DownIsIdle' /\ (configUp' /\ ~configUnsure' => SaverAlone')
<1> USE DEF File!Saving
<1>1. configPhase \in [ConfigClients -> {"idle", "decode", "save", "encoded", "emptied"}]
      BY DEF ConfigInv, ConfigTypeOK
<1>2. configDraft \in [ConfigClients -> Configs \cup {Empty}]
      BY DEF ConfigInv, ConfigTypeOK
<1>3. configUp' = configUp /\ configPhase[c] # "idle"
      BY DEF SaveConfig, File!SaveStep, File!Encode, File!Truncate, File!Fill, File!WriteFails
<1>4. configUp
      BY <1>3 DEF ConfigInv, DownIsIdle
<1>5. DownIsIdle'
      BY <1>3, <1>4 DEF DownIsIdle
<1>6. ASSUME ~configUnsure' PROVE SaverAlone'
  <2>1. CASE File!Encode(c)
    <3>1. /\ configPhase' = [configPhase EXCEPT ![c] = "encoded"]
          /\ configDraft' = [configDraft EXCEPT ![c] = config]
          /\ config' = config /\ configFile' = configFile
          BY <2>1 DEF File!Encode
    <3>2. \A d \in ConfigClients \ {c} : ~File!Saving(d)
          BY <1>6, <2>1 DEF File!Encode
    <3>3. /\ \A d \in ConfigClients : File!Saving(d)' => d = c
          /\ configPhase'[c] = "encoded" /\ configDraft'[c] = config'
          BY <1>1, <1>2, <3>1, <3>2
    <3>4. OneConfigSaver'
          BY <3>3 DEF OneConfigSaver
    <3>5. EmptiedIsEmpty'
          BY <3>3 DEF EmptiedIsEmpty
    <3>6. DraftIsConfig' /\ UnsavedIsDirty'
          BY <3>3 DEF DraftIsConfig, UnsavedIsDirty
    <3> QED
      BY <3>4, <3>5, <3>6 DEF SaverAlone
  <2>2. CASE File!Truncate(c)
    <3>1. /\ configPhase' = [configPhase EXCEPT ![c] = "emptied"]
          /\ configPhase[c] = "encoded" /\ configFile' = Empty
          /\ config' = config /\ configDraft' = configDraft /\ configUnsure' = configUnsure
          BY <2>2 DEF File!Truncate
    <3>2. SaverAlone
          BY <1>4, <1>6, <3>1 DEF ConfigInv
    <3>3. /\ \A d \in ConfigClients : File!Saving(d)' <=> File!Saving(d)
          /\ File!Saving(c)'
          /\ ConfigDirty' <=> ConfigDirty
      <4>1. \A d \in ConfigClients : d # c => configPhase'[d] = configPhase[d]
            BY <1>1, <3>1
      <4>2. configPhase'[c] = "emptied"
            BY <1>1, <3>1
      <4> QED
        BY <3>1, <4>1, <4>2 DEF ConfigDirty
    <3>4. OneConfigSaver'
          BY <3>2, <3>3 DEF SaverAlone, OneConfigSaver
    <3>5. EmptiedIsEmpty'
          BY <3>1 DEF EmptiedIsEmpty
    <3>6. DraftIsConfig' /\ UnsavedIsDirty'
          BY <3>1, <3>2, <3>3 DEF SaverAlone, DraftIsConfig, UnsavedIsDirty
    <3> QED
      BY <3>4, <3>5, <3>6 DEF SaverAlone
  <2>3. CASE File!Fill(c)
    <3>1. /\ configPhase' = [configPhase EXCEPT ![c] = "idle"]
          /\ configPhase[c] = "emptied" /\ configFile' \in File!WrittenOver(configFile, configDraft[c])
          /\ config' = config /\ configDraft' = [configDraft EXCEPT ![c] = Empty]
          /\ configUnsure' = configUnsure
          BY <2>3 DEF File!Fill
    <3>2. SaverAlone
          BY <1>4, <1>6, <3>1 DEF ConfigInv
    <3>3. \A d \in ConfigClients : File!Saving(d) => d = c
          BY <3>1, <3>2 DEF SaverAlone, OneConfigSaver
    <3>4. configFile' = configDraft[c]
          BY <3>1, <3>2 DEF SaverAlone, EmptiedIsEmpty, File!WrittenOver
    <3>5. /\ \A d \in ConfigClients : ~File!Saving(d)'
          /\ ConfigDirty' <=> ConfigDirty
      <4>1. \A d \in ConfigClients : d # c => configPhase'[d] = configPhase[d]
            BY <1>1, <3>1
      <4>2. configPhase'[c] = "idle"
            BY <1>1, <3>1
      <4> QED
        BY <3>1, <3>3, <4>1, <4>2 DEF ConfigDirty
    <3>6. ConfigDirty \/ configDraft[c] = config
          BY <3>1, <3>2 DEF SaverAlone, DraftIsConfig
    <3>7. OneConfigSaver' /\ EmptiedIsEmpty' /\ DraftIsConfig'
          BY <3>5 DEF OneConfigSaver, EmptiedIsEmpty, DraftIsConfig
    <3>8. UnsavedIsDirty'
          BY <3>1, <3>4, <3>5, <3>6 DEF UnsavedIsDirty
    <3> QED
      BY <3>7, <3>8 DEF SaverAlone
  <2>4. CASE File!WriteFails(c)
        BY <1>6, <2>4 DEF File!WriteFails
  <2> QED
    BY <2>1, <2>2, <2>3, <2>4 DEF SaveConfig, File!SaveStep
<1> QED
  BY <1>5, <1>6

LEMMA NextConfig == ConfigInv /\ [ConfigNext]_configVars => ConfigInv'
<1> SUFFICES ASSUME ConfigInv, [ConfigNext]_configVars
             PROVE  DownIsIdle' /\ (configUp' /\ ~configUnsure' => SaverAlone')
    BY ConfigTypeStep DEF ConfigInv
<1> USE DEF File!Saving
<1>1. configPhase \in [ConfigClients -> {"idle", "decode", "save", "encoded", "emptied"}]
      BY DEF ConfigInv, ConfigTypeOK
<1>2. CASE Load
  <2>1. \A c \in ConfigClients : configPhase'[c] = "idle"
        BY <1>2 DEF Load, ConfigInv, DownIsIdle
  <2>2. ~configUnsure' => configFile' = config'
        BY <1>2 DEF Load
  <2> QED
    BY <2>1, <2>2
    DEF DownIsIdle, SaverAlone, OneConfigSaver, EmptiedIsEmpty, DraftIsConfig, UnsavedIsDirty
<1>3. CASE LoadFails \/ RemoveFile
      BY <1>3 DEF LoadFails, RemoveFile, ConfigInv, DownIsIdle
<1>4. CASE ConfigCrash
      BY <1>4 DEF ConfigCrash, AtRest, DownIsIdle
<1>5. ASSUME NEW c \in ConfigClients, Merge(c) \/ Decode(c)
      PROVE  DownIsIdle' /\ (configUp' /\ ~configUnsure' => SaverAlone')
  <2>1. /\ configPhase' = [configPhase EXCEPT ![c] = "decode"]
        /\ configPhase[c] \in {"idle", "decode"}
        /\ UNCHANGED <<configFile, configDraft, configUnsure, configUp>>
        BY <1>1, <1>5 DEF Merge, Decode
  <2>2. \A d \in ConfigClients :
          /\ configPhase'[d] = "emptied" <=> configPhase[d] = "emptied"
          /\ File!Saving(d)' <=> File!Saving(d)
        BY <1>1, <2>1
  <2>3. ConfigDirty'
        BY <1>1, <2>1 DEF ConfigDirty
  <2>4. configUp
        BY <1>5 DEF Merge, Decode, ConfigInv, DownIsIdle
  <2>5. ASSUME SaverAlone PROVE SaverAlone'
    <3>1. OneConfigSaver'
          BY <2>2, <2>5 DEF SaverAlone, OneConfigSaver
    <3>2. EmptiedIsEmpty'
          BY <2>1, <2>2, <2>5 DEF SaverAlone, EmptiedIsEmpty
    <3> QED
      BY <2>3, <3>1, <3>2 DEF SaverAlone, DraftIsConfig, UnsavedIsDirty
  <2> QED
    BY <2>1, <2>4, <2>5 DEF ConfigInv, DownIsIdle
<1>6. ASSUME NEW c \in ConfigClients, Decoded(c)
      PROVE  DownIsIdle' /\ (configUp' /\ ~configUnsure' => SaverAlone')
  <2>1. /\ configPhase[c] = "decode"
        /\ UNCHANGED <<config, configFile, configDraft, configUp>>
        BY <1>6 DEF Decoded
  <2>2. configUp
        BY <2>1 DEF ConfigInv, DownIsIdle
  <2>3. ASSUME ~configUnsure' PROVE SaverAlone'
    <3>1. ~illTyped[c] /\ ~configUnsure
          BY <1>6, <2>3 DEF Decoded
    <3>2. configPhase' = [configPhase EXCEPT ![c] = "save"]
          BY <1>6, <3>1 DEF Decoded
    <3>3. SaverAlone
          BY <2>2, <3>1 DEF ConfigInv
    <3>4. \A d \in ConfigClients :
            /\ configPhase'[d] = "emptied" <=> configPhase[d] = "emptied"
            /\ File!Saving(d)' <=> File!Saving(d)
          BY <1>1, <2>1, <3>2
    <3>5. ConfigDirty'
          BY <1>1, <3>2 DEF ConfigDirty
    <3>6. OneConfigSaver'
          BY <3>3, <3>4 DEF SaverAlone, OneConfigSaver
    <3>7. EmptiedIsEmpty'
          BY <2>1, <3>3, <3>4 DEF SaverAlone, EmptiedIsEmpty
    <3> QED
      BY <3>5, <3>6, <3>7 DEF SaverAlone, DraftIsConfig, UnsavedIsDirty
  <2> QED
    BY <2>1, <2>2, <2>3 DEF DownIsIdle
<1>7. ASSUME NEW c \in ConfigClients, SaveConfig(c)
      PROVE  DownIsIdle' /\ (configUp' /\ ~configUnsure' => SaverAlone')
      BY <1>7, SaveKeepsAlone
<1>8. CASE UNCHANGED configVars
      BY <1>8
      DEF configVars, ConfigInv, DownIsIdle, SaverAlone, OneConfigSaver, EmptiedIsEmpty,
          DraftIsConfig, UnsavedIsDirty, ConfigDirty
<1> QED
  BY <1>2, <1>3, <1>4, <1>5, <1>6, <1>7, <1>8 DEF ConfigNext

\* However config.set requests interleave, it takes two saves at once, a failed save or a
\* refused update to leave the file and the running configuration different.
THEOREM ConfigIsBacked ==
  ConfigInit /\ [][ConfigNext]_configVars => [](ConfigTypeOK /\ ConfigBacked)
<1>1. ConfigInv => ConfigTypeOK /\ ConfigBacked
      BY DEF ConfigInv, ConfigBacked, File!Backed, File!Saving, SaverAlone, UnsavedIsDirty,
             ConfigDirty
<1> QED
  BY <1>1, InitConfig, NextConfig, PTL

-----------------------------------------------------------------------------
(* The vault, whose savers behave alike.                                      *)

\* A caller has changed the data and is about to save it.
VaultDirty == \E u \in VaultUsers : vaultPhase[u] = "save"

OneVaultSaver == \A u, v \in VaultUsers : VFile!Saving(u) /\ VFile!Saving(v) => u = v
VaultEmptiedIsEmpty == \A u \in VaultUsers : vaultPhase[u] = "emptied" => vaultFile = Empty
DraftIsVault ==
  \A u \in VaultUsers : VFile!Saving(u) => VaultDirty \/ vaultDraft[u] = secrets
VaultUnsavedIsDirty ==
  (\A u \in VaultUsers : ~VFile!Saving(u)) => VaultDirty \/ vaultFile = secrets

VaultSaverAlone ==
  OneVaultSaver /\ VaultEmptiedIsEmpty /\ DraftIsVault /\ VaultUnsavedIsDirty

\* Nobody saves a vault that is not open.
ClosedIsIdle == ~vaultOpen => \A u \in VaultUsers : vaultPhase[u] = "idle"

VaultInv ==
  /\ VaultTypeOK
  /\ ClosedIsIdle
  /\ vaultOpen /\ ~vaultUnsure => VaultSaverAlone

\* The flags of one id.
Flags == BOOLEAN
Entries == BoundedSeq(Flags, MaxEntries)

LEMMA EntriesAre ==
  \A list : list \in Entries <=> list \in Seq(Flags) /\ Len(list) \in 0..MaxEntries
<1> SUFFICES ASSUME NEW list
             PROVE  list \in Entries <=> list \in Seq(Flags) /\ Len(list) \in 0..MaxEntries
    OBVIOUS
<1>1. ASSUME list \in Entries PROVE list \in Seq(Flags) /\ Len(list) \in 0..MaxEntries
  <2>1. PICK m \in 0..MaxEntries : list \in [1..m -> Flags]
        BY <1>1 DEF Entries, BoundedSeq, SeqOf
  <2> QED
    BY <2>1, VaultAssumption DEF VaultAssumption
<1>2. ASSUME list \in Seq(Flags), Len(list) \in 0..MaxEntries PROVE list \in Entries
      BY <1>2 DEF Entries, BoundedSeq, SeqOf
<1> QED
  BY <1>1, <1>2

LEMMA NoEntries == <<>> \in Entries
<1>1. <<>> \in Seq(Flags) /\ Len(<<>>) = 0
      BY Zenon, EmptySeq
<1>2. 0 \in 0..MaxEntries
      BY VaultAssumption DEF VaultAssumption
<1> QED
  BY <1>1, <1>2, EntriesAre, Zenon

\* What a vault's methods make of the flags of one id.
LEMMA EntriesChange ==
  ASSUME NEW list \in Entries, NEW valid \in Flags
  PROVE  /\ Len(list) < MaxEntries => Append(list, valid) \in Entries
         /\ list # <<>> => ReplaceAt(list, 1, valid) \in Entries
<1>1. list \in Seq(Flags) /\ Len(list) \in 0..MaxEntries
      BY EntriesAre
<1>2. ASSUME Len(list) < MaxEntries PROVE Append(list, valid) \in Entries
  <2>1. /\ Append(list, valid) \in Seq(Flags)
        /\ Len(Append(list, valid)) = Len(list) + 1
        BY <1>1, AppendProperties, Zenon
  <2>2. Len(list) + 1 \in 0..MaxEntries
        BY <1>1, <1>2, VaultAssumption DEF VaultAssumption
  <2> QED
    BY <2>1, <2>2, EntriesAre, Zenon
<1>3. ASSUME list # <<>> PROVE ReplaceAt(list, 1, valid) \in Entries
  <2>1. 1 \in 1..Len(list)
    <3>1. Len(list) \in Nat
          BY <1>1, LenProperties, Zenon
    <3>2. Len(list) # 0
          BY <1>1, <1>3, EmptySeq, Zenon
    <3> QED
      BY <3>1, <3>2
  <2>2. /\ ReplaceAt(list, 1, valid) \in Seq(Flags)
        /\ Len(ReplaceAt(list, 1, valid)) = Len(list)
        BY <1>1, <2>1 DEF ReplaceAt
  <2> QED
    BY <1>1, <2>2, EntriesAre, Zenon
<1> QED
  BY <1>2, <1>3

\* The data of a vault, and that of a new one.
LEMMA ContentsAre == Contents = [Secrets -> Entries]
BY DEF Contents, Entries, Flags

LEMMA NothingIsContents == Nothing \in Contents
BY NoEntries, ContentsAre DEF Nothing

LEMMA InitVault == VaultInit => VaultInv
<1> SUFFICES ASSUME VaultInit PROVE VaultInv
    OBVIOUS
<1> USE DEF VaultInit
<1>1. secrets \in Contents
      BY NothingIsContents
<1>2. saltFits \in BOOLEAN /\ vaultUnsure \in BOOLEAN /\ vaultOpen \in BOOLEAN
      OBVIOUS
<1>3. /\ vaultPhase \in [VaultUsers -> {"idle", "save", "encoded", "emptied"}]
      /\ vaultDraft \in [VaultUsers -> Contents \cup {Empty}]
      OBVIOUS
<1>4. VaultTypeOK
      BY <1>1, <1>2, <1>3 DEF VaultTypeOK
<1>5. ClosedIsIdle /\ ~vaultOpen
      BY DEF ClosedIsIdle
<1> QED
  BY <1>4, <1>5 DEF VaultInv

\* A caller's change of the data.
LEMMA ChangeType ==
  ASSUME VaultTypeOK, NEW u \in VaultUsers,
         AddSecret(u) \/ RemoveSecret(u) \/ SetValidity(u)
  PROVE  \E data \in Contents : Changed(u, data)
<1>1. secrets \in [Secrets -> Entries]
      BY ContentsAre DEF VaultTypeOK
<1>2. ASSUME NEW s \in Secrets, NEW list \in Entries
      PROVE  [secrets EXCEPT ![s] = list] \in Contents
      BY <1>1, ContentsAre
<1>3. CASE AddSecret(u)
  <2>1. PICK s \in Secrets, valid \in BOOLEAN :
          Len(secrets[s]) < MaxEntries /\ Changed(u, [secrets EXCEPT ![s] = Append(@, valid)])
        BY <1>3 DEF AddSecret
  <2>2. Append(secrets[s], valid) \in Entries
        BY <1>1, <2>1, EntriesChange DEF Flags
  <2> QED
    BY <1>2, <2>1, <2>2
<1>4. CASE RemoveSecret(u)
  <2>1. PICK s \in Secrets : Changed(u, [secrets EXCEPT ![s] = <<>>])
        BY <1>4 DEF RemoveSecret
  <2> QED
    BY <1>2, <2>1, NoEntries
<1>5. CASE SetValidity(u)
  <2>1. PICK s \in Secrets, valid \in BOOLEAN :
          Changed(u, [secrets EXCEPT ![s] = IF @ = <<>> THEN @ ELSE ReplaceAt(@, 1, valid)])
        BY <1>5 DEF SetValidity
  <2>2. (IF secrets[s] = <<>> THEN secrets[s] ELSE ReplaceAt(secrets[s], 1, valid)) \in Entries
        BY <1>1, EntriesChange DEF Flags
  <2> QED
    BY <1>2, <2>1, <2>2
<1> QED
  BY <1>3, <1>4, <1>5

LEMMA VaultTypeStep == VaultTypeOK /\ [VaultNext]_vaultVars => VaultTypeOK'
<1> SUFFICES ASSUME VaultTypeOK, [VaultNext]_vaultVars PROVE VaultTypeOK'
    OBVIOUS
<1>1. CASE OpenVault
  <2>1. saltFits' \in BOOLEAN /\ vaultUnsure' \in BOOLEAN /\ vaultOpen' \in BOOLEAN
        BY <1>1 DEF OpenVault, VaultTypeOK
  <2>3. secrets' \in Contents /\ vaultFile' \in Contents
        BY <1>1, NothingIsContents DEF OpenVault
  <2> QED
    BY <1>1, <2>1, <2>3 DEF OpenVault, VaultTypeOK
<1>2. CASE VaultCrash
  <2>1. saltFits' \in BOOLEAN /\ vaultUnsure' \in BOOLEAN /\ vaultOpen' \in BOOLEAN
        BY <1>2 DEF VaultCrash, VaultTypeOK
  <2>2. /\ vaultPhase' \in [VaultUsers -> {"idle", "save", "encoded", "emptied"}]
        /\ vaultDraft' \in [VaultUsers -> Contents \cup {Empty}]
        BY <1>2 DEF VaultCrash
  <2> QED
    BY <1>2, <2>1, <2>2 DEF VaultCrash, VaultTypeOK
<1>3. CASE RemoveVault
  <2>1. saltFits' \in BOOLEAN /\ vaultUnsure' \in BOOLEAN /\ vaultOpen' \in BOOLEAN
        BY <1>3 DEF RemoveVault, VaultTypeOK
  <2> QED
    BY <1>3, <2>1 DEF RemoveVault, VaultTypeOK
<1>4. ASSUME NEW u \in VaultUsers, AddSecret(u) \/ RemoveSecret(u) \/ SetValidity(u)
      PROVE  VaultTypeOK'
  <2>1. PICK data \in Contents : Changed(u, data)
        BY <1>4, ChangeType
  <2>2. saltFits' \in BOOLEAN /\ vaultUnsure' \in BOOLEAN /\ vaultOpen' \in BOOLEAN
        BY <2>1 DEF Changed, VaultTypeOK
  <2> QED
    BY <2>1, <2>2 DEF Changed, VaultTypeOK
<1>5. ASSUME NEW u \in VaultUsers, SaveVault(u) PROVE VaultTypeOK'
  <2> USE DEF SaveVault, VFile!SaveStep, VFile!Encode, VFile!Truncate, VFile!Fill, VFile!WriteFails
  <2>1. saltFits' \in BOOLEAN /\ vaultUnsure' \in BOOLEAN /\ vaultOpen' \in BOOLEAN
        BY <1>5 DEF VaultTypeOK
  <2>2. vaultPhase' \in [VaultUsers -> {"idle", "save", "encoded", "emptied"}]
        BY <1>5 DEF VaultTypeOK
  <2>3. vaultDraft' \in [VaultUsers -> Contents \cup {Empty}]
        BY <1>5 DEF VaultTypeOK
  <2>4. vaultFile' \in Contents \cup Unreadable \cup {NoVault}
        BY <1>5 DEF VaultTypeOK, VFile!WrittenOver, VFile!WriteCut, VFile!Unreadable, Unreadable
  <2> QED
    BY <1>5, <2>1, <2>2, <2>3, <2>4 DEF VaultTypeOK
<1>6. CASE UNCHANGED vaultVars
  <2>1. saltFits' \in BOOLEAN /\ vaultUnsure' \in BOOLEAN /\ vaultOpen' \in BOOLEAN
        BY <1>6 DEF vaultVars, VaultTypeOK
  <2> QED
    BY <1>6, <2>1 DEF vaultVars, VaultTypeOK
<1> QED
  BY <1>1, <1>2, <1>3, <1>4, <1>5, <1>6 DEF VaultNext

\* A save step of one user, among at most one.
LEMMA VaultSaveKeepsAlone ==
  ASSUME VaultInv, NEW u \in VaultUsers, SaveVault(u)
  PROVE  ClosedIsIdle' /\ (vaultOpen' /\ ~vaultUnsure' => VaultSaverAlone')
<1> USE DEF VFile!Saving
<1>1. vaultPhase \in [VaultUsers -> {"idle", "save", "encoded", "emptied"}]
      BY DEF VaultInv, VaultTypeOK
<1>2. vaultDraft \in [VaultUsers -> Contents \cup {Empty}]
      BY DEF VaultInv, VaultTypeOK
<1>3. vaultOpen' = vaultOpen /\ vaultPhase[u] # "idle"
      BY DEF SaveVault, VFile!SaveStep, VFile!Encode, VFile!Truncate, VFile!Fill, VFile!WriteFails
<1>4. vaultOpen
      BY <1>3 DEF VaultInv, ClosedIsIdle
<1>5. ClosedIsIdle'
      BY <1>3, <1>4 DEF ClosedIsIdle
<1>6. ASSUME ~vaultUnsure' PROVE VaultSaverAlone'
  <2>1. CASE VFile!Encode(u)
    <3>1. /\ vaultPhase' = [vaultPhase EXCEPT ![u] = "encoded"]
          /\ vaultDraft' = [vaultDraft EXCEPT ![u] = secrets]
          /\ secrets' = secrets /\ vaultFile' = vaultFile
          BY <2>1 DEF VFile!Encode
    <3>2. \A v \in VaultUsers \ {u} : ~VFile!Saving(v)
          BY <1>6, <2>1 DEF VFile!Encode
    <3>3. /\ \A v \in VaultUsers : VFile!Saving(v)' => v = u
          /\ vaultPhase'[u] = "encoded" /\ vaultDraft'[u] = secrets'
          BY <1>1, <1>2, <3>1, <3>2
    <3>4. OneVaultSaver'
          BY <3>3 DEF OneVaultSaver
    <3>5. VaultEmptiedIsEmpty'
          BY <3>3 DEF VaultEmptiedIsEmpty
    <3>6. DraftIsVault' /\ VaultUnsavedIsDirty'
          BY <3>3 DEF DraftIsVault, VaultUnsavedIsDirty
    <3> QED
      BY <3>4, <3>5, <3>6 DEF VaultSaverAlone
  <2>2. CASE VFile!Truncate(u)
    <3>1. /\ vaultPhase' = [vaultPhase EXCEPT ![u] = "emptied"]
          /\ vaultPhase[u] = "encoded" /\ vaultFile' = Empty
          /\ secrets' = secrets /\ vaultDraft' = vaultDraft /\ vaultUnsure' = vaultUnsure
          BY <2>2 DEF VFile!Truncate
    <3>2. VaultSaverAlone
          BY <1>4, <1>6, <3>1 DEF VaultInv
    <3>3. /\ \A v \in VaultUsers : VFile!Saving(v)' <=> VFile!Saving(v)
          /\ VFile!Saving(u)'
          /\ VaultDirty' <=> VaultDirty
      <4>1. \A v \in VaultUsers : v # u => vaultPhase'[v] = vaultPhase[v]
            BY <1>1, <3>1
      <4>2. vaultPhase'[u] = "emptied"
            BY <1>1, <3>1
      <4> QED
        BY <3>1, <4>1, <4>2 DEF VaultDirty
    <3>4. OneVaultSaver'
          BY <3>2, <3>3 DEF VaultSaverAlone, OneVaultSaver
    <3>5. VaultEmptiedIsEmpty'
          BY <3>1 DEF VaultEmptiedIsEmpty
    <3>6. DraftIsVault' /\ VaultUnsavedIsDirty'
          BY <3>1, <3>2, <3>3 DEF VaultSaverAlone, DraftIsVault, VaultUnsavedIsDirty
    <3> QED
      BY <3>4, <3>5, <3>6 DEF VaultSaverAlone
  <2>3. CASE VFile!Fill(u)
    <3>1. /\ vaultPhase' = [vaultPhase EXCEPT ![u] = "idle"]
          /\ vaultPhase[u] = "emptied" /\ vaultFile' \in VFile!WrittenOver(vaultFile, vaultDraft[u])
          /\ secrets' = secrets /\ vaultDraft' = [vaultDraft EXCEPT ![u] = Empty]
          /\ vaultUnsure' = vaultUnsure
          BY <2>3 DEF VFile!Fill
    <3>2. VaultSaverAlone
          BY <1>4, <1>6, <3>1 DEF VaultInv
    <3>3. \A v \in VaultUsers : VFile!Saving(v) => v = u
          BY <3>1, <3>2 DEF VaultSaverAlone, OneVaultSaver
    <3>4. vaultFile' = vaultDraft[u]
          BY <3>1, <3>2 DEF VaultSaverAlone, VaultEmptiedIsEmpty, VFile!WrittenOver
    <3>5. /\ \A v \in VaultUsers : ~VFile!Saving(v)'
          /\ VaultDirty' <=> VaultDirty
      <4>1. \A v \in VaultUsers : v # u => vaultPhase'[v] = vaultPhase[v]
            BY <1>1, <3>1
      <4>2. vaultPhase'[u] = "idle"
            BY <1>1, <3>1
      <4> QED
        BY <3>1, <3>3, <4>1, <4>2 DEF VaultDirty
    <3>6. VaultDirty \/ vaultDraft[u] = secrets
          BY <3>1, <3>2 DEF VaultSaverAlone, DraftIsVault
    <3>7. OneVaultSaver' /\ VaultEmptiedIsEmpty' /\ DraftIsVault'
          BY <3>5 DEF OneVaultSaver, VaultEmptiedIsEmpty, DraftIsVault
    <3>8. VaultUnsavedIsDirty'
          BY <3>1, <3>4, <3>5, <3>6 DEF VaultUnsavedIsDirty
    <3> QED
      BY <3>7, <3>8 DEF VaultSaverAlone
  <2>4. CASE VFile!WriteFails(u)
        BY <1>6, <2>4 DEF VFile!WriteFails
  <2> QED
    BY <2>1, <2>2, <2>3, <2>4 DEF SaveVault, VFile!SaveStep
<1> QED
  BY <1>5, <1>6

LEMMA NextVault == VaultInv /\ [VaultNext]_vaultVars => VaultInv'
<1> SUFFICES ASSUME VaultInv, [VaultNext]_vaultVars
             PROVE  ClosedIsIdle' /\ (vaultOpen' /\ ~vaultUnsure' => VaultSaverAlone')
    BY VaultTypeStep DEF VaultInv
<1> USE DEF VFile!Saving
<1>1. vaultPhase \in [VaultUsers -> {"idle", "save", "encoded", "emptied"}]
      BY DEF VaultInv, VaultTypeOK
<1>2. CASE OpenVault
  <2>1. \A u \in VaultUsers : vaultPhase'[u] = "idle"
        BY <1>2 DEF OpenVault, VaultInv, ClosedIsIdle
  <2>2. vaultFile' = secrets'
        BY <1>2 DEF OpenVault
  <2> QED
    BY <2>1, <2>2
    DEF ClosedIsIdle, VaultSaverAlone, OneVaultSaver, VaultEmptiedIsEmpty, DraftIsVault,
        VaultUnsavedIsDirty
<1>3. CASE RemoveVault
      BY <1>3 DEF RemoveVault, VaultInv, ClosedIsIdle
<1>4. CASE VaultCrash
      BY <1>4 DEF VaultCrash, ClosedIsIdle
<1>5. ASSUME NEW u \in VaultUsers, AddSecret(u) \/ RemoveSecret(u) \/ SetValidity(u)
      PROVE  ClosedIsIdle' /\ (vaultOpen' /\ ~vaultUnsure' => VaultSaverAlone')
  <2>1. /\ vaultPhase' = [vaultPhase EXCEPT ![u] = "save"] /\ vaultPhase[u] = "idle"
        /\ vaultOpen /\ UNCHANGED <<vaultFile, vaultDraft, vaultUnsure, vaultOpen>>
        BY <1>5 DEF AddSecret, RemoveSecret, SetValidity, Changed
  <2>2. \A v \in VaultUsers :
          /\ vaultPhase'[v] = "emptied" <=> vaultPhase[v] = "emptied"
          /\ VFile!Saving(v)' <=> VFile!Saving(v)
        BY <1>1, <2>1
  <2>3. VaultDirty'
        BY <1>1, <2>1 DEF VaultDirty
  <2>4. ASSUME VaultSaverAlone PROVE VaultSaverAlone'
    <3>1. OneVaultSaver'
          BY <2>2, <2>4 DEF VaultSaverAlone, OneVaultSaver
    <3>2. VaultEmptiedIsEmpty'
          BY <2>1, <2>2, <2>4 DEF VaultSaverAlone, VaultEmptiedIsEmpty
    <3> QED
      BY <2>3, <3>1, <3>2 DEF VaultSaverAlone, DraftIsVault, VaultUnsavedIsDirty
  <2> QED
    BY <2>1, <2>4 DEF VaultInv, ClosedIsIdle
<1>6. ASSUME NEW u \in VaultUsers, SaveVault(u)
      PROVE  ClosedIsIdle' /\ (vaultOpen' /\ ~vaultUnsure' => VaultSaverAlone')
      BY <1>6, VaultSaveKeepsAlone
<1>7. CASE UNCHANGED vaultVars
      BY <1>7
      DEF vaultVars, VaultInv, ClosedIsIdle, VaultSaverAlone, OneVaultSaver, VaultEmptiedIsEmpty,
          DraftIsVault, VaultUnsavedIsDirty, VaultDirty
<1> QED
  BY <1>2, <1>3, <1>4, <1>5, <1>6, <1>7 DEF VaultNext

\* However its callers interleave, it takes two saves at once or a failed save to leave the
\* vault's file without what its memory holds.
THEOREM VaultIsBacked ==
  VaultInit /\ [][VaultNext]_vaultVars => [](VaultTypeOK /\ VaultBacked)
<1>1. VaultInv => VaultTypeOK /\ VaultBacked
      BY DEF VaultInv, VaultBacked, VFile!Backed, VFile!Saving, VaultSaverAlone,
             VaultUnsavedIsDirty, VaultDirty
<1> QED
  BY <1>1, InitVault, NextVault, PTL

-----------------------------------------------------------------------------
(* Sessions: ids are given once, and the rows a statement changes keep theirs. *)

SessionIdsUnique == \A s, t \in sessions : s.id = t.id => s = t
SessionIdsGiven == \A s \in sessions : s.id <= lastId

\* The type invariant, the count of ids left out.
TablesTyped ==
  /\ rows \subseteq ProfileRows /\ sessions \subseteq SessionRow
  /\ snapshots \subseteq 1..MaxSessions
  /\ lastId \in 0..MaxSessions /\ sessionID \in 0..lastId
  /\ loops \in 0..2 /\ (loops > 0 => sessionID # NoSession)
  /\ strayed \in BOOLEAN

SessionsInv ==
  /\ TablesTyped
  /\ SessionIdsUnique
  /\ SessionIdsGiven
  /\ SessionsLinked

\* Where every session has an id of its own, there are as many ids as sessions.
LEMMA IdsCountSessions ==
  ASSUME MaxSessions \in Nat, sessions \subseteq SessionRow, SessionIdsUnique
  PROVE  Cardinality(IdsIn(sessions)) = Cardinality(sessions)
<1>1. IsFiniteSet(IdsIn(sessions))
  <2>1. IsFiniteSet(1..MaxSessions)
        BY FS_Interval
  <2>2. IdsIn(sessions) \subseteq 1..MaxSessions
        BY DEF IdsIn, SessionRow
  <2> QED
    BY <2>1, <2>2, FS_Subset
<1> DEFINE row(x) == CHOOSE s \in sessions : s.id = x
           f == [x \in IdsIn(sessions) |-> row(x)]
<1>2. \A x \in IdsIn(sessions) : row(x) \in sessions /\ row(x).id = x
      BY DEF IdsIn
<1>3. \A s \in sessions : s.id \in IdsIn(sessions) /\ row(s.id) = s
  <2>1. \A s \in sessions : s.id \in IdsIn(sessions)
        BY DEF IdsIn
  <2> QED
    BY <1>2, <2>1 DEF SessionIdsUnique
<1> HIDE DEF row
<1>4. f \in Bijection(IdsIn(sessions), sessions)
  <2>1. f \in [IdsIn(sessions) -> sessions]
        BY <1>2
  <2>2. \A x, y \in IdsIn(sessions) : f[x] = f[y] => x = y
        BY <1>2
  <2>3. \A s \in sessions : \E x \in IdsIn(sessions) : f[x] = s
        BY <1>3
  <2> HIDE DEF f
  <2> QED
    BY <2>1, <2>2, <2>3, Fun_IsBij
<1> QED
  BY <1>1, <1>4, FS_Bijection DEF ExistsBijection

LEMMA InitSessions == SessionsInit => SessionsInv
<1> SUFFICES ASSUME SessionsInit PROVE SessionsInv
    OBVIOUS
<1> USE SessionsAssumption DEF SessionsAssumption, SessionsInit
<1>1. TablesTyped
  <2>1. strayed \in BOOLEAN
        OBVIOUS
  <2>2. /\ lastId \in 0..MaxSessions /\ sessionID \in 0..lastId
        /\ loops \in 0..2 /\ ~(loops > 0)
        OBVIOUS
  <2> QED
    BY <2>1, <2>2 DEF TablesTyped
<1>2. SessionIdsUnique /\ SessionIdsGiven /\ SessionsLinked
      BY DEF SessionIdsUnique, SessionIdsGiven, SessionsLinked, IdsIn
<1> QED
  BY <1>1, <1>2 DEF SessionsInv

\* Rows go, with or without their snapshots; the profiles may lose one that no row that
\* stays has.
LEMMA WithoutKeeps ==
  ASSUME SessionsInv, NEW gone \in SUBSET sessions, NEW fk \in BOOLEAN, Without(gone, fk),
         rows' \subseteq rows,
         \A s \in sessions \ gone : fk /\ s.profile \in rows => s.profile \in rows',
         UNCHANGED <<lastId, sessionID, loops>>
  PROVE  SessionsInv'
<1>1. strayed' \in BOOLEAN
      BY DEF SessionsInv, TablesTyped, Without, On
<1>2. TablesTyped'
      BY <1>1 DEF SessionsInv, TablesTyped, Without
<1>3. SessionIdsUnique' /\ SessionIdsGiven'
      BY DEF SessionsInv, SessionIdsUnique, SessionIdsGiven, Without
<1>4. SessionsLinked'
  <2>1. SUFFICES ASSUME ~strayed'
                 PROVE  /\ \A s \in sessions' : s.profile \in rows'
                        /\ snapshots' \subseteq IdsIn(sessions')
        BY DEF SessionsLinked
  <2>2. fk /\ ~strayed
        BY <2>1 DEF Without, On
  <2>3. /\ \A s \in sessions : s.profile \in rows
        /\ snapshots \subseteq IdsIn(sessions)
        BY <2>2 DEF SessionsInv, SessionsLinked
  <2>4. \A s \in sessions' : s.profile \in rows'
        BY <2>2, <2>3 DEF Without
  <2>5. snapshots' \subseteq IdsIn(sessions')
        BY <2>2, <2>3 DEF Without, IdsIn
  <2> QED
    BY <2>4, <2>5
<1> QED
  BY <1>2, <1>3, <1>4 DEF SessionsInv

\* A statement that changes sessions in place: each comes from one with its id and its
\* profile, and none goes.
InPlace ==
  /\ sessions' \subseteq SessionRow
  /\ \A t \in sessions' : \E s \in sessions : t.id = s.id /\ t.profile = s.profile
  /\ \A s \in sessions : \E t \in sessions' : t.id = s.id
  /\ \A t, v \in sessions' : t.id = v.id => t = v

LEMMA InPlaceKeeps ==
  ASSUME SessionsInv, InPlace, strayed' \in BOOLEAN, strayed => strayed',
         UNCHANGED <<rows, snapshots, lastId, sessionID, loops>>
  PROVE  SessionsInv'
<1>1. TablesTyped'
      BY DEF SessionsInv, TablesTyped, InPlace
<1>2. SessionIdsUnique'
      BY DEF InPlace, SessionIdsUnique
<1>3. SessionIdsGiven'
      BY DEF SessionsInv, SessionIdsGiven, InPlace
<1>4. SessionsLinked'
      BY DEF SessionsInv, SessionsLinked, InPlace, IdsIn
<1> QED
  BY <1>1, <1>2, <1>3, <1>4 DEF SessionsInv

LEMMA EndSessionInPlace ==
  ASSUME SessionsInv, NEW fk \in BOOLEAN, EndSession(fk)
  PROVE  InPlace
<1>1. sessions \subseteq SessionRow
      BY DEF SessionsInv, TablesTyped
<1> DEFINE ended(s) == IF s.id = sessionID THEN [s EXCEPT !.ended = "newer"] ELSE s
<1>2. sessions' = {ended(s) : s \in sessions}
      BY DEF EndSession
<1>3. ASSUME NEW s \in sessions
      PROVE  ended(s) \in SessionRow /\ ended(s).id = s.id /\ ended(s).profile = s.profile
      BY <1>1 DEF SessionRow, Ages
<1> HIDE DEF ended
<1> QED
  BY <1>2, <1>3 DEF InPlace, SessionsInv, SessionIdsUnique

LEMMA GrowOldInPlace ==
  ASSUME SessionsInv, GrowOld
  PROVE  InPlace
<1>1. sessions \subseteq SessionRow
      BY DEF SessionsInv, TablesTyped
<1>2. PICK s \in sessions :
        /\ s.ended \in {"newer", "sameDay"}
        /\ sessions' = (sessions \ {s}) \cup
             {[s EXCEPT !.ended = IF @ = "newer" THEN "sameDay" ELSE "older"]}
      BY DEF GrowOld
<1> DEFINE older == [s EXCEPT !.ended = IF @ = "newer" THEN "sameDay" ELSE "older"]
<1>3. older \in SessionRow /\ older.id = s.id /\ older.profile = s.profile
      BY <1>1 DEF SessionRow, Ages
<1>4. sessions' = (sessions \ {s}) \cup {older}
      BY <1>2
<1> HIDE DEF older
<1> QED
  BY <1>1, <1>3, <1>4 DEF InPlace, SessionsInv, SessionIdsUnique

LEMMA NextSessions == SessionsInv /\ [SessionsNext]_sessionVars => SessionsInv'
<1> SUFFICES ASSUME SessionsInv, [SessionsNext]_sessionVars PROVE SessionsInv'
    OBVIOUS
<1>1. /\ rows \subseteq ProfileRows /\ sessions \subseteq SessionRow
      /\ snapshots \subseteq 1..MaxSessions
      /\ lastId \in 0..MaxSessions /\ sessionID \in 0..lastId
      /\ loops \in 0..2 /\ (loops > 0 => sessionID # NoSession)
      /\ MaxSessions \in Nat /\ NoSession = 0
      BY SessionsAssumption DEF SessionsAssumption, SessionsInv, TablesTyped
<1>2. strayed \in BOOLEAN
      BY DEF SessionsInv, TablesTyped
<1>3. ASSUME NEW fk \in BOOLEAN, NEW p \in ProfileRows, CreateRow(p, fk) PROVE SessionsInv'
  <2>1. strayed' \in BOOLEAN /\ (strayed => strayed')
        BY <1>2, <1>3 DEF CreateRow, On
  <2>2. TablesTyped'
        BY <1>1, <1>3, <2>1 DEF TablesTyped, CreateRow
  <2>3. SessionIdsUnique' /\ SessionIdsGiven' /\ SessionsLinked'
        BY <1>3, <2>1
        DEF CreateRow, SessionsInv, SessionIdsUnique, SessionIdsGiven, SessionsLinked, IdsIn
  <2> QED
    BY <2>2, <2>3 DEF SessionsInv
<1>4. ASSUME NEW fk \in BOOLEAN, NEW p \in ProfileRows, DeleteRow(p, fk) PROVE SessionsInv'
  <2> DEFINE gone == {s \in sessions : fk /\ s.profile = p}
  <2>1. /\ Without(gone, fk) /\ rows' = rows \ {p}
        /\ UNCHANGED <<lastId, sessionID, loops>>
        BY <1>4 DEF DeleteRow
  <2>2. \A s \in sessions \ gone : fk /\ s.profile \in rows => s.profile \in rows'
        BY <2>1
  <2>3. gone \in SUBSET sessions /\ rows' \subseteq rows
        BY <2>1
  <2> HIDE DEF gone
  <2> QED
    BY <2>1, <2>2, <2>3, WithoutKeeps
<1>5. ASSUME NEW fk \in BOOLEAN, NEW p \in ProfileRows, StartSession(p, fk) PROVE SessionsInv'
  <2> DEFINE new == [id |-> lastId', profile |-> p, ended |-> "open"]
  <2>1. /\ fk => p \in rows
        /\ lastId < MaxSessions /\ lastId' = lastId + 1 /\ sessionID' = lastId'
        /\ sessions' = sessions \cup {new} /\ UNCHANGED <<rows, snapshots>>
        /\ strayed' = (strayed \/ ~fk)
        /\ loops' = IF loops = 0 THEN 1 ELSE 2
        BY <1>5 DEF StartSession, InsertSession, On
  <2>2. strayed' \in BOOLEAN
        BY <1>2, <2>1
  <2>3. /\ lastId' \in 1..MaxSessions /\ sessionID' \in 0..lastId' /\ sessionID' # NoSession
        /\ loops' \in 0..2
        BY <1>1, <2>1
  <2>4. /\ new \in SessionRow /\ new.id = lastId' /\ new.profile = p
        BY <2>3 DEF SessionRow, Ages
  <2> HIDE DEF new
  <2>5. TablesTyped'
        BY <1>1, <2>1, <2>2, <2>3, <2>4 DEF TablesTyped
  <2>6. \A s \in sessions : s.id \in Nat /\ s.id <= lastId
        BY <1>1 DEF SessionsInv, SessionIdsGiven, SessionRow
  <2>7. SessionIdsUnique'
    <3>1. \A s \in sessions : s.id # new.id
          BY <1>1, <2>1, <2>4, <2>6
    <3> QED
      BY <2>1, <3>1 DEF SessionsInv, SessionIdsUnique
  <2>8. SessionIdsGiven'
    <3>1. \A s \in sessions : s.id <= lastId'
          BY <1>1, <2>1, <2>6
    <3> QED
      BY <2>1, <2>3, <2>4, <3>1 DEF SessionIdsGiven
  <2>9. SessionsLinked'
        BY <2>1, <2>4 DEF SessionsInv, SessionsLinked, IdsIn
  <2> QED
    BY <2>5, <2>7, <2>8, <2>9 DEF SessionsInv
<1>6. ASSUME NEW fk \in BOOLEAN, EndSession(fk) PROVE SessionsInv'
  <2>1. /\ strayed' \in BOOLEAN /\ (strayed => strayed')
        /\ UNCHANGED <<rows, snapshots, lastId, sessionID, loops>>
        BY <1>2, <1>6 DEF EndSession, On
  <2> QED
    BY <1>6, <2>1, EndSessionInPlace, InPlaceKeeps
<1>7. ASSUME NEW fk \in BOOLEAN, SaveSnapshot(fk) PROVE SessionsInv'
  <2>1. /\ sessionID # 0 /\ (fk => sessionID \in IdsIn(sessions))
        /\ snapshots' = snapshots \cup {sessionID} /\ strayed' = (strayed \/ ~fk)
        /\ UNCHANGED <<rows, sessions, lastId, sessionID, loops>>
        BY <1>1, <1>7 DEF SaveSnapshot, On
  <2>2. strayed' \in BOOLEAN
        BY <1>2, <2>1
  <2>3. sessionID \in 1..MaxSessions
        BY <1>1, <2>1
  <2>4. TablesTyped'
        BY <1>1, <2>1, <2>2, <2>3 DEF TablesTyped
  <2>5. SessionIdsUnique' /\ SessionIdsGiven'
        BY <2>1 DEF SessionsInv, SessionIdsUnique, SessionIdsGiven
  <2>6. SessionsLinked'
        BY <2>1 DEF SessionsInv, SessionsLinked, IdsIn
  <2> QED
    BY <2>4, <2>5, <2>6 DEF SessionsInv
<1>8. ASSUME NEW fk \in BOOLEAN, CleanupOldSessions(fk) PROVE SessionsInv'
  <2> DEFINE gone == {s \in sessions : s.ended \in {"sameDay", "older"}}
  <2>1. Without(gone, fk) /\ UNCHANGED <<rows, lastId, sessionID, loops>>
        BY <1>8 DEF CleanupOldSessions
  <2>2. gone \in SUBSET sessions
        OBVIOUS
  <2> HIDE DEF gone
  <2> QED
    BY <2>1, <2>2, WithoutKeeps
<1>9. CASE GrowOld
  <2>1. /\ strayed' \in BOOLEAN /\ (strayed => strayed')
        /\ UNCHANGED <<rows, snapshots, lastId, sessionID, loops>>
        BY <1>2, <1>9 DEF GrowOld
  <2> QED
    BY <1>9, <2>1, GrowOldInPlace, InPlaceKeeps
<1>10. CASE RestartPersister
  <2>1. /\ strayed' = strayed /\ sessionID' = 0 /\ loops' = 0
        /\ UNCHANGED <<rows, sessions, snapshots, lastId>>
        BY <1>1, <1>10 DEF RestartPersister
  <2>2. strayed' \in BOOLEAN /\ sessionID' \in 0..lastId' /\ loops' \in 0..2 /\ ~(loops' > 0)
        BY <1>1, <1>2, <2>1
  <2>3. TablesTyped'
        BY <1>1, <2>1, <2>2 DEF TablesTyped
  <2> QED
    BY <2>1, <2>3 DEF SessionsInv, SessionIdsUnique, SessionIdsGiven, SessionsLinked, IdsIn
<1>11. CASE UNCHANGED sessionVars
  <2>1. UNCHANGED <<rows, sessions, snapshots, lastId, sessionID, loops>> /\ strayed' = strayed
        BY <1>11 DEF sessionVars
  <2>2. strayed' \in BOOLEAN
        BY <1>2, <2>1
  <2>3. TablesTyped'
        BY <1>1, <2>1, <2>2 DEF TablesTyped
  <2> QED
    BY <2>1, <2>3 DEF SessionsInv, SessionIdsUnique, SessionIdsGiven, SessionsLinked, IdsIn
<1> QED
  BY <1>3, <1>4, <1>5, <1>6, <1>7, <1>8, <1>9, <1>10, <1>11 DEF SessionsNext

\* The tables have their types, no two sessions have one id, and while every statement found
\* the connection with foreign keys, a session has its profile and a snapshot its session.
THEOREM SessionsAreLinked ==
  SessionsInit /\ [][SessionsNext]_sessionVars => [](SessionsTypeOK /\ SessionsLinked)
<1>1. SessionsInv => SessionsTypeOK /\ SessionsLinked
  <2> SUFFICES ASSUME SessionsInv PROVE SessionsTypeOK /\ SessionsLinked
      OBVIOUS
  <2>1. Cardinality(IdsIn(sessions)) = Cardinality(sessions)
        BY IdsCountSessions, SessionsAssumption
        DEF SessionsAssumption, SessionsInv, TablesTyped
  <2> QED
    BY <2>1, Zenon DEF SessionsInv, TablesTyped, SessionsTypeOK
<1> QED
  BY <1>1, InitSessions, NextSessions, PTL

\* A session that has not ended, or ended after the day of the cutoff, stays with its
\* snapshots unless its profile goes: cleaning up deletes neither, and no delete cascades to
\* what belongs to another session.
THEOREM RecentSessionsAreKept ==
  SessionsInit /\ [][SessionsNext]_sessionVars => RecentSessionsKept
<1> DEFINE Kept ==
      \A s \in sessions : s.ended \in {"open", "newer"} =>
        \/ s.profile \notin rows'
        \/ s.id \in IdsIn(sessions') /\ (s.id \in snapshots => s.id \in snapshots')
<1>1. ASSUME SessionsInv, [SessionsNext]_sessionVars PROVE [Kept]_sessionVars
  <2> SUFFICES ASSUME SessionsNext PROVE Kept
      BY <1>1
  <2>1. ASSUME sessions' = sessions, snapshots \subseteq snapshots' PROVE Kept
        BY <2>1 DEF IdsIn
  <2>2. ASSUME InPlace, UNCHANGED snapshots PROVE Kept
        BY <2>2 DEF InPlace, IdsIn
  <2>3. ASSUME NEW gone \in SUBSET sessions, NEW fk \in BOOLEAN, Without(gone, fk),
               \A s \in gone : s.ended \in {"open", "newer"} => s.profile \notin rows'
        PROVE  Kept
    <3> SUFFICES ASSUME NEW s \in sessions, s \notin gone
                 PROVE  s.id \in IdsIn(sessions') /\ (s.id \in snapshots => s.id \in snapshots')
        BY <2>3
    <3>1. s \in sessions' /\ s.id \notin IdsIn(gone)
          BY <1>1, <2>3 DEF Without, IdsIn, SessionsInv, SessionIdsUnique
    <3> QED
      BY <2>3, <3>1 DEF Without, IdsIn
  <2>4. ASSUME NEW fk \in BOOLEAN, NEW p \in ProfileRows, DeleteRow(p, fk) PROVE Kept
    <3> DEFINE gone == {s \in sessions : fk /\ s.profile = p}
    <3>1. Without(gone, fk) /\ \A s \in gone : s.profile \notin rows'
          BY <2>4 DEF DeleteRow
    <3>2. gone \in SUBSET sessions
          OBVIOUS
    <3> HIDE DEF gone
    <3> QED
      BY <2>3, <3>1, <3>2
  <2>5. ASSUME NEW fk \in BOOLEAN, NEW p \in ProfileRows, StartSession(p, fk) PROVE Kept
    <3> DEFINE new == [id |-> lastId', profile |-> p, ended |-> "open"]
    <3>1. sessions' = sessions \cup {new} /\ UNCHANGED snapshots
          BY <2>5 DEF StartSession, InsertSession
    <3> HIDE DEF new
    <3> QED
      BY <3>1 DEF IdsIn
  <2>6. ASSUME NEW fk \in BOOLEAN, CleanupOldSessions(fk) PROVE Kept
    <3> DEFINE gone == {s \in sessions : s.ended \in {"sameDay", "older"}}
    <3>1. Without(gone, fk) /\ \A s \in gone : s.ended \notin {"open", "newer"}
          BY <2>6 DEF CleanupOldSessions
    <3>2. gone \in SUBSET sessions
          OBVIOUS
    <3> HIDE DEF gone
    <3> QED
      BY <2>3, <3>1, <3>2
  <2>7. ASSUME \/ \E fk \in BOOLEAN : SaveSnapshot(fk) \/ \E p \in ProfileRows : CreateRow(p, fk)
               \/ RestartPersister
        PROVE  Kept
        BY <2>1, <2>7 DEF SaveSnapshot, CreateRow, RestartPersister
  <2>8. ASSUME (\E fk \in BOOLEAN : EndSession(fk)) \/ GrowOld PROVE Kept
    <3>1. InPlace /\ UNCHANGED snapshots
          BY <1>1, <2>8, EndSessionInPlace, GrowOldInPlace DEF EndSession, GrowOld
    <3> QED
      BY <2>2, <3>1
  <2> HIDE DEF Kept
  <2> QED
    BY <2>4, <2>5, <2>6, <2>7, <2>8 DEF SessionsNext
<1> QED
  BY <1>1, InitSessions, NextSessions, PTL DEF RecentSessionsKept

-----------------------------------------------------------------------------
(* The composition: each behaviour uses one store, the others stay.           *)

LEMMA StoresBegin == Init => ProfilesInit /\ ConfigInit /\ VaultInit /\ SessionsInit
BY DEF Init

LEMMA OneStoreSteps ==
  [Next]_vars => /\ [ProfilesNext]_profileVars /\ [ConfigNext]_configVars
                 /\ [VaultNext]_vaultVars /\ [SessionsNext]_sessionVars
<1> SUFFICES ASSUME [Next]_vars
             PROVE  /\ [ProfilesNext]_profileVars /\ [ConfigNext]_configVars
                    /\ [VaultNext]_vaultVars /\ [SessionsNext]_sessionVars
    OBVIOUS
<1>1. CASE ProfilesNext /\ UNCHANGED <<configVars, vaultVars, sessionVars>>
      BY <1>1
<1>2. CASE ConfigNext /\ UNCHANGED <<profileVars, vaultVars, sessionVars>>
      BY <1>2
<1>3. CASE VaultNext /\ UNCHANGED <<profileVars, configVars, sessionVars>>
      BY <1>3
<1>4. CASE SessionsNext /\ UNCHANGED <<profileVars, configVars, vaultVars>>
      BY <1>4
<1>5. CASE UNCHANGED vars
      BY <1>5 DEF vars
<1> QED
  BY <1>1, <1>2, <1>3, <1>4, <1>5 DEF Next

LEMMA EachStore ==
  Spec => /\ ProfilesInit /\ [][ProfilesNext]_profileVars
          /\ ConfigInit /\ [][ConfigNext]_configVars
          /\ VaultInit /\ [][VaultNext]_vaultVars
          /\ SessionsInit /\ [][SessionsNext]_sessionVars
BY StoresBegin, OneStoreSteps, PTL DEF Spec

\* Every reachable state of every store has its type.
THEOREM StoresTypeCorrect == Spec => []StoresTypeOK
<1>1. ProfilesTypeOK /\ ConfigTypeOK /\ VaultTypeOK /\ SessionsTypeOK => StoresTypeOK
      BY DEF StoresTypeOK
<1> QED
  BY <1>1, EachStore, ProfilesAreSafe, ConfigIsBacked, VaultIsBacked, SessionsAreLinked, PTL

\* In the composition, no two profiles have one id and at most one is active, in memory and
\* in a file that can be read.
THEOREM ProfilesStaySafe == Spec => []ProfilesSafe
BY EachStore, ProfilesAreSafe, PTL

\* In the composition, what is written agrees with what it is written from, and with itself.
THEOREM StoresAlwaysAgree == Spec => []StoresAgree
<1>1. ConfigBacked /\ VaultBacked /\ SessionsLinked => StoresAgree
      BY DEF StoresAgree
<1> QED
  BY <1>1, EachStore, ConfigIsBacked, VaultIsBacked, SessionsAreLinked, PTL

\* In the composition, what no request asked to remove stays: the file that could not be
\* read, and the sessions that have not ended.
THEOREM StoresAlwaysKeep == Spec => StoresKeep
BY EachStore, UnreadFileIsKept, RecentSessionsAreKept, PTL DEF StoresKeep
=============================================================================
