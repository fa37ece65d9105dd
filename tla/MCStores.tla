------------------------------ MODULE MCStores ------------------------------
(***************************************************************************)
(* The stores of the program share no state either: each behaviour uses    *)
(* one of them.                                                            *)
(***************************************************************************)
EXTENDS Profiles, AppConfig, Vault, Sessions

VARIABLE store

\* A default configuration of current version.
MCDefaults == [f \in Fields |-> 1]

\* Requests, and tokens, are interchangeable.
Symmetry ==
  Permutations(ConfigClients) \cup Permutations(VaultUsers) \cup Permutations(Secrets)

Init ==
  /\ store \in {"profiles", "config", "vault", "sessions"}
  /\ ProfilesInit /\ ConfigInit /\ VaultInit /\ SessionsInit

vars == <<store, profileVars, configVars, vaultVars, sessionVars>>

Next ==
  /\ UNCHANGED store
  /\ \/ /\ store = "profiles" /\ ProfilesNext
        /\ UNCHANGED <<configVars, vaultVars, sessionVars>>
     \/ /\ store = "config" /\ ConfigNext
        /\ UNCHANGED <<profileVars, vaultVars, sessionVars>>
     \/ /\ store = "vault" /\ VaultNext
        /\ UNCHANGED <<profileVars, configVars, sessionVars>>
     \/ /\ store = "sessions" /\ SessionsNext
        /\ UNCHANGED <<profileVars, configVars, vaultVars>>

Spec == Init /\ [][Next]_vars

-----------------------------------------------------------------------------
StoresTypeOK == ProfilesTypeOK /\ ConfigTypeOK /\ VaultTypeOK /\ SessionsTypeOK

\* What is written agrees with what it is written from, and with itself.
StoresAgree == ConfigBacked /\ VaultBacked /\ SessionsLinked

\* What no request asked to remove stays.
StoresKeep == UnreadFileKept /\ RecentSessionsKept
=============================================================================
