----------------------------- MODULE Directory -----------------------------
(***************************************************************************)
(* The directory of a network: the profiles of its validators and the      *)
(* links between their keys, published side by side on one DHT.  Neither   *)
(* reads the other: no tier and no certification follows a link.           *)
(***************************************************************************)
EXTENDS Profiles, IdentityLinks

directoryVars == <<profileVars, identityVars>>

DirectoryTypeOK == ProfilesTypeOK /\ IdentityTypeOK

DirectoryInit == ProfilesInit /\ IdentityInit

DirectoryNext ==
    \/ ProfilesNext /\ UNCHANGED identityVars
    \/ IdentityNext /\ UNCHANGED profileVars

DirectorySpec == DirectoryInit /\ [][DirectoryNext]_directoryVars
=============================================================================
