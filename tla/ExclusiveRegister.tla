-------------------------- MODULE ExclusiveRegister --------------------------
(***************************************************************************)
(* What sessions promise about their reviewed memories: each is a register  *)
(* that only its present owner replaces or erases, and only while what the  *)
(* owner takes for the current version is the current version, so that no   *)
(* writer ever overwrites something it has not seen.  An owner learns the   *)
(* version when it takes the register and forgets it when it lets go (or    *)
(* dies); an erasure that was still owed may be carried out while letting   *)
(* go.  One step may let go of a register and take another.                 *)
(***************************************************************************)
CONSTANTS Keys, Owners, Nobody, Empty, Versions

VARIABLES owner,    \* who may write each register, or Nobody
          version,  \* the version stored, or Empty
          seen      \* the version the owner believes to be stored

vars == <<owner, version, seen>>

Init ==
    /\ owner = [k \in Keys |-> Nobody]
    /\ version = [k \in Keys |-> Empty]
    /\ seen = [k \in Keys |-> Empty]

UpToDate(k) == owner[k] # Nobody /\ seen[k] = version[k]

Take(k) ==
    /\ owner[k] = Nobody
    /\ owner'[k] \in Owners
    /\ seen'[k] = version[k]
    /\ version'[k] = version[k]

Publish(k) ==
    /\ UpToDate(k)
    /\ version'[k] \in Versions
    /\ seen'[k] = version'[k]
    /\ owner'[k] = owner[k]

Erase(k) ==
    /\ UpToDate(k)
    /\ version'[k] = Empty /\ seen'[k] = Empty
    /\ owner'[k] = owner[k]

LetGo(k) ==
    /\ owner[k] # Nobody
    /\ owner'[k] = Nobody /\ seen'[k] = Empty
    /\ version'[k] = version[k] \/ (UpToDate(k) /\ version'[k] = Empty)

Keep(k) == owner'[k] = owner[k] /\ version'[k] = version[k] /\ seen'[k] = seen[k]

Next ==
    /\ owner' \in [Keys -> Owners \cup {Nobody}]
    /\ version' \in [Keys -> Versions \cup {Empty}]
    /\ seen' \in [Keys -> Versions \cup {Empty}]
    /\ \A k \in Keys : Take(k) \/ Publish(k) \/ Erase(k) \/ LetGo(k) \/ Keep(k)

Spec == Init /\ [][Next]_vars
=============================================================================
