-------------------------- MODULE DestinationImport --------------------------
(***************************************************************************)
(* One destination host between migration.ready and migration.finalize.    *)
(*                                                                         *)
(* In HostMigration a row that the host takes after ready may make         *)
(* finalize refuse for good.  This module looks at which rows can: ready   *)
(* validates the snapshot against the host's state, the stage then         *)
(* reserves what the snapshot names, and finalize validates again          *)
(* (applySnapshot calls validateSnapshot) in whatever state the host's own *)
(* commands and other companies' imports have left.  Only the parts of     *)
(* validateSnapshot that read the host's state are modelled: the rest is a *)
(* function of the snapshot alone and gives the same answer twice.         *)
(***************************************************************************)
EXTENDS Integers, FiniteSets

CONSTANTS
  PersonId,   \* numbers: the order of person IDs, in which jsonb returns them
  Key,
  Genesis,    \* Genesis[p]: the key the person ID is the hash of
  Company,    \* companies that migrate to this host
  Profile,    \* digests of registered protocol contracts
  Admission,  \* profile.admit commands, the provenance of an admitted contract
  Id,         \* IDs of policies, records, installations and modules, and ...
  Published,  \* ... the digests among them of published profiles and releases
  NoRow

ASSUME DestinationAssumption ==
  /\ PersonId \subseteq Nat /\ IsFiniteSet(PersonId)
  /\ NoRow \notin [keys : SUBSET Key, retired : SUBSET Key]
  /\ Genesis \in [PersonId -> Key]
  \* reservedView takes the first of several reserved versions of a person; with
  \* two companies there is only one.
  /\ Cardinality(Company) <= 2

VARIABLES
  people,    \* people[p]: the person's row, or NoRow
  install,   \* install[k]: the installation of a local company holding key k
  admitted,  \* admitted[d]: the command that admitted contract d, or NoRow
  ids,       \* the IDs taken by local rows
  stage,     \* stage[c]: "none", "ready" or "activated"
  snapshot   \* snapshot[c]: the validated snapshot of a ready stage, or NoRow

rows == <<people, install, admitted, ids>>
import_vars == <<rows, stage, snapshot>>

InstallState == {"none", "active", "revoked"}

\* A person's row: the key history replayed from the genesis key.
Entry(p) == {e \in [keys : SUBSET Key, retired : SUBSET Key] :
               /\ e.keys # {} /\ e.keys \cap e.retired = {}
               /\ Genesis[p] \in e.keys \cup e.retired}

KeysOf(e) == IF e = NoRow THEN {} ELSE e.keys \cup e.retired

\* Snapshots another host can have exported: every key bound to one identity.
\* "acting" are the persons who can still act for the company: its controllers,
\* active members and pending invitees.
Snapshot ==
  {s \in [people : {f \in [PersonId -> (UNION {Entry(p) : p \in PersonId}) \cup {NoRow}] :
                      \A p \in PersonId : f[p] \in Entry(p) \cup {NoRow}},
          acting : SUBSET PersonId,
          install : [Key -> InstallState],
          profiles : [Profile -> Admission \cup {NoRow}],
          ids : SUBSET Id] :
     /\ \A p \in s.acting : s.people[p] # NoRow
     /\ \A p, q \in PersonId : p # q => KeysOf(s.people[p]) \cap KeysOf(s.people[q]) = {}
     /\ \A p \in PersonId : \A k \in KeysOf(s.people[p]) : s.install[k] = "none"}

IsReady(c) == stage[c] = "ready"

ImportInit ==
  /\ people = [p \in PersonId |-> NoRow]
  /\ install = [k \in Key |-> "none"]
  /\ admitted = [d \in Profile |-> NoRow]
  /\ ids = {}
  /\ stage = [c \in Company |-> "none"]
  /\ snapshot = [c \in Company |-> NoRow]

-----------------------------------------------------------------------------
(* Reservations, as ordinary commands see them.  As in HostMigration, a       *)
(* definition named for a fault is used by no action: a mutant puts it in the *)
(* place of the definition that follows it.                                   *)

PersonReservedFault(p) == FALSE
PersonReserved(p) == \E c \in Company : IsReady(c) /\ snapshot[c].people[p] # NoRow

KeyReserved(k) ==
  \E c \in Company : /\ IsReady(c)
                     /\ \/ \E p \in PersonId : k \in KeysOf(snapshot[c].people[p])
                        \/ snapshot[c].install[k] # "none"

IdReserved(i) == \E c \in Company : IsReady(c) /\ i \in snapshot[c].ids

KeyFree(k) ==
  /\ ~KeyReserved(k)
  /\ \A p \in PersonId : k \notin KeysOf(people[p])
  /\ install[k] = "none"

-----------------------------------------------------------------------------
(* What validateSnapshot compares with the host *)

\* The host's persons, completed with those of another ready stage.
Others(c) == {o \in Company \ {c} : IsReady(o)}
ReservedView(c, p) ==
  IF people[p] # NoRow \/ \A o \in Others(c) : snapshot[o].people[p] = NoRow THEN people[p]
  ELSE snapshot[CHOOSE o \in Others(c) : snapshot[o].people[p] # NoRow].people[p]

\* hostOwners maps each key to the identity written last: the host's persons in
\* ID order, then the persons of ready stages, then installations.
InstallBinds(c, k) ==
  install[k] # "none" \/ \E o \in Others(c) : snapshot[o].install[k] # "none"
PersonOwner(c, k) ==
  LET binds == {p \in PersonId : k \in KeysOf(ReservedView(c, p))}
      reserved == {p \in binds : people[p] = NoRow}
      last == IF reserved # {} THEN reserved ELSE binds
  IN {p \in last : \A q \in last : q <= p}

\* A key that can still act must be free at the host, or the same person's.
KeysAgree(c, s) ==
  /\ \A p \in {q \in PersonId : s.people[q] # NoRow} : \A k \in s.people[p].keys :
       PersonOwner(c, k) \subseteq {p} /\ ~InstallBinds(c, k)
  /\ \A k \in {j \in Key : s.install[j] = "active"} :
       PersonOwner(c, k) = {} /\ ~InstallBinds(c, k)

\* A person who can still act has the same key history at both hosts.
PeopleAgree(c, s) ==
  \A p \in s.acting : ReservedView(c, p) = NoRow \/ ReservedView(c, p) = s.people[p]

\* A contract the host has, or another ready stage brings, is the same row, the
\* command that admitted it included.
AdmissionAgrees(c, d, a) ==
  \A x \in {admitted[d]} \cup {snapshot[o].profiles[d] : o \in Others(c)} : x \in {NoRow, a}
ProfilesAgree(c, s) ==
  \A d \in Profile : s.profiles[d] # NoRow => AdmissionAgrees(c, d, s.profiles[d])

\* No ID of the snapshot is taken or reserved.  A published profile or release may
\* be there already: its row is what its publisher signed, the same at every host.
IdsFreeFault(c, s) == s.ids \cap ids \subseteq Published
IdsFree(c, s) == s.ids \cap (ids \cup UNION {snapshot[o].ids : o \in Others(c)}) \subseteq Published

Valid(c, s) == KeysAgree(c, s) /\ PeopleAgree(c, s) /\ ProfilesAgree(c, s) /\ IdsFree(c, s)

-----------------------------------------------------------------------------
(* Commands of the host's own people and companies *)

\* person.register
Register(p, ks) ==
  /\ people[p] = NoRow /\ ~PersonReserved(p)
  /\ Genesis[p] \in ks
  /\ \A k \in ks : KeyFree(k)
  /\ people' = [people EXCEPT ![p] = [keys |-> ks, retired |-> {}]]
  /\ UNCHANGED <<install, admitted, ids, stage, snapshot>>

\* person.rotate
Rotate(p, add, revoke) ==
  /\ people[p] # NoRow /\ ~PersonReserved(p)
  /\ add \cap revoke = {} /\ revoke \subseteq people[p].keys
  /\ \A k \in add : KeyFree(k)
  /\ (people[p].keys \ revoke) \cup add # {}
  /\ people' = [people EXCEPT ![p] = [keys |-> (@.keys \ revoke) \cup add,
                                      retired |-> @.retired \cup revoke]]
  /\ UNCHANGED <<install, admitted, ids, stage, snapshot>>

\* installation.create and installation.revoke, for the key of the installation
Install(k) ==
  /\ KeyFree(k)
  /\ install' = [install EXCEPT ![k] = "active"]
  /\ UNCHANGED <<people, admitted, ids, stage, snapshot>>
Uninstall(k) ==
  /\ install[k] = "active"
  /\ install' = [install EXCEPT ![k] = "revoked"]
  /\ UNCHANGED <<people, admitted, ids, stage, snapshot>>

\* profile.admit, which consults no reservation
Admit(d, a) ==
  /\ admitted[d] = NoRow
  /\ admitted' = [admitted EXCEPT ![d] = a]
  /\ UNCHANGED <<people, install, ids, stage, snapshot>>

\* policy.create, record.append, profile.publish, release.publish and
\* installation.create, for the ID they take
Claim(i) ==
  /\ i \notin ids /\ ~IdReserved(i)
  /\ ids' = ids \cup {i}
  /\ UNCHANGED <<people, install, admitted, stage, snapshot>>

-----------------------------------------------------------------------------
(* Imports *)

\* The stage's payload goes with the stage.
DropImport(c) == [snapshot EXCEPT ![c] = NoRow]

\* migration.ready
ReadyImport(c, s) ==
  /\ stage[c] = "none"
  /\ Valid(c, s)
  /\ stage' = [stage EXCEPT ![c] = "ready"]
  /\ snapshot' = [snapshot EXCEPT ![c] = s]
  /\ UNCHANGED rows

\* migration.finalize: a person the host has stays as it is, every installation
\* arrives disabled.
ImportPeople(s) == [p \in PersonId |-> IF people[p] # NoRow THEN people[p] ELSE s.people[p]]
ImportInstalls(s) ==
  [k \in Key |-> IF s.install[k] # "none" /\ install[k] = "none" THEN "revoked" ELSE install[k]]
FinalizeImport(c) ==
  LET s == snapshot[c] IN
  /\ IsReady(c)
  /\ Valid(c, s)
  /\ people' = ImportPeople(s)
  /\ install' = ImportInstalls(s)
  /\ admitted' = [d \in Profile |-> IF s.profiles[d] # NoRow THEN s.profiles[d] ELSE admitted[d]]
  /\ ids' = ids \cup s.ids
  /\ stage' = [stage EXCEPT ![c] = "activated"]
  /\ snapshot' = DropImport(c)

\* migration.abort of a cancelled stage; another migration may follow
AbortImport(c) ==
  /\ IsReady(c)
  /\ stage' = [stage EXCEPT ![c] = "none"]
  /\ snapshot' = DropImport(c)
  /\ UNCHANGED rows

ImportNext ==
  \/ \E p \in PersonId, ks \in SUBSET Key : Register(p, ks)
  \/ \E p \in PersonId, add, revoke \in SUBSET Key : Rotate(p, add, revoke)
  \/ \E k \in Key : Install(k) \/ Uninstall(k)
  \/ \E d \in Profile, a \in Admission : Admit(d, a)
  \/ \E i \in Id : Claim(i)
  \/ \E c \in Company, s \in Snapshot : ReadyImport(c, s)
  \/ \E c \in Company : FinalizeImport(c) \/ AbortImport(c)

ImportSpec == ImportInit /\ [][ImportNext]_import_vars

-----------------------------------------------------------------------------
(* Properties *)

\* A key that can act belongs to one identity of the host, whatever mix of
\* commands and imports brought it there (keyFree and claimKey).
ActingKeysUnique ==
  \A k \in Key :
    LET holders == {p \in PersonId : people[p] # NoRow /\ k \in people[p].keys}
    IN /\ Cardinality(holders) <= 1
       /\ install[k] = "active" => holders = {}

\* Policies, records, installations and modules of a ready snapshot stay free
\* until it is installed or aborted.
ReadyIdsHold == \A c \in Company : IsReady(c) => IdsFree(c, snapshot[c])

\* profile.admit took a contract that the snapshot brings with another admission.
RivalAdmission(s) ==
  \E d \in Profile : /\ s.profiles[d] # NoRow /\ admitted[d] = NoRow
                     /\ admitted'[d] \notin {NoRow, s.profiles[d]}

\* Of all commands of the host's own people and companies only such an admission
\* spoils a ready snapshot: what else ready validated, finalize will accept.
LocalCommandsRespectReady ==
  [][(UNCHANGED stage) =>
       \A c \in Company : (IsReady(c) /\ Valid(c, snapshot[c])) =>
         Valid(c, snapshot[c])' \/ RivalAdmission(snapshot[c])]_import_vars

\* No row of the host contradicts a ready snapshot: such a row stays, and would
\* refuse finalize for good (SPEC.md, section 8, step 4).  Said for each kind of
\* identity: the key histories of persons who can still act,
ReadyPeopleHold ==
  \A c \in Company : IsReady(c) =>
    \A p \in snapshot[c].acting : people[p] \in {NoRow, snapshot[c].people[p]}

\* the keys of persons and of active installations,
ReadyKeysHold ==
  \A c \in Company, k \in Key : IsReady(c) =>
    LET s == snapshot[c]
        bound == {q \in PersonId : k \in KeysOf(people[q])}
    IN /\ \A p \in PersonId : (s.people[p] # NoRow /\ k \in s.people[p].keys) => bound \subseteq {p}
       /\ s.install[k] = "active" => bound = {}

\* It takes a second stage to bring such a collision about (the run ImportKeyAliased
\* shows how): no command, and no step of a company that arrives alone, makes the
\* first one.
Lone == \E c \in Company : \A d \in Company \ {c} : stage[d] = "none"
Collisionless == ActingKeysUnique /\ ReadyPeopleHold /\ ReadyKeysHold
LoneArrivalHolds == [][(Lone /\ Lone' /\ Collisionless) => Collisionless']_import_vars

\* What can spoil a ready stage is a rival admission, or a step of another stage:
\* no other command does, and the steps of a company that arrives alone make no
\* collision of identities.
ReadySurvives == LocalCommandsRespectReady /\ LoneArrivalHolds
=============================================================================
