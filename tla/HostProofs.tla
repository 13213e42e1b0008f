------------------------------ MODULE HostProofs ------------------------------
(***************************************************************************)
(* Theorems about a DTP v0.4 host: the custody of a company that migrates  *)
(* (HostMigration), its arrival (DestinationImport) and who may act for it *)
(* (CompanyAuthority).  Each part is about one of the three modules.       *)
(***************************************************************************)
EXTENDS HostMigration, DestinationImport, CompanyAuthority, FiniteSetTheorems, TLAPS

-----------------------------------------------------------------------------
(***************************************************************************)
(* HostMigration: for any number of hosts, request IDs, writes and chunks  *)
(* and for every bound.                                                    *)
(***************************************************************************)

\* Receipts: a commit names a manifest of the source, carries a ready token of
\* that manifest, and its source is frozen at the committed snapshot.
CommitsFreeze ==
  /\ \A c \in commits :
       LET m == c.manifest IN
       /\ c.ready \in readied /\ c.ready.manifest = m
       /\ c.ready.issued_at <= c.issued_at /\ c.issued_at < m.expires_at
       /\ org[m.source].status = "migrated"
  /\ \A b, c \in commits : b.manifest = c.manifest => b = c

\* An open stage holds the place of the company at its destination, alone.
StagesReserve ==
  /\ \A m \in Open : org[m.destination].status = "absent"
  /\ \A m, n \in Open : m.destination = n.destination => m = n

\* The newest generation is where the authority is.
NewestServes ==
  /\ \A h \in Serving, g \in Host :
       org[g].status # "absent" /\ g # h => org[g].generation < org[h].generation
  /\ \A c \in Pending, g \in Host :
       org[g].status # "absent" => org[g].generation <= c.manifest.generation

\* Readiness was given to a snapshot that fits; a row against it came later.
ReadyFits == \A r \in readied : Fits(r.manifest) \/ r.manifest \in spoiled

Inv ==
  /\ TypeOK
  /\ SingleCustody
  /\ GenerationsDiffer
  /\ NothingLeftBehind
  /\ CancelExcludesCommit
  /\ CommitsFreeze
  /\ StagesReserve
  /\ NewestServes
  /\ ReadyFits

-----------------------------------------------------------------------------
(* Type correctness *)

\* In the initial state the tables are well formed.
LEMMA InitTypeOK == Init => TypeOK
  BY DEF Init, TypeOK, Copy, Active, Absent, Open, Time

\* Every handler keeps the tables well formed.
LEMMA NextTypeOK == TypeOK /\ [Next]_vars => TypeOK'
<1> SUFFICES ASSUME TypeOK, [Next]_vars PROVE TypeOK'
  OBVIOUS
<1> USE ConstantsAssumption DEF TypeOK, rivals
<1>1. ASSUME NEW h \in Host, NEW w \in Write, Append(h, w) PROVE TypeOK'
  BY <1>1 DEF Append, Copy, source, staging, Open
<1>2. ASSUME NEW h \in Host, NEW d \in Host, NEW id \in MigrationId, Prepare(h, id, d)
      PROVE TypeOK'
  BY <1>2 DEF Prepare, Manifest, Copy, Time, staging, Open
<1>3. ASSUME NEW h \in Host, NEW r \in readied, Commit(h, r) PROVE TypeOK'
  <2>1. [manifest |-> r.manifest, ready |-> r, issued_at |-> clock[h]] \in CommitToken
    BY <1>3 DEF Commit, CommitToken, ReadyToken, Time
  <2> QED
    BY <1>3, <2>1 DEF Commit, Freeze, Copy, staging, Open
<1>4. ASSUME NEW h \in Host, NEW m \in outgoing, Cancel(h, m) PROVE TypeOK'
  BY <1>4 DEF Cancel, CancelToken, Time, staging, Open
<1>5. ASSUME NEW d \in Host, NEW m \in outgoing, Stage(d, m) PROVE TypeOK'
  BY <1>5 DEF Stage, source, Open
<1>6. ASSUME NEW d \in Host, NEW m \in incoming, NEW c \in Chunk, Upload(d, m, c)
      PROVE TypeOK'
  BY <1>6 DEF Upload, source, Open
<1>7. ASSUME NEW d \in Host, NEW m \in incoming, Ready(d, m) PROVE TypeOK'
  BY <1>7 DEF Ready, source, Open
<1>8. ASSUME NEW d \in Host, NEW c \in commits, Finalize(d, c) PROVE TypeOK'
  <2>1. c.manifest \in Manifest
    BY DEF CommitToken
  <2>2. Active(c.manifest.generation + 1, c.manifest.snapshot) \in Copy
    BY <2>1 DEF Active, Copy, Manifest
  <2>3. org' \in [Host -> Copy]
    BY <1>8, <2>2 DEF Finalize, Apply
  <2>4. chunks' \subseteq Open' \X Chunk
    BY <1>8 DEF Finalize, DropPayload, Open, source
  <2> QED
    BY <1>8, <2>3, <2>4 DEF Finalize, source
<1>9. ASSUME NEW d \in Host, NEW k \in cancels, Abort(d, k) PROVE TypeOK'
  <2>1. chunks' \subseteq Open' \X Chunk
    BY <1>9 DEF Abort, DropPayload, Open, source
  <2> QED
    BY <1>9, <2>1 DEF Abort, source
<1>10. ASSUME NEW h \in Host, Tick(h) PROVE TypeOK'
  BY <1>10 DEF Tick, source, staging, Open, Time
<1>11. ASSUME NEW h \in Host, NEW w \in Write, TakeRow(h, w) PROVE TypeOK'
  BY <1>11 DEF TakeRow, source, staging, Open
<1>12. CASE UNCHANGED vars
  BY <1>12 DEF vars, source, staging, rivals, Open
<1> QED
  BY <1>1, <1>2, <1>3, <1>4, <1>5, <1>6, <1>7, <1>8, <1>9, <1>10, <1>11, <1>12 DEF Next

\* TypeOK is an invariant of every specification of the migration.
THEOREM TypeCorrect == Spec => []TypeOK
  BY InitTypeOK, NextTypeOK, PTL DEF Spec

-----------------------------------------------------------------------------
(* The inductive invariant *)

\* It holds initially: one host serves, and no table has a row.
LEMMA InitInv == Init => Inv
<1> SUFFICES ASSUME Init PROVE Inv
  OBVIOUS
<1>1. TypeOK
  BY InitTypeOK
<1>2. PICK home \in Host : org = [h \in Host |-> IF h = home THEN Active(1, {}) ELSE Absent]
  BY DEF Init
<1>3. Serving = {home} /\ Pending = {}
  BY <1>2 DEF Init, Serving, Pending, Active, Absent
<1> QED
  BY <1>1, <1>2, <1>3 DEF Inv, Init, SingleCustody, GenerationsDiffer, Holders, NothingLeftBehind,
     CancelExcludesCommit, CommitsFreeze, StagesReserve, NewestServes, ReadyFits, Active, Absent,
     Open, Committed, Cancelled

\* Only readiness and a row of the host's own bear on what fits.
LEMMA FitsKept ==
  ASSUME Inv, UNCHANGED <<readied, rivals>> PROVE ReadyFits'
  BY DEF Inv, ReadyFits, Fits, rivals

\* The steps that leave rows, commits and activations alone disturb none of it.
LEMMA UnchangedInv ==
  ASSUME Inv, TypeOK', ReadyFits', UNCHANGED <<org, commits, activated, aborted, incoming>>,
         outgoing \subseteq outgoing', readied \subseteq readied',
         \A m \in outgoing' : Committed(m) => ~Cancelled(m)',
         cancels \subseteq cancels'
  PROVE  Inv'
<1> USE DEF Inv
<1>1. Serving' = Serving /\ Pending' = Pending /\ Open' = Open
  BY DEF Serving, Pending, Open
<1>2. SingleCustody' /\ NothingLeftBehind' /\ GenerationsDiffer'
  BY <1>1 DEF SingleCustody, NothingLeftBehind, GenerationsDiffer, Holders
<1>3. CancelExcludesCommit'
  BY DEF CancelExcludesCommit, Committed, Cancelled
<1>4. CommitsFreeze' /\ StagesReserve' /\ NewestServes'
  BY <1>1 DEF CommitsFreeze, StagesReserve, NewestServes
<1> QED
  BY <1>2, <1>3, <1>4

\* A write at the serving host adds to the only copy that may grow.
LEMMA AppendInv ==
  ASSUME Inv, TypeOK', ReadyFits', NEW h \in Host, NEW w \in Write, Append(h, w) PROVE Inv'
<1> USE DEF Inv
<1>1. /\ h \in Serving
      /\ UNCHANGED <<outgoing, commits, cancels, incoming, readied, activated, aborted>>
      /\ \A g \in Host : /\ org'[g].status = org[g].status
                         /\ org'[g].generation = org[g].generation
                         /\ org[g].content \subseteq org'[g].content
                         /\ g # h => org'[g] = org[g]
  BY DEF Append, TypeOK, Copy, Serving, source, staging
<1>2. Serving' = Serving /\ Pending' = Pending /\ Open' = Open
  BY <1>1 DEF Serving, Pending, Open
<1>3. Pending = {}
  BY <1>1 DEF SingleCustody
<1>4. SingleCustody' /\ GenerationsDiffer' /\ CancelExcludesCommit' /\ StagesReserve'
  BY <1>1, <1>2 DEF SingleCustody, GenerationsDiffer, Holders, CancelExcludesCommit, StagesReserve,
     Committed, Cancelled, TypeOK, Manifest, Open
<1>5. NothingLeftBehind'
  BY <1>1, <1>2, <1>3 DEF NothingLeftBehind, SingleCustody, Serving
<1>6. CommitsFreeze' /\ NewestServes'
  BY <1>1, <1>2 DEF CommitsFreeze, NewestServes, TypeOK, CommitToken, Manifest, Serving
<1> QED
  BY <1>4, <1>5, <1>6

\* A commit freezes the one serving host and leaves one move pending: the stage
\* it answers can only still be open, since an activated or aborted one would
\* have a commit or a cancellation already.
LEMMA CommitInv ==
  ASSUME Inv, TypeOK', ReadyFits', NEW h \in Host, NEW r \in readied, Commit(h, r) PROVE Inv'
<1> USE DEF Inv
<1> DEFINE m == r.manifest
           c == [manifest |-> m, ready |-> r, issued_at |-> clock[h]]
<1>1. /\ commits' = commits \cup {c}
      /\ c.manifest = m /\ c.ready = r /\ c.issued_at = clock[h]
      /\ UNCHANGED <<outgoing, cancels, incoming, readied, activated, aborted>>
      /\ org'[h].status = "migrated"
      /\ \A g \in Host : /\ org'[g].generation = org[g].generation
                         /\ org'[g].content = org[g].content
                         /\ g # h => org'[g] = org[g]
      /\ h \in Serving /\ org[h].generation = m.generation /\ org[h].content = m.snapshot
      /\ ~Cancelled(m) /\ ~Committed(m) /\ m.source = h
  BY DEF Commit, Undecided, SnapshotCurrent, Freeze, TypeOK, Copy, Serving, staging
<1>2. Pending = {} /\ Serving = {h}
  BY <1>1 DEF SingleCustody
<1>3. m \notin activated /\ m \notin aborted /\ m \in incoming
  BY <1>1 DEF CancelExcludesCommit, TypeOK
<1>4. Pending' = {c} /\ Serving' = {} /\ Open' = Open
  BY <1>1, <1>2, <1>3 DEF Pending, Serving, Open
<1>5. SingleCustody' /\ GenerationsDiffer'
  BY <1>1, <1>2, <1>4 DEF SingleCustody, GenerationsDiffer, Holders, Serving
<1>6. NothingLeftBehind'
  BY <1>1, <1>2, <1>4 DEF NothingLeftBehind
<1>7. CancelExcludesCommit'
  BY <1>1 DEF CancelExcludesCommit, Committed, Cancelled
<1>8. CommitsFreeze'
  <2>1. r.issued_at <= clock[h] /\ clock[h] < m.expires_at
    BY DEF Commit, ReadyLive, ClockReached
  <2>2. \A b \in commits : b.manifest # m
    BY <1>1 DEF Committed
  <2>3. \A b \in commits : org'[b.manifest.source].status = "migrated"
    BY <1>1 DEF CommitsFreeze, TypeOK, CommitToken, Manifest
  <2> QED
    BY <1>1, <2>1, <2>2, <2>3 DEF CommitsFreeze
<1>9. StagesReserve'
  BY <1>1, <1>4 DEF StagesReserve, Serving, TypeOK, Open, Manifest
<1>10. NewestServes'
  <2>1. \A g \in Host : org[g].status # "absent" => org[g].generation <= m.generation
    BY <1>1, <1>2 DEF NewestServes, TypeOK, Copy
  <2> QED
    BY <1>1, <1>2, <1>4, <2>1 DEF NewestServes, Serving
<1> QED
  BY <1>5, <1>6, <1>7, <1>8, <1>9, <1>10

\* Finalize turns the one pending commit into the one serving host, at a
\* generation above every copy.
LEMMA FinalizeInv ==
  ASSUME Inv, TypeOK', ReadyFits', NEW d \in Host, NEW c \in commits, Finalize(d, c) PROVE Inv'
<1> USE DEF Inv
<1> DEFINE m == c.manifest
<1>1. /\ m \in Open /\ m.destination = d
      /\ org[d].status = "absent"
      /\ org'[d].status = "active"
      /\ org'[d].generation = m.generation + 1 /\ org'[d].content = m.snapshot
      /\ \A g \in Host : g # d => org'[g] = org[g]
      /\ activated' = activated \cup {m}
      /\ UNCHANGED <<outgoing, commits, cancels, incoming, readied, aborted>>
  BY DEF Finalize, Apply, CommitEvidence, Open, Active, TypeOK, source
<1>2. c \in Pending
  BY <1>1 DEF Pending, Open
<1>3. Pending = {c} /\ Serving = {}
  BY <1>2 DEF SingleCustody
<1>4. Pending' = {} /\ Serving' = {d} /\ Open' = Open \ {m}
  BY <1>1, <1>3 DEF Pending, Serving, Open, CommitsFreeze
<1>5. m.generation \in Nat /\ m.source \in Host /\ m.snapshot \in SUBSET Write
  BY DEF TypeOK, CommitToken, Manifest
<1>6. \A g \in Host : org[g].generation \in Nat
  BY DEF TypeOK, Copy
<1>7. \A g \in Host : org[g].status # "absent" => org[g].generation <= m.generation
  BY <1>2 DEF NewestServes
<1>8. SingleCustody'
  BY <1>4 DEF SingleCustody
<1>9. GenerationsDiffer'
  BY <1>1, <1>5, <1>6, <1>7 DEF GenerationsDiffer, Holders
<1>10. NothingLeftBehind'
  BY <1>1, <1>2, <1>4 DEF NothingLeftBehind
<1>11. CancelExcludesCommit'
  BY <1>1 DEF CancelExcludesCommit, Committed, Cancelled
<1>12. CommitsFreeze'
  BY <1>1 DEF CommitsFreeze, TypeOK, CommitToken, Manifest
<1>13. StagesReserve'
  BY <1>1, <1>4 DEF StagesReserve, TypeOK, Open, Manifest
<1>14. NewestServes'
  BY <1>1, <1>4, <1>5, <1>6, <1>7 DEF NewestServes
<1> QED
  BY <1>8, <1>9, <1>10, <1>11, <1>12, <1>13, <1>14

\* An aborted stage was cancelled, so it is not the one a pending commit needs.
LEMMA AbortInv ==
  ASSUME Inv, TypeOK', ReadyFits', NEW d \in Host, NEW k \in cancels, Abort(d, k) PROVE Inv'
<1> USE DEF Inv
<1>1. /\ UNCHANGED <<org, outgoing, commits, cancels, incoming, readied, activated>>
      /\ aborted' = aborted \cup {k.manifest}
      /\ Open' \subseteq Open
  BY DEF Abort, source, Open
<1>2. Serving' = Serving /\ Pending' = Pending
  BY <1>1 DEF Serving, Pending
<1>3. SingleCustody' /\ GenerationsDiffer' /\ NothingLeftBehind' /\ NewestServes'
  BY <1>1, <1>2 DEF SingleCustody, GenerationsDiffer, Holders, NothingLeftBehind, NewestServes
<1>4. CancelExcludesCommit'
  BY <1>1 DEF CancelExcludesCommit, Committed, Cancelled
<1>5. CommitsFreeze' /\ StagesReserve'
  BY <1>1 DEF CommitsFreeze, StagesReserve
<1> QED
  BY <1>3, <1>4, <1>5

\* A stage takes a place that is free and not reserved.
LEMMA StageInv ==
  ASSUME Inv, TypeOK', ReadyFits', NEW d \in Host, NEW m \in outgoing, Stage(d, m) PROVE Inv'
<1> USE DEF Inv
<1>1. /\ UNCHANGED <<org, outgoing, commits, cancels, readied, activated, aborted>>
      /\ incoming' = incoming \cup {m}
      /\ m.destination = d /\ org[d].status = "absent"
      /\ \A n \in Open : n.destination # d
  BY DEF Stage, Reserved, source
<1>2. Serving' = Serving /\ Pending' = Pending /\ Open' \subseteq Open \cup {m}
  BY <1>1 DEF Serving, Pending, Open
<1>3. SingleCustody' /\ GenerationsDiffer' /\ NothingLeftBehind' /\ NewestServes'
  BY <1>1, <1>2 DEF SingleCustody, GenerationsDiffer, Holders, NothingLeftBehind, NewestServes
<1>4. CancelExcludesCommit' /\ CommitsFreeze'
  BY <1>1 DEF CancelExcludesCommit, Committed, Cancelled, CommitsFreeze
<1>5. StagesReserve'
  BY <1>1, <1>2 DEF StagesReserve
<1> QED
  BY <1>3, <1>4, <1>5

\* Every handler preserves the invariant.
LEMMA NextInv == Inv /\ [Next]_vars => Inv'
<1> SUFFICES ASSUME Inv, [Next]_vars PROVE Inv'
  OBVIOUS
<1>0. TypeOK'
  BY NextTypeOK DEF Inv
<1>1. ASSUME NEW h \in Host, NEW w \in Write, Append(h, w) PROVE Inv'
  BY <1>0, <1>1, AppendInv, FitsKept DEF Append, staging
<1>2. ASSUME NEW h \in Host, NEW r \in readied, Commit(h, r) PROVE Inv'
  BY <1>0, <1>2, CommitInv, FitsKept DEF Commit, staging
<1>3. ASSUME NEW d \in Host, NEW c \in commits, Finalize(d, c) PROVE Inv'
  BY <1>0, <1>3, FinalizeInv, FitsKept DEF Finalize
<1>4. ASSUME NEW d \in Host, NEW k \in cancels, Abort(d, k) PROVE Inv'
  BY <1>0, <1>4, AbortInv, FitsKept DEF Abort
<1>5. ASSUME NEW d \in Host, NEW m \in outgoing, Stage(d, m) PROVE Inv'
  BY <1>0, <1>5, StageInv, FitsKept DEF Stage
<1> USE <1>0, UnchangedInv, FitsKept DEF Inv, CancelExcludesCommit, rivals
<1>6. ASSUME NEW h \in Host, NEW m \in outgoing, Cancel(h, m) PROVE Inv'
  BY <1>6 DEF Cancel, Undecided, staging, Committed, Cancelled
<1>7. ASSUME NEW h \in Host, NEW d \in Host, NEW id \in MigrationId, Prepare(h, id, d)
      PROVE Inv'
  <2>1. \A x \in outgoing' : Committed(x) => x \in outgoing
    BY DEF Committed, CommitsFreeze, TypeOK
  <2> QED
    BY <1>7, <2>1 DEF Prepare, staging, Cancelled
<1>8. ASSUME NEW d \in Host, NEW m \in incoming, NEW c \in Chunk, Upload(d, m, c)
      PROVE Inv'
  BY <1>8 DEF Upload, source, Cancelled
<1>9. ASSUME NEW d \in Host, NEW m \in incoming, Ready(d, m) PROVE Inv'
  <2>1. ReadyFits'
    BY <1>9 DEF Ready, ReadyFits, Fits
  <2> QED
    BY <1>9, <2>1 DEF Ready, source, Cancelled
<1>10. ASSUME NEW h \in Host, Tick(h) PROVE Inv'
  BY <1>10 DEF Tick, source, staging, Cancelled
<1>11. ASSUME NEW h \in Host, NEW w \in Write, TakeRow(h, w) PROVE Inv'
  <2>1. ReadyFits'
    BY <1>11 DEF TakeRow, ReadyFits, Fits, TypeOK, staging
  <2> QED
    BY <1>11, <2>1 DEF TakeRow, source, staging, Cancelled
<1>12. CASE UNCHANGED vars
  BY <1>12 DEF vars, source, staging, Cancelled
<1> QED
  BY <1>1, <1>2, <1>3, <1>4, <1>5, <1>6, <1>7, <1>8, <1>9, <1>10, <1>11, <1>12 DEF Next

LEMMA Invariance == Spec => []Inv
  BY InitInv, NextInv, PTL DEF Spec

-----------------------------------------------------------------------------
(* The safety of the migration *)

\* At every moment the company is served by one host, or one commit is pending
\* and nobody serves it.
THEOREM SafeCustody == Spec => []SingleCustody
  BY Invariance, PTL DEF Inv

\* Copies of one company at different hosts have different generations.
THEOREM SafeGenerations == Spec => []GenerationsDiffer
  BY Invariance, PTL DEF Inv

\* Writes survive every move.
THEOREM SafeContent == Spec => []NothingLeftBehind
  BY Invariance, PTL DEF Inv

\* Cancellation and commit exclude each other at both ends.
THEOREM SafeCancel == Spec => []CancelExcludesCommit
  BY Invariance, PTL DEF Inv

\* After the commit, the destination's stage stays as finalize needs it.
THEOREM NoStrandedCommit == Spec => []CommittedMoveCanFinish
<1>1. Inv => CommittedMoveCanFinish
  BY DEF Inv, CommittedMoveCanFinish, CommitsFreeze, StagesReserve, CancelExcludesCommit,
     ReadyFits, Committed, TypeOK, Pending, Open
<1> QED
  BY <1>1, Invariance, PTL

\* A frozen copy stays as it is, and no copy disappears.
THEOREM FrozenCopies == Spec => FrozenForever
<1>1. ASSUME Inv, [Next]_vars PROVE CopiesStay
  <2> USE <1>1 DEF Inv, TypeOK, Copy, CopiesStay
  <2>1. ASSUME NEW h \in Host, NEW w \in Write, Append(h, w) PROVE CopiesStay
    BY <2>1 DEF Append
  <2>2. ASSUME NEW h \in Host, NEW r \in readied, Commit(h, r) PROVE CopiesStay
    BY <2>2 DEF Commit, Freeze
  <2>3. ASSUME NEW d \in Host, NEW c \in commits, Finalize(d, c) PROVE CopiesStay
    BY <2>3 DEF Finalize, Apply
  <2>4. CASE UNCHANGED org
    BY <2>4
  <2> QED
    BY <1>1, <2>1, <2>2, <2>3, <2>4
    DEF Next, Prepare, Cancel, Stage, Upload, TakeRow, Ready, Abort, Tick, vars
<1>2. Inv /\ [Next]_vars => [CopiesStay]_vars
  BY <1>1
<1> QED
  BY <1>2, Invariance, PTL DEF Spec, FrozenForever

-----------------------------------------------------------------------------
(* The migration implements CompanyCustody *)

\* The values of the refinement mapping, while a host serves and while a
\* commit is pending.
LEMMA ServingMapping ==
  ASSUME NEW h, Serving = {h} PROVE Server = h
  BY DEF Server

LEMMA MovingMapping ==
  ASSUME NEW c, Pending = {c} PROVE Moved = c.manifest
  BY DEF Moved

\* Steps that touch no copy and no activation are stutters.
LEMMA Stutters ==
  ASSUME UNCHANGED <<org, commits, activated>> PROVE UNCHANGED Custody!vars
  BY DEF Custody!vars, Server, Moved, Serving, Pending, Holders

LEMMA InitRefines == Init => Custody!Init
<1> SUFFICES ASSUME Init PROVE Custody!Init
  OBVIOUS
<1>1. PICK home \in Host : org = [h \in Host |-> IF h = home THEN Active(1, {}) ELSE Absent]
  BY DEF Init
<1>2. Serving = {home} /\ Holders = {home}
  BY <1>1 DEF Serving, Holders, Active, Absent
<1>3. Server = home
  BY <1>2, ServingMapping
<1> QED
  BY <1>1, <1>2, <1>3 DEF Custody!Init, Active

\* A write is accepted by the keeper.
LEMMA AppendRefines ==
  ASSUME Inv, NEW h \in Host, NEW w \in Write, Append(h, w) PROVE Custody!Accept(w)
<1>1. /\ h \in Serving /\ w \notin org[h].content
      /\ org'[h].content = org[h].content \cup {w}
      /\ \A g \in Host : /\ org'[g].status = org[g].status
                         /\ org'[g].generation = org[g].generation
  BY DEF Append, Inv, TypeOK, Copy, Serving
<1>2. Serving = {h} /\ Serving' = {h} /\ Holders' = Holders
  BY <1>1 DEF Inv, SingleCustody, Serving, Holders
<1>3. Server = h /\ Server' = h
  BY <1>2 DEF Server
<1> QED
  BY <1>1, <1>2, <1>3 DEF Custody!Accept, Serving

\* A commit releases the company to the destination, which never served it.
LEMMA CommitRefines ==
  ASSUME Inv, Inv', NEW h \in Host, NEW r \in readied, Commit(h, r)
  PROVE  Custody!Release(r.manifest.destination)
<1> DEFINE m == r.manifest
           c == [manifest |-> m, ready |-> r, issued_at |-> clock[h]]
<1>1. /\ h \in Serving /\ c \in commits' /\ c.manifest = m
      /\ ~Committed(m) /\ ~Cancelled(m)
      /\ org'[h].status = "migrated"
      /\ org[h].generation = m.generation /\ org[h].content = m.snapshot
      /\ \A g \in Host : g # h => org'[g] = org[g]
      /\ UNCHANGED <<incoming, activated, aborted>>
  BY DEF Commit, Undecided, SnapshotCurrent, Freeze, Inv, TypeOK, Copy, Serving, staging
<1>2. m \in Open
  BY <1>1 DEF Inv, CancelExcludesCommit, TypeOK, Open
<1>3. c \in Pending'
  BY <1>1, <1>2 DEF Pending, Open
<1>4. Pending' = {c} /\ Serving' = {} /\ Serving = {h}
  BY <1>1, <1>3 DEF Inv, SingleCustody
<1>5. Server = h /\ Moved' = m
  BY <1>1, <1>4 DEF Server, Moved
<1>6. m.destination \in Host /\ m.destination \notin Holders /\ Holders' = Holders
  BY <1>1, <1>2 DEF Inv, StagesReserve, Holders, TypeOK, Manifest, Open, Serving
<1> QED
  BY <1>1, <1>4, <1>5, <1>6 DEF Custody!Release

\* Finalize is the arrival.
LEMMA FinalizeRefines ==
  ASSUME Inv, Inv', NEW d \in Host, NEW c \in commits, Finalize(d, c) PROVE Custody!Arrive
<1> DEFINE m == c.manifest
<1>1. /\ c \in Pending /\ m.destination = d
      /\ org'[d].status = "active"
      /\ org'[d].generation = m.generation + 1 /\ org'[d].content = m.snapshot
      /\ \A g \in Host : g # d => org'[g] = org[g]
  BY DEF Finalize, Apply, Inv, TypeOK, Pending, Active
<1>2. Pending = {c} /\ Serving = {}
  BY <1>1 DEF Inv, SingleCustody
<1>3. Serving' = {d} /\ Holders' = Holders \cup {d}
  BY <1>1, <1>2 DEF Serving, Holders
<1>4. Server' = d /\ Moved = m
  BY <1>2, <1>3 DEF Server, Moved
<1> QED
  BY <1>1, <1>2, <1>3, <1>4 DEF Custody!Arrive

\* Every step of the hosts is a step of CompanyCustody or a stutter.
LEMMA NextRefines == Inv /\ Inv' /\ [Next]_vars => [Custody!Next]_(Custody!vars)
<1> SUFFICES ASSUME Inv, Inv', [Next]_vars PROVE [Custody!Next]_(Custody!vars)
  OBVIOUS
<1>1. ASSUME NEW h \in Host, NEW w \in Write, Append(h, w) PROVE Custody!Next
  BY <1>1, AppendRefines DEF Custody!Next
<1>2. ASSUME NEW h \in Host, NEW r \in readied, Commit(h, r) PROVE Custody!Next
  <2>1. r.manifest.destination \in Host
    BY DEF Inv, TypeOK, Manifest
  <2> QED
    BY <1>2, <2>1, CommitRefines DEF Custody!Next
<1>3. ASSUME NEW d \in Host, NEW c \in commits, Finalize(d, c) PROVE Custody!Next
  BY <1>3, FinalizeRefines DEF Custody!Next
<1>4. ASSUME NEW d \in Host, NEW k \in cancels, Abort(d, k) PROVE UNCHANGED Custody!vars
  BY <1>4, Stutters DEF Abort, source
<1>5. ASSUME NEW d \in Host, NEW m \in outgoing, Stage(d, m) PROVE UNCHANGED Custody!vars
  BY <1>5, Stutters DEF Stage, source
<1>6. ASSUME NEW h \in Host, NEW m \in outgoing, Cancel(h, m) PROVE UNCHANGED Custody!vars
  BY <1>6, Stutters DEF Cancel, staging
<1>7. ASSUME NEW h \in Host, NEW d \in Host, NEW id \in MigrationId, Prepare(h, id, d)
      PROVE UNCHANGED Custody!vars
  BY <1>7, Stutters DEF Prepare, staging
<1>8. ASSUME NEW d \in Host, NEW m \in incoming, NEW c \in Chunk, Upload(d, m, c)
      PROVE UNCHANGED Custody!vars
  BY <1>8, Stutters DEF Upload, source
<1>9. ASSUME NEW d \in Host, NEW m \in incoming, Ready(d, m) PROVE UNCHANGED Custody!vars
  BY <1>9, Stutters DEF Ready, source
<1>10. ASSUME NEW h \in Host, Tick(h) PROVE UNCHANGED Custody!vars
  BY <1>10, Stutters DEF Tick, source, staging
<1>11. ASSUME NEW h \in Host, NEW w \in Write, TakeRow(h, w) PROVE UNCHANGED Custody!vars
  BY <1>11, Stutters DEF TakeRow, source, staging
<1>12. CASE UNCHANGED vars
  BY <1>12, Stutters DEF vars, source, staging
<1> QED
  BY <1>1, <1>2, <1>3, <1>4, <1>5, <1>6, <1>7, <1>8, <1>9, <1>10, <1>11, <1>12 DEF Next

\* The hosts keep the promise of CompanyCustody: one keeper, no write lost, and
\* no host that released the company ever serves it again.
THEOREM Refinement == Spec => ImplementsCustody
  BY InitRefines, NextRefines, Invariance, PTL DEF Spec, ImplementsCustody, Custody!Spec

-----------------------------------------------------------------------------
(***************************************************************************)
(* DestinationImport: for every set of persons, keys, companies, contracts *)
(* and IDs, what a ready stage reserves stays as readiness found it, and a *)
(* company that arrives alone finds no row against it.                     *)
(***************************************************************************)

\* The rows of the tables, and what a ready stage carries: the payload that
\* validateSnapshot accepted.
ImportTypeOK ==
  /\ people \in [PersonId -> (UNION {Entry(p) : p \in PersonId}) \cup {NoRow}]
  /\ \A p \in PersonId : people[p] \in Entry(p) \cup {NoRow}
  /\ install \in [Key -> InstallState]
  /\ DOMAIN admitted = Profile
  /\ ids \in SUBSET Id
  /\ stage \in [Company -> {"none", "ready", "activated"}]
  /\ DOMAIN snapshot = Company
  /\ \A c \in Company : IsReady(c) => snapshot[c] \in Snapshot

\* What a snapshot another host exported says of one person and one key.
LEMMA SnapshotFacts ==
  ASSUME NEW s \in Snapshot
  PROVE  /\ \A p \in PersonId : s.people[p] \in Entry(p) \cup {NoRow}
         /\ s.people \in [PersonId -> (UNION {Entry(p) : p \in PersonId}) \cup {NoRow}]
         /\ s.acting \subseteq PersonId /\ \A p \in s.acting : s.people[p] # NoRow
         /\ s.install \in [Key -> InstallState]
         /\ s.ids \subseteq Id
         /\ \A p, q \in PersonId : p # q => KeysOf(s.people[p]) \cap KeysOf(s.people[q]) = {}
PROOF
  BY DEF Snapshot

\* A key history is a row: it is not NoRow, and its keys are keys.
LEMMA EntryFacts ==
  ASSUME NEW p \in PersonId, NEW e \in Entry(p)
  PROVE  /\ e # NoRow
         /\ e.keys \subseteq Key /\ e.retired \subseteq Key
         /\ KeysOf(e) = e.keys \cup e.retired
PROOF
  BY DestinationAssumption DEF Entry, KeysOf, DestinationAssumption

\* The row person.register writes.
LEMMA RegisteredRow ==
  ASSUME NEW p \in PersonId, NEW ks \in SUBSET Key, Register(p, ks), ImportTypeOK
  PROVE  LET e == [keys |-> ks, retired |-> {}]
         IN e \in Entry(p) /\ people'[p] = e /\ \A q \in PersonId : q # p => people'[q] = people[q]
PROOF
  <1>1. [keys |-> ks, retired |-> {}] \in Entry(p)
    BY DEF Register, Entry
  <1> QED
    BY <1>1 DEF Register, ImportTypeOK

\* The row person.rotate writes: the same history, and the keys it adds.
LEMMA RotatedRow ==
  ASSUME NEW p \in PersonId, NEW add \in SUBSET Key, NEW revoke \in SUBSET Key,
         Rotate(p, add, revoke), ImportTypeOK
  PROVE  LET e == [keys |-> (people[p].keys \ revoke) \cup add,
                   retired |-> people[p].retired \cup revoke]
         IN /\ e \in Entry(p) /\ people'[p] = e
            /\ KeysOf(people'[p]) = KeysOf(people[p]) \cup add
            /\ \A q \in PersonId : q # p => people'[q] = people[q]
PROOF
  <1> DEFINE e == [keys |-> (people[p].keys \ revoke) \cup add,
                   retired |-> people[p].retired \cup revoke]
  <1>1. people[p] \in Entry(p)
    BY DEF Rotate, ImportTypeOK
  <1>2. KeysOf(people[p]) = people[p].keys \cup people[p].retired
    BY <1>1, EntryFacts
  <1>3. add \cap people[p].retired = {}
    BY <1>2 DEF Rotate, KeyFree
  <1>4. e \in Entry(p)
    BY <1>1, <1>3 DEF Entry, Rotate
  <1>5. people'[p] = e /\ \A q \in PersonId : q # p => people'[q] = people[q]
    BY DEF Rotate, ImportTypeOK
  <1>6. KeysOf(e) = e.keys \cup e.retired
    BY <1>4, EntryFacts
  <1>7. e.keys \cup e.retired = people[p].keys \cup people[p].retired \cup add
    BY DEF Rotate
  <1> QED
    BY <1>2, <1>4, <1>5, <1>6, <1>7

\* A table of persons is known by its rows.
LEMMA TableOfRows ==
  ASSUME NEW f, f = [p \in PersonId |-> f[p]], \A p \in PersonId : f[p] \in Entry(p) \cup {NoRow}
  PROVE  f \in [PersonId -> (UNION {Entry(p) : p \in PersonId}) \cup {NoRow}]
PROOF
  <1>1. \A p \in PersonId : Entry(p) \subseteq UNION {Entry(q) : q \in PersonId}
    OBVIOUS
  <1>2. \A p \in PersonId : f[p] \in (UNION {Entry(q) : q \in PersonId}) \cup {NoRow}
    BY <1>1
  <1> QED
    BY <1>2

LEMMA ImportTypeInit == ImportInit => ImportTypeOK
PROOF
  <1> SUFFICES ASSUME ImportInit PROVE ImportTypeOK
    OBVIOUS
  <1>1. people \in [PersonId -> (UNION {Entry(p) : p \in PersonId}) \cup {NoRow}]
    BY TableOfRows DEF ImportInit
  <1> QED
    BY <1>1 DEF ImportInit, ImportTypeOK, InstallState, IsReady

\* Every command, and every step of an import, preserves the types.
LEMMA ImportTypeNext == ImportTypeOK /\ [ImportNext]_import_vars => ImportTypeOK'
PROOF
  <1> SUFFICES ASSUME ImportTypeOK, [ImportNext]_import_vars PROVE ImportTypeOK'
    OBVIOUS
  <1>1. ASSUME NEW p \in PersonId, NEW ks \in SUBSET Key, Register(p, ks) PROVE ImportTypeOK'
    <2>1. \A q \in PersonId : people'[q] \in Entry(q) \cup {NoRow}
      BY <1>1, RegisteredRow DEF ImportTypeOK
    <2>2. people' = [q \in PersonId |-> people'[q]]
      BY <1>1 DEF Register, ImportTypeOK
    <2>3. people' \in [PersonId -> (UNION {Entry(q) : q \in PersonId}) \cup {NoRow}]
      BY <2>1, <2>2, TableOfRows
    <2> QED
      BY <1>1, <2>1, <2>3 DEF Register, ImportTypeOK, IsReady
  <1>2. ASSUME NEW p \in PersonId, NEW add \in SUBSET Key, NEW revoke \in SUBSET Key,
               Rotate(p, add, revoke)
        PROVE ImportTypeOK'
    <2>1. \A q \in PersonId : people'[q] \in Entry(q) \cup {NoRow}
      BY <1>2, RotatedRow DEF ImportTypeOK
    <2>2. people' = [q \in PersonId |-> people'[q]]
      BY <1>2 DEF Rotate, ImportTypeOK
    <2>3. people' \in [PersonId -> (UNION {Entry(q) : q \in PersonId}) \cup {NoRow}]
      BY <2>1, <2>2, TableOfRows
    <2> QED
      BY <1>2, <2>1, <2>3 DEF Rotate, ImportTypeOK, IsReady
  <1>3. ASSUME NEW k \in Key, Install(k) \/ Uninstall(k) PROVE ImportTypeOK'
    BY <1>3 DEF Install, Uninstall, ImportTypeOK, IsReady, InstallState
  <1>4. ASSUME NEW d \in Profile, NEW a \in Admission, Admit(d, a) PROVE ImportTypeOK'
    BY <1>4 DEF Admit, ImportTypeOK, IsReady
  <1>5. ASSUME NEW i \in Id, Claim(i) PROVE ImportTypeOK'
    BY <1>5 DEF Claim, ImportTypeOK, IsReady
  <1>6. ASSUME NEW c \in Company, NEW s \in Snapshot, ReadyImport(c, s) PROVE ImportTypeOK'
    BY <1>6 DEF ReadyImport, ImportTypeOK, IsReady, rows
  <1>7. ASSUME NEW c \in Company, FinalizeImport(c) PROVE ImportTypeOK'
    <2> DEFINE s == snapshot[c]
    <2>1. s \in Snapshot
      BY <1>7 DEF FinalizeImport, ImportTypeOK
    <2>2. /\ people' = ImportPeople(s) /\ install' = ImportInstalls(s) /\ ids' = ids \cup s.ids
          /\ stage' = [stage EXCEPT ![c] = "activated"] /\ snapshot' = [snapshot EXCEPT ![c] = NoRow]
          /\ DOMAIN admitted' = Profile
      BY <1>7 DEF FinalizeImport, DropImport
    <2> HIDE DEF s
    <2>3. \A p \in PersonId : people'[p] \in Entry(p) \cup {NoRow}
      BY <2>1, <2>2, SnapshotFacts DEF ImportPeople, ImportTypeOK
    <2>4. people' \in [PersonId -> (UNION {Entry(p) : p \in PersonId}) \cup {NoRow}]
      BY <2>2, <2>3, TableOfRows DEF ImportPeople
    <2>5. install' \in [Key -> InstallState] /\ ids' \in SUBSET Id
      BY <2>1, <2>2, SnapshotFacts DEF ImportInstalls, InstallState, ImportTypeOK
    <2> QED
      BY <2>2, <2>3, <2>4, <2>5 DEF ImportTypeOK, IsReady
  <1>8. ASSUME NEW c \in Company, AbortImport(c) PROVE ImportTypeOK'
    BY <1>8 DEF AbortImport, DropImport, ImportTypeOK, IsReady, rows
  <1>9. CASE UNCHANGED import_vars
    BY <1>9 DEF import_vars, rows, ImportTypeOK, IsReady
  <1> QED
    BY <1>1, <1>2, <1>3, <1>4, <1>5, <1>6, <1>7, <1>8, <1>9 DEF ImportNext

\* The host's rows stay key histories, installations and IDs, and a ready stage
\* keeps the snapshot that was validated.
THEOREM ImportTypeCorrect == ImportSpec => []ImportTypeOK
PROOF
  BY ImportTypeInit, ImportTypeNext, PTL DEF ImportSpec

-----------------------------------------------------------------------------
(* The IDs a ready stage holds *)

\* migration.ready takes no ID another stage reserved and no command takes a
\* reserved one, so the two sides stay apart until finalize or abort.
LEMMA IdsNext == ImportTypeOK /\ ReadyIdsHold /\ [ImportNext]_import_vars => ReadyIdsHold'
PROOF
  <1> SUFFICES ASSUME ImportTypeOK, ReadyIdsHold, [ImportNext]_import_vars,
                      NEW e \in Company, IsReady(e)', NEW i \in snapshot'[e].ids \ Published
               PROVE /\ i \notin ids'
                     /\ \A o \in Company \ {e} : IsReady(o)' => i \notin snapshot'[o].ids
    BY DEF ReadyIdsHold, IdsFree, Others
  <1> DEFINE Held(c) == IsReady(c) => \A j \in snapshot[c].ids \ Published :
                          /\ j \notin ids
                          /\ \A o \in Company \ {c} : IsReady(o) => j \notin snapshot[o].ids
  <1>0. \A c \in Company : Held(c)
    BY DEF ReadyIdsHold, IdsFree, Others
  <1>1. ASSUME UNCHANGED <<stage, snapshot, ids>>
        PROVE /\ i \notin ids'
              /\ \A o \in Company \ {e} : IsReady(o)' => i \notin snapshot'[o].ids
    BY <1>0, <1>1 DEF IsReady
  <1>2. ASSUME NEW j \in Id, Claim(j)
        PROVE /\ i \notin ids'
              /\ \A o \in Company \ {e} : IsReady(o)' => i \notin snapshot'[o].ids
    BY <1>0, <1>2 DEF Claim, IdReserved, IsReady
  <1>3. ASSUME NEW c \in Company, NEW s \in Snapshot, ReadyImport(c, s)
        PROVE /\ i \notin ids'
              /\ \A o \in Company \ {e} : IsReady(o)' => i \notin snapshot'[o].ids
    <2>1. /\ ids' = ids /\ snapshot'[c] = s /\ stage[c] = "none"
          /\ \A o \in Company \ {c} : snapshot'[o] = snapshot[o] /\ (IsReady(o)' <=> IsReady(o))
      BY <1>3 DEF ReadyImport, ImportTypeOK, IsReady, rows
    <2>2. \A j \in s.ids \ Published : j \notin ids /\ \A o \in Company \ {c} : IsReady(o) => j \notin snapshot[o].ids
      BY <1>3 DEF ReadyImport, Valid, IdsFree, Others
    <2>3. CASE e = c
      BY <2>1, <2>2, <2>3
    <2>4. CASE e # c
      BY <1>0, <2>1, <2>2, <2>4
    <2> QED
      BY <2>3, <2>4
  <1>4. ASSUME NEW c \in Company, FinalizeImport(c) \/ AbortImport(c)
        PROVE /\ i \notin ids'
              /\ \A o \in Company \ {e} : IsReady(o)' => i \notin snapshot'[o].ids
    <2>1. /\ IsReady(c) /\ ~IsReady(c)'
          /\ ids' = ids \/ ids' = ids \cup snapshot[c].ids
          /\ \A o \in Company \ {c} : snapshot'[o] = snapshot[o] /\ (IsReady(o)' <=> IsReady(o))
      BY <1>4 DEF FinalizeImport, AbortImport, DropImport, ImportTypeOK, IsReady, rows
    <2> QED
      BY <1>0, <2>1
  <1> QED
    BY <1>1, <1>2, <1>3, <1>4
    DEF ImportNext, Register, Rotate, Install, Uninstall, Admit, import_vars, rows

\* Whatever the host's people and other companies do after ready, the IDs of the
\* snapshot are free when finalize validates it again (reservedView and
\* assertIdFree of the kernel).
THEOREM SafeIds == ImportSpec => []ReadyIdsHold
PROOF
  <1>1. ImportInit => ReadyIdsHold
    BY DEF ImportInit, ReadyIdsHold, IsReady
  <1> QED
    BY <1>1, ImportTypeInit, ImportTypeNext, IdsNext, PTL DEF ImportSpec

-----------------------------------------------------------------------------
(* What a ready stage reserves *)

\* A step that changes no stage leaves alone what ready stages reserve: the rows
\* of their persons, who holds their keys, and their IDs.  Admitted contracts stay.
RowsRespect ==
  /\ stage' = stage /\ snapshot' = snapshot
  /\ \A p \in PersonId : PersonReserved(p) => people'[p] = people[p]
  /\ \A p \in PersonId : people[p] # NoRow => people'[p] # NoRow
  /\ \A p \in PersonId, k \in Key : KeyReserved(k) =>
       (k \in KeysOf(people'[p]) <=> k \in KeysOf(people[p]))
  /\ \A k \in Key : KeyReserved(k) => (install'[k] = "none" <=> install[k] = "none")
  /\ \A i \in Id : IdReserved(i) => (i \in ids' <=> i \in ids)
  /\ \A d \in Profile : admitted[d] # NoRow => admitted'[d] = admitted[d]

\* Every command consults the reservations it could run into: keyFree for keys,
\* personReserved for persons, idReserved for IDs.
LEMMA LocalRespect == ImportTypeOK /\ [ImportNext]_import_vars /\ stage' = stage => RowsRespect
PROOF
  <1> SUFFICES ASSUME ImportTypeOK, [ImportNext]_import_vars, stage' = stage PROVE RowsRespect
    OBVIOUS
  <1>1. ASSUME NEW p \in PersonId, NEW ks \in SUBSET Key, Register(p, ks) PROVE RowsRespect
    <2> DEFINE e == [keys |-> ks, retired |-> {}]
    <2>1. e \in Entry(p) /\ people'[p] = e /\ \A q \in PersonId : q # p => people'[q] = people[q]
      BY <1>1, RegisteredRow
    <2>2. e # NoRow /\ KeysOf(e) = ks
      BY <2>1, EntryFacts
    <2>3. KeysOf(people[p]) = {}
      BY <1>1 DEF Register, KeysOf
    <2>4. \A k \in ks : ~KeyReserved(k)
      BY <1>1 DEF Register, KeyFree
    <2>5. \A q \in PersonId, k \in Key : KeyReserved(k) =>
            (k \in KeysOf(people'[q]) <=> k \in KeysOf(people[q]))
      BY <2>1, <2>2, <2>3, <2>4
    <2> QED
      BY <1>1, <2>1, <2>2, <2>5 DEF Register, RowsRespect
  <1>2. ASSUME NEW p \in PersonId, NEW add \in SUBSET Key, NEW revoke \in SUBSET Key,
               Rotate(p, add, revoke)
        PROVE RowsRespect
    <2>1. /\ people'[p] \in Entry(p)
          /\ KeysOf(people'[p]) = KeysOf(people[p]) \cup add
          /\ \A q \in PersonId : q # p => people'[q] = people[q]
      BY <1>2, RotatedRow
    <2>2. people'[p] # NoRow
      BY <2>1, EntryFacts
    <2>3. \A k \in add : ~KeyReserved(k)
      BY <1>2 DEF Rotate, KeyFree
    <2>4. \A q \in PersonId, k \in Key : KeyReserved(k) =>
            (k \in KeysOf(people'[q]) <=> k \in KeysOf(people[q]))
      BY <2>1, <2>3
    <2> QED
      BY <1>2, <2>1, <2>2, <2>4 DEF Rotate, RowsRespect
  <1>3. ASSUME NEW k \in Key, Install(k) \/ Uninstall(k) PROVE RowsRespect
    BY <1>3 DEF Install, Uninstall, KeyFree, ImportTypeOK, RowsRespect
  <1>4. ASSUME NEW d \in Profile, NEW a \in Admission, Admit(d, a) PROVE RowsRespect
    BY <1>4 DEF Admit, RowsRespect, ImportTypeOK
  <1>5. ASSUME NEW i \in Id, Claim(i) PROVE RowsRespect
    BY <1>5 DEF Claim, RowsRespect
  <1>6. ASSUME NEW c \in Company, NEW s \in Snapshot, ReadyImport(c, s) PROVE FALSE
    BY <1>6 DEF ReadyImport, ImportTypeOK
  <1>7. ASSUME NEW c \in Company, FinalizeImport(c) \/ AbortImport(c) PROVE FALSE
    BY <1>7 DEF FinalizeImport, AbortImport, ImportTypeOK, IsReady
  <1>8. CASE UNCHANGED import_vars
    BY <1>8 DEF import_vars, rows, RowsRespect
  <1> QED
    BY <1>1, <1>2, <1>3, <1>4, <1>5, <1>6, <1>7, <1>8 DEF ImportNext

\* What validateSnapshot reads of the host for a reserved key or person is the
\* same after such a step.
LEMMA ViewsKept ==
  ASSUME ImportTypeOK, RowsRespect, NEW c \in Company
  PROVE  /\ Others(c)' = Others(c)
         /\ \A p \in PersonId : PersonReserved(p) => ReservedView(c, p)' = ReservedView(c, p)
         /\ \A k \in Key : KeyReserved(k) =>
              /\ PersonOwner(c, k)' = PersonOwner(c, k)
              /\ InstallBinds(c, k)' <=> InstallBinds(c, k)
PROOF
  <1>1. Others(c)' = Others(c) /\ snapshot' = snapshot
    BY DEF RowsRespect, Others, IsReady
  <1>2. \A p \in PersonId : PersonReserved(p) => ReservedView(c, p)' = ReservedView(c, p)
    BY <1>1 DEF RowsRespect, ReservedView
  <1>3. \A p \in PersonId : ~PersonReserved(p) =>
          ReservedView(c, p) = people[p] /\ ReservedView(c, p)' = people'[p]
    <2> SUFFICES ASSUME NEW p \in PersonId, ~PersonReserved(p)
                 PROVE  ReservedView(c, p) = people[p] /\ ReservedView(c, p)' = people'[p]
      OBVIOUS
    <2>1. \A o \in Others(c) : snapshot[o].people[p] = NoRow
      BY DEF PersonReserved, Others
    <2> QED
      BY <1>1, <2>1 DEF ReservedView
  <1>4. ASSUME NEW k \in Key, KeyReserved(k)
        PROVE PersonOwner(c, k)' = PersonOwner(c, k)
    <2> DEFINE binds == {p \in PersonId : k \in KeysOf(ReservedView(c, p))}
               free == {p \in binds : people[p] = NoRow}
    <2>1. \A p \in PersonId : k \in KeysOf(ReservedView(c, p)') <=> k \in KeysOf(ReservedView(c, p))
      BY <1>2, <1>3, <1>4 DEF RowsRespect
    <2>2. binds' = binds
      BY <2>1
    <2>3. \A p \in binds : people'[p] = NoRow <=> people[p] = NoRow
      <3> SUFFICES ASSUME NEW p \in binds, people[p] = NoRow PROVE people'[p] = NoRow
        BY DEF RowsRespect
      <3>1. CASE PersonReserved(p)
        BY <3>1 DEF RowsRespect
      <3>2. CASE ~PersonReserved(p)
        BY <3>2, <1>3 DEF KeysOf
      <3> QED
        BY <3>1, <3>2
    <2>4. free' = free
      BY <2>2, <2>3
    <2> QED
      BY <2>2, <2>4 DEF PersonOwner
  <1>5. ASSUME NEW k \in Key, KeyReserved(k)
        PROVE InstallBinds(c, k)' <=> InstallBinds(c, k)
    BY <1>1, <1>5 DEF InstallBinds, RowsRespect
  <1> QED
    BY <1>1, <1>2, <1>4, <1>5

\* So a snapshot that would be accepted before the step is accepted after it, unless
\* the step admitted one of its contracts.
LEMMA ValidKept ==
  ASSUME ImportTypeOK, RowsRespect, NEW c \in Company,
         IsReady(c), Valid(c, snapshot[c]), ~RivalAdmission(snapshot[c])
  PROVE  Valid(c, snapshot[c])'
PROOF
  <1> DEFINE s == snapshot[c]
  <1>1. s \in Snapshot /\ s' = s
    BY DEF ImportTypeOK, RowsRespect
  <1>2. /\ s.acting \subseteq PersonId /\ \A p \in s.acting : s.people[p] # NoRow
        /\ s.ids \subseteq Id
        /\ \A p \in PersonId : s.people[p] # NoRow => s.people[p].keys \subseteq KeysOf(s.people[p])
        /\ \A p \in PersonId : s.people[p] # NoRow => s.people[p].keys \subseteq Key
    BY <1>1, SnapshotFacts, EntryFacts
  <1>3. /\ \A p \in PersonId : s.people[p] # NoRow => PersonReserved(p)
        /\ \A p \in PersonId : \A k \in KeysOf(s.people[p]) : KeyReserved(k)
        /\ \A k \in Key : s.install[k] # "none" => KeyReserved(k)
        /\ \A i \in s.ids : IdReserved(i)
    BY DEF PersonReserved, KeyReserved, IdReserved
  <1>4. /\ Others(c)' = Others(c) /\ snapshot' = snapshot
        /\ \A p \in PersonId : PersonReserved(p) => ReservedView(c, p)' = ReservedView(c, p)
        /\ \A k \in Key : KeyReserved(k) =>
             /\ PersonOwner(c, k)' = PersonOwner(c, k)
             /\ InstallBinds(c, k)' <=> InstallBinds(c, k)
    BY ViewsKept DEF RowsRespect
  <1>5. KeysAgree(c, s) /\ PeopleAgree(c, s) /\ ProfilesAgree(c, s) /\ IdsFree(c, s)
    BY DEF Valid
  <1>0. ~RivalAdmission(s)
    OBVIOUS
  <1> HIDE DEF s
  <1>6. KeysAgree(c, s)'
    <2>1. ASSUME NEW p \in PersonId, s.people[p] # NoRow, NEW k \in s.people[p].keys
          PROVE (PersonOwner(c, k) \subseteq {p} /\ ~InstallBinds(c, k))'
      <3>1. k \in Key /\ KeyReserved(k)
        BY <1>2, <1>3, <2>1
      <3>2. PersonOwner(c, k) \subseteq {p} /\ ~InstallBinds(c, k)
        BY <1>5, <2>1 DEF KeysAgree
      <3> QED
        BY <1>4, <3>1, <3>2
    <2>2. ASSUME NEW k \in Key, s.install[k] = "active"
          PROVE (PersonOwner(c, k) = {} /\ ~InstallBinds(c, k))'
      <3>1. KeyReserved(k)
        BY <1>3, <2>2
      <3>2. PersonOwner(c, k) = {} /\ ~InstallBinds(c, k)
        BY <1>5, <2>2 DEF KeysAgree
      <3> QED
        BY <1>4, <3>1, <3>2
    <2> QED
      BY <1>1, <2>1, <2>2 DEF KeysAgree
  <1>7. PeopleAgree(c, s)'
    BY <1>1, <1>2, <1>3, <1>4, <1>5 DEF PeopleAgree
  <1>8. ProfilesAgree(c, s)'
    <2> SUFFICES ASSUME NEW d \in Profile, s.profiles[d] # NoRow
                 PROVE  AdmissionAgrees(c, d, s.profiles[d])'
      BY <1>1 DEF ProfilesAgree
    <2>1. AdmissionAgrees(c, d, s.profiles[d])
      BY <1>5 DEF ProfilesAgree
    <2>2. admitted'[d] \in {NoRow, s.profiles[d]}
      BY <1>0, <2>1 DEF RivalAdmission, AdmissionAgrees, RowsRespect
    <2> QED
      BY <1>1, <1>4, <2>1, <2>2 DEF AdmissionAgrees
  <1>9. IdsFree(c, s)'
    <2>1. \A i \in s.ids : i \in ids' <=> i \in ids
      BY <1>2, <1>3 DEF RowsRespect
    <2> QED
      BY <1>1, <1>4, <1>5, <2>1 DEF IdsFree
  <1> QED
    BY <1>6, <1>7, <1>8, <1>9 DEF Valid, s

-----------------------------------------------------------------------------
(* A company that arrives alone *)

\* At most one person: what Cardinality(S) <= 1 says of a set of persons.
LEMMA AtMostOne ==
  ASSUME NEW S \in SUBSET PersonId
  PROVE  Cardinality(S) <= 1 <=> \A p, q \in S : p = q
PROOF
  <1>1. IsFiniteSet(S)
    BY DestinationAssumption, FS_Subset DEF DestinationAssumption
  <1>2. CASE S = {}
    BY <1>2, FS_EmptySet
  <1>3. ASSUME NEW p \in S PROVE Cardinality(S) <= 1 <=> \A q, r \in S : q = r
    <2>1. /\ IsFiniteSet(S \ {p}) /\ Cardinality(S \ {p}) \in Nat /\ Cardinality(S) \in Nat
          /\ Cardinality(S \ {p}) = Cardinality(S) - 1
      BY <1>1, <1>3, FS_RemoveElement, FS_CardinalityType
    <2>2. Cardinality(S \ {p}) = 0 <=> S \ {p} = {}
      BY <2>1, FS_EmptySet
    <2>3. Cardinality(S) <= 1 <=> Cardinality(S \ {p}) = 0
      BY <2>1
    <2>4. S \ {p} = {} <=> \A q, r \in S : q = r
      BY <1>3
    <2> QED
      BY <2>2, <2>3, <2>4
  <1> QED
    BY <1>2, <1>3

\* The same property, said of pairs of persons.
Unshared ==
  \A k \in Key :
    /\ \A p, q \in PersonId : (people[p] # NoRow /\ k \in people[p].keys
                             /\ people[q] # NoRow /\ k \in people[q].keys) => p = q
    /\ install[k] = "active" => \A p \in PersonId : people[p] # NoRow => k \notin people[p].keys

LEMMA UnsharedIsUnique == ActingKeysUnique <=> Unshared
PROOF
  <1> DEFINE holders(k) == {p \in PersonId : people[p] # NoRow /\ k \in people[p].keys}
  <1>1. \A k \in Key : Cardinality(holders(k)) <= 1 <=> \A p, q \in holders(k) : p = q
    BY AtMostOne
  <1> QED
    BY <1>1 DEF ActingKeysUnique, Unshared

\* The same after a step.
LEMMA UnsharedIsUniqueNext == ActingKeysUnique' <=> Unshared'
PROOF
  <1> DEFINE holders(k) == {p \in PersonId : people'[p] # NoRow /\ k \in people'[p].keys}
  <1>1. \A k \in Key : Cardinality(holders(k)) <= 1 <=> \A p, q \in holders(k) : p = q
    BY AtMostOne
  <1> QED
    BY <1>1 DEF ActingKeysUnique, Unshared

\* Until a first import, the host's own commands give every key one person, for
\* good: keyFree counts retired keys too.
Disjoint ==
  (\A c \in Company : stage[c] # "activated") =>
    \A p, q \in PersonId : p # q => KeysOf(people[p]) \cap KeysOf(people[q]) = {}

LEMMA DisjointNext == ImportTypeOK /\ Disjoint /\ [ImportNext]_import_vars => Disjoint'
PROOF
  <1> SUFFICES ASSUME ImportTypeOK, Disjoint, [ImportNext]_import_vars,
                      \A c \in Company : stage'[c] # "activated",
                      NEW p \in PersonId, NEW q \in PersonId, p # q
               PROVE  KeysOf(people'[p]) \cap KeysOf(people'[q]) = {}
    BY DEF Disjoint
  <1>1. ASSUME stage' = stage, people' = people
        PROVE KeysOf(people'[p]) \cap KeysOf(people'[q]) = {}
    BY <1>1 DEF Disjoint
  <1>2. ASSUME NEW r \in PersonId, NEW ks \in SUBSET Key, Register(r, ks)
        PROVE KeysOf(people'[p]) \cap KeysOf(people'[q]) = {}
    <2> DEFINE e == [keys |-> ks, retired |-> {}]
    <2>1. e \in Entry(r) /\ people'[r] = e /\ \A t \in PersonId : t # r => people'[t] = people[t]
      BY <1>2, RegisteredRow
    <2>2. KeysOf(people'[r]) = ks
      BY <2>1, EntryFacts
    <2>3. \A t \in PersonId : ks \cap KeysOf(people[t]) = {}
      BY <1>2 DEF Register, KeyFree
    <2>4. \A c \in Company : stage[c] # "activated"
      BY <1>2 DEF Register
    <2> QED
      BY <2>1, <2>2, <2>3, <2>4 DEF Disjoint
  <1>3. ASSUME NEW r \in PersonId, NEW add \in SUBSET Key, NEW revoke \in SUBSET Key,
               Rotate(r, add, revoke)
        PROVE KeysOf(people'[p]) \cap KeysOf(people'[q]) = {}
    <2>1. /\ KeysOf(people'[r]) = KeysOf(people[r]) \cup add
          /\ \A t \in PersonId : t # r => people'[t] = people[t]
      BY <1>3, RotatedRow
    <2>2. \A t \in PersonId : add \cap KeysOf(people[t]) = {}
      BY <1>3 DEF Rotate, KeyFree
    <2>3. \A c \in Company : stage[c] # "activated"
      BY <1>3 DEF Rotate
    <2> QED
      BY <2>1, <2>2, <2>3 DEF Disjoint
  <1>4. ASSUME NEW c \in Company, NEW s \in Snapshot, ReadyImport(c, s)
        PROVE KeysOf(people'[p]) \cap KeysOf(people'[q]) = {}
    <2>1. people' = people /\ \A d \in Company : stage[d] # "activated"
      BY <1>4 DEF ReadyImport, ImportTypeOK, rows
    <2> QED
      BY <2>1 DEF Disjoint
  <1>5. ASSUME NEW c \in Company, FinalizeImport(c) PROVE FALSE
    BY <1>5 DEF FinalizeImport, ImportTypeOK
  <1>6. ASSUME NEW c \in Company, AbortImport(c)
        PROVE KeysOf(people'[p]) \cap KeysOf(people'[q]) = {}
    <2>1. people' = people /\ \A d \in Company : stage[d] # "activated"
      BY <1>6 DEF AbortImport, IsReady, ImportTypeOK, rows
    <2> QED
      BY <2>1 DEF Disjoint
  <1> QED
    BY <1>1, <1>2, <1>3, <1>4, <1>5, <1>6
    DEF ImportNext, Install, Uninstall, Admit, Claim, import_vars, rows

\* A command gives a key to no second identity: keyFree asks for a key that no
\* person and no installation ever held.
LEMMA LocalUnshared ==
  ASSUME ImportTypeOK, [ImportNext]_import_vars, stage' = stage, Unshared
  PROVE  Unshared'
PROOF
  <1>1. ASSUME NEW p \in PersonId, NEW ks \in SUBSET Key, Register(p, ks) PROVE Unshared'
    <2>1. /\ people'[p] # NoRow /\ people'[p].keys = ks
          /\ \A q \in PersonId : q # p => people'[q] = people[q]
      <3> DEFINE e == [keys |-> ks, retired |-> {}]
      <3>1. e \in Entry(p) /\ people'[p] = e /\ \A q \in PersonId : q # p => people'[q] = people[q]
        BY <1>1, RegisteredRow
      <3> QED
        BY <3>1, EntryFacts
    <2>2. /\ install' = install
          /\ \A k \in ks : install[k] = "none"
          /\ \A k \in ks, q \in PersonId : people[q] # NoRow => k \notin people[q].keys
      BY <1>1 DEF Register, KeyFree, KeysOf
    <2> QED
      BY <2>1, <2>2 DEF Unshared
  <1>2. ASSUME NEW p \in PersonId, NEW add \in SUBSET Key, NEW revoke \in SUBSET Key,
               Rotate(p, add, revoke)
        PROVE Unshared'
    <2>1. /\ people[p] # NoRow /\ people'[p].keys \subseteq people[p].keys \cup add
          /\ \A q \in PersonId : q # p => people'[q] = people[q]
      BY <1>2, RotatedRow DEF Rotate
    <2>2. /\ install' = install
          /\ \A k \in add : install[k] = "none"
          /\ \A k \in add, q \in PersonId : people[q] # NoRow => k \notin people[q].keys
      BY <1>2 DEF Rotate, KeyFree, KeysOf
    <2> QED
      BY <2>1, <2>2 DEF Unshared
  <1>3. ASSUME NEW k \in Key, Install(k) \/ Uninstall(k) PROVE Unshared'
    <2>1. /\ people' = people
          /\ \A j \in Key : install'[j] = "active" => install[j] = "active" \/ (j = k /\ Install(k))
      BY <1>3 DEF Install, Uninstall, ImportTypeOK
    <2>2. Install(k) => \A q \in PersonId : people[q] # NoRow => k \notin people[q].keys
      BY DEF Install, KeyFree, KeysOf
    <2> QED
      BY <2>1, <2>2 DEF Unshared
  <1>4. ASSUME people' = people /\ install' = install PROVE Unshared'
    BY <1>4 DEF Unshared
  <1>5. ASSUME NEW c \in Company, NEW s \in Snapshot, ReadyImport(c, s) PROVE FALSE
    BY <1>5 DEF ReadyImport, ImportTypeOK
  <1>6. ASSUME NEW c \in Company, FinalizeImport(c) \/ AbortImport(c) PROVE FALSE
    BY <1>6 DEF FinalizeImport, AbortImport, ImportTypeOK, IsReady
  <1> QED
    BY <1>1, <1>2, <1>3, <1>4, <1>5, <1>6 DEF ImportNext, Admit, Claim, import_vars, rows

\* Nor does it write a row that contradicts a ready snapshot.
LEMMA LocalReadyHold ==
  ASSUME ImportTypeOK, RowsRespect, ReadyPeopleHold, ReadyKeysHold
  PROVE  ReadyPeopleHold' /\ ReadyKeysHold'
PROOF
  <1>1. ASSUME NEW c \in Company, IsReady(c)'
        PROVE  /\ IsReady(c) /\ snapshot'[c] = snapshot[c] /\ snapshot[c] \in Snapshot
    BY <1>1 DEF RowsRespect, IsReady, ImportTypeOK
  <1>2. ASSUME NEW c \in Company, IsReady(c)', NEW p \in snapshot'[c].acting
        PROVE  people'[p] \in {NoRow, snapshot'[c].people[p]}
    <2>1. p \in PersonId /\ snapshot[c].people[p] # NoRow
      BY <1>1, <1>2, SnapshotFacts
    <2>2. people'[p] = people[p]
      BY <1>1, <1>2, <2>1 DEF RowsRespect, PersonReserved
    <2> QED
      BY <1>1, <1>2, <2>2 DEF ReadyPeopleHold
  <1>3. ASSUME NEW c \in Company, NEW k \in Key, IsReady(c)',
               \/ \E p \in PersonId : snapshot[c].people[p] # NoRow /\ k \in snapshot[c].people[p].keys
               \/ snapshot[c].install[k] = "active"
        PROVE  {q \in PersonId : k \in KeysOf(people'[q])} = {q \in PersonId : k \in KeysOf(people[q])}
    <2>1. KeyReserved(k)
      BY <1>1, <1>3 DEF KeyReserved, KeysOf
    <2> QED
      BY <2>1 DEF RowsRespect
  <1>4. ReadyPeopleHold'
    BY <1>2 DEF ReadyPeopleHold
  <1>5. ReadyKeysHold'
    <2> SUFFICES ASSUME NEW c \in Company, NEW k \in Key, IsReady(c)'
                 PROVE  LET b == {q \in PersonId : k \in KeysOf(people'[q])}
                        IN /\ \A p \in PersonId : (snapshot'[c].people[p] # NoRow
                                                 /\ k \in snapshot'[c].people[p].keys) => b \subseteq {p}
                           /\ snapshot'[c].install[k] = "active" => b = {}
      BY DEF ReadyKeysHold
    <2> QED
      BY <1>1, <1>3 DEF ReadyKeysHold
  <1> QED
    BY <1>4, <1>5

\* migration.ready accepts a snapshot when the host's keys have one person each:
\* then the owner validateSnapshot compares with is the only one there is.
LEMMA LoneReady ==
  ASSUME ImportTypeOK, Disjoint, NEW c \in Company, NEW s \in Snapshot, ReadyImport(c, s), Lone',
         Unshared
  PROVE  Unshared' /\ ReadyPeopleHold' /\ ReadyKeysHold'
PROOF
  <1>1. /\ people' = people /\ install' = install /\ stage[c] = "none" /\ Valid(c, s)
        /\ snapshot'[c] = s /\ stage'[c] = "ready"
        /\ \A d \in Company \ {c} : stage'[d] = stage[d]
    BY DEF ReadyImport, ImportTypeOK, rows
  <1>2. \A d \in Company \ {c} : stage[d] = "none" /\ ~IsReady(d)'
    BY <1>1 DEF Lone, IsReady
  <1>3. Others(c) = {} /\ \A d \in Company : stage[d] # "activated"
    BY <1>1, <1>2 DEF Others, IsReady
  <1>4. \A p \in PersonId : ReservedView(c, p) = people[p]
    BY <1>3 DEF ReservedView
  <1>5. ASSUME NEW k \in Key, NEW p \in PersonId, k \in KeysOf(people[p])
        PROVE  PersonOwner(c, k) = {p}
    <2> DEFINE binds == {q \in PersonId : k \in KeysOf(ReservedView(c, q))}
               reserved == {q \in binds : people[q] = NoRow}
               last == IF reserved # {} THEN reserved ELSE binds
    <2>1. binds = {p}
      BY <1>3, <1>4, <1>5 DEF Disjoint
    <2>2. reserved = {}
      BY <2>1, <1>5 DEF KeysOf
    <2>3. p <= p
      BY DestinationAssumption DEF DestinationAssumption
    <2>4. {q \in last : \A r \in last : r <= q} = {p}
      BY <2>1, <2>2, <2>3
    <2> QED
      BY <2>4 DEF PersonOwner
  <1>6. ReadyPeopleHold'
    BY <1>1, <1>2, <1>4, SnapshotFacts DEF ReadyPeopleHold, Valid, PeopleAgree
  <1>7. ASSUME NEW k \in Key, NEW p \in PersonId, s.people[p] # NoRow, k \in s.people[p].keys,
               NEW q \in PersonId, k \in KeysOf(people[q])
        PROVE q = p
    BY <1>1, <1>5, <1>7 DEF Valid, KeysAgree
  <1>8. ASSUME NEW k \in Key, s.install[k] = "active"
        PROVE \A q \in PersonId : k \notin KeysOf(people[q])
    BY <1>1, <1>5, <1>8 DEF Valid, KeysAgree
  <1>9. ReadyKeysHold'
    BY <1>1, <1>2, <1>7, <1>8 DEF ReadyKeysHold
  <1> QED
    BY <1>1, <1>6, <1>9 DEF Unshared

\* migration.finalize brings the snapshot's persons, and no row stands against
\* them; the installations it brings are disabled.
LEMMA LoneFinalize ==
  ASSUME ImportTypeOK, NEW c \in Company, FinalizeImport(c), Lone, Unshared, ReadyKeysHold
  PROVE  Unshared' /\ ReadyPeopleHold' /\ ReadyKeysHold'
PROOF
  <1> DEFINE s == snapshot[c]
  <1>1. /\ IsReady(c) /\ s \in Snapshot /\ KeysAgree(c, s)
        /\ people' = ImportPeople(s) /\ install' = ImportInstalls(s)
        /\ stage' = [stage EXCEPT ![c] = "activated"]
    BY DEF FinalizeImport, ImportTypeOK, Valid
  <1>2. \A d \in Company : ~IsReady(d)'
    <2>1. \A d \in Company \ {c} : stage[d] = "none"
      BY <1>1 DEF Lone, IsReady
    <2> QED
      BY <1>1, <2>1 DEF IsReady, ImportTypeOK
  <1>3. \A p \in PersonId : people'[p] = IF people[p] # NoRow THEN people[p] ELSE s.people[p]
    BY <1>1 DEF ImportPeople
  <1>4. \A k \in Key : install'[k] = "active" => install[k] = "active"
    BY <1>1 DEF ImportInstalls
  <1>5. ASSUME NEW p \in PersonId, NEW q \in PersonId, NEW k \in Key, people[p] # NoRow,
               k \in people[p].keys, s.people[q] # NoRow, k \in s.people[q].keys
        PROVE p = q
    <2>1. k \in KeysOf(people[p])
      BY <1>5 DEF KeysOf
    <2> QED
      BY <1>1, <1>5, <2>1 DEF ReadyKeysHold
  <1>6. ASSUME NEW p \in PersonId, NEW q \in PersonId, NEW k \in Key, s.people[p] # NoRow,
               k \in s.people[p].keys, s.people[q] # NoRow, k \in s.people[q].keys
        PROVE p = q
    <2>1. k \in KeysOf(s.people[p]) \cap KeysOf(s.people[q])
      BY <1>6 DEF KeysOf
    <2> QED
      BY <1>1, <2>1, SnapshotFacts
  <1>7. ASSUME NEW p \in PersonId, NEW k \in Key, s.people[p] # NoRow, k \in s.people[p].keys
        PROVE install[k] # "active"
    BY <1>1, <1>7 DEF KeysAgree, InstallBinds
  <1> HIDE DEF s
  <1>8. Unshared'
    <2>1. ASSUME NEW k \in Key, NEW p \in PersonId, NEW q \in PersonId,
                 people'[p] # NoRow, k \in people'[p].keys, people'[q] # NoRow, k \in people'[q].keys
          PROVE p = q
      BY <1>3, <1>5, <1>6, <2>1 DEF Unshared
    <2>2. ASSUME NEW k \in Key, install'[k] = "active", NEW p \in PersonId, people'[p] # NoRow
          PROVE k \notin people'[p].keys
      BY <1>3, <1>4, <1>7, <2>2 DEF Unshared
    <2> QED
      BY <2>1, <2>2 DEF Unshared
  <1>9. ReadyPeopleHold' /\ ReadyKeysHold'
    BY <1>2 DEF ReadyPeopleHold, ReadyKeysHold
  <1> QED
    BY <1>8, <1>9

LEMMA LoneNext == ImportTypeOK /\ Disjoint /\ [ImportNext]_import_vars /\ Lone /\ Lone' /\ Collisionless => Collisionless'
PROOF
  <1> SUFFICES ASSUME ImportTypeOK, Disjoint, [ImportNext]_import_vars, Lone, Lone', Collisionless
               PROVE  Unshared' /\ ReadyPeopleHold' /\ ReadyKeysHold'
    BY UnsharedIsUniqueNext DEF Collisionless
  <1>0. Unshared /\ ReadyPeopleHold /\ ReadyKeysHold
    BY UnsharedIsUnique DEF Collisionless
  <1>1. CASE stage' = stage
    BY <1>0, <1>1, LocalRespect, LocalUnshared, LocalReadyHold
  <1>2. ASSUME NEW c \in Company, NEW s \in Snapshot, ReadyImport(c, s)
        PROVE  Unshared' /\ ReadyPeopleHold' /\ ReadyKeysHold'
    BY <1>0, <1>2, LoneReady
  <1>3. ASSUME NEW c \in Company, FinalizeImport(c)
        PROVE  Unshared' /\ ReadyPeopleHold' /\ ReadyKeysHold'
    BY <1>0, <1>3, LoneFinalize
  <1>4. ASSUME NEW c \in Company, AbortImport(c)
        PROVE  Unshared' /\ ReadyPeopleHold' /\ ReadyKeysHold'
    <2>1. /\ people' = people /\ install' = install
          /\ \A d \in Company : IsReady(d)' => IsReady(d) /\ snapshot'[d] = snapshot[d]
      BY <1>4 DEF AbortImport, DropImport, ImportTypeOK, IsReady, rows
    <2> QED
      BY <1>0, <2>1 DEF Unshared, ReadyPeopleHold, ReadyKeysHold
  <1> QED
    BY <1>1, <1>2, <1>3, <1>4
    DEF ImportNext, Register, Rotate, Install, Uninstall, Admit, Claim, import_vars, rows

\* What can spoil a ready stage: of the commands of the host's own people and
\* companies only a rival profile.admit makes finalize refuse a snapshot it would
\* have taken; and while one company arrives alone no step gives a key two
\* identities or leaves a row of another identity against the snapshot.
THEOREM SafeReady == ImportSpec => ReadySurvives
PROOF
  <1>1. ImportTypeOK /\ [ImportNext]_import_vars =>
          [(UNCHANGED stage) =>
             \A c \in Company : (IsReady(c) /\ Valid(c, snapshot[c])) =>
               Valid(c, snapshot[c])' \/ RivalAdmission(snapshot[c])]_import_vars
    BY LocalRespect, ValidKept
  <1>2. ImportInit => Disjoint
    BY DEF ImportInit, Disjoint, KeysOf
  <1>3. ImportTypeOK /\ Disjoint /\ [ImportNext]_import_vars => [(Lone /\ Lone' /\ Collisionless) => Collisionless']_import_vars
    BY LoneNext
  <1> QED
    BY <1>1, <1>2, <1>3, ImportTypeInit, ImportTypeNext, DisjointNext, PTL
    DEF ImportSpec, ReadySurvives, LocalCommandsRespectReady, LoneArrivalHolds

-----------------------------------------------------------------------------
(***************************************************************************)
(* CompanyAuthority: for every set of persons, permissions, invitations    *)
(* and policies and every skew, window and term.                           *)
(***************************************************************************)

(* Type correctness *)

LEMMA InstantFacts ==
  ASSUME AuthorityTypeOK
  PROVE  /\ \A t \in IssuedAt : t \in Instant
         /\ \A e \in Expiry : e \in Instant
PROOF
  BY AuthorityAssumption DEF AuthorityAssumption, AuthorityTypeOK, IssuedAt, Expiry, Instant

\* The types hold initially.
LEMMA AuthorityTypeInit == AuthorityInit => AuthorityTypeOK
PROOF
  BY DEF AuthorityInit, AuthorityTypeOK, Instant

\* Every command preserves the types.
LEMMA AuthorityTypeNext == AuthorityTypeOK /\ [AuthorityNext]_authority_vars => AuthorityTypeOK'
PROOF
  <1> SUFFICES ASSUME AuthorityTypeOK, [AuthorityNext]_authority_vars PROVE AuthorityTypeOK'
    OBVIOUS
  <1> USE InstantFacts
  <1>1. ASSUME NEW a \in Person, NEW cs \in SUBSET Person, SetControllers(a, cs) PROVE AuthorityTypeOK'
    BY <1>1 DEF SetControllers, Quorate, AuthorityTypeOK, Instant
  <1>2. ASSUME NEW a \in Person, NEW p \in Person, NEW i \in InvitationId,
               NEW rs \in SUBSET Permission, NEW e \in Expiry, NEW t \in IssuedAt,
               Invite(a, i, p, rs, e, t)
        PROVE AuthorityTypeOK'
    <2>1. Consumed(p) \in [InvitationId -> Invitation \cup {None}]
      BY DEF Consumed, AuthorityTypeOK, Invitation
    <2>2. invitations' \in [InvitationId -> Invitation \cup {None}]
      BY <1>2, <2>1 DEF Invite, Invitation
    <2>3. delegated' \in [Permission -> Nat]
      BY <1>2 DEF Invite, AuthorityTypeOK, Instant
    <2>4. portable' \in BOOLEAN
      BY <1>2 DEF Invite, AuthorityTypeOK
    <2> QED
      BY <1>2, <2>2, <2>3, <2>4 DEF Invite, AuthorityTypeOK
  <1>3. ASSUME NEW p \in Person, NEW i \in InvitationId, NEW t \in IssuedAt, Accept(p, i, t)
        PROVE AuthorityTypeOK'
    <2>1. invitations[i] \in Invitation
      BY <1>3 DEF Accept, Usable, AuthorityTypeOK
    <2>2. members' \in [Person -> Membership \cup {None}]
      BY <1>3, <2>1 DEF Accept, AuthorityTypeOK, Invitation, Membership
    <2>3. invitations' \in [InvitationId -> Invitation \cup {None}]
      BY <1>3, <2>1 DEF Accept, AuthorityTypeOK, Invitation
    <2>4. portable' \in BOOLEAN
      BY <1>3 DEF Accept, AuthorityTypeOK
    <2> QED
      BY <1>3, <2>2, <2>3, <2>4 DEF Accept, AuthorityTypeOK
  <1>4. ASSUME NEW a \in Person, NEW p \in Person, NEW t \in IssuedAt, Revoke(a, p, t)
        PROVE AuthorityTypeOK'
    <2>1. members' \in [Person -> Membership \cup {None}]
      BY <1>4 DEF Revoke, AuthorityTypeOK, Membership
    <2>2. invitations' \in [InvitationId -> Invitation \cup {None}]
      <3>1. ASSUME NEW inv \in Invitation PROVE [inv EXCEPT !.active = FALSE] \in Invitation
        BY <3>1 DEF Invitation
      <3>2. Disabled(p) \in [InvitationId -> Invitation \cup {None}]
        BY <3>1 DEF Disabled, AuthorityTypeOK
      <3> QED
        BY <1>4, <3>2 DEF Revoke
    <2>3. revoked_at' \in [Person -> Nat]
      BY <1>4 DEF Revoke, AuthorityTypeOK, Instant
    <2>4. ended' \subseteq PolicyId \X Person
      BY <1>4 DEF Revoke, Granted, AuthorityTypeOK
    <2>5. portable' \in BOOLEAN
      BY <1>4 DEF Revoke, AuthorityTypeOK
    <2> QED
      BY <1>4, <2>1, <2>2, <2>3, <2>4, <2>5 DEF Revoke, AuthorityTypeOK
  <1>5. ASSUME NEW a \in Person, NEW x \in PolicyId, NEW stewards \in SUBSET Person,
               NEW n \in 1..Cardinality(Person), NEW grants \in [Person -> {0} \cup Expiry],
               NEW t \in IssuedAt, WritePolicy(a, x, stewards, n, grants, t)
        PROVE AuthorityTypeOK'
    <2>1. grants \in [Person -> Nat] /\ n \in Nat
      BY DEF Instant
    <2>2. policies' \in [PolicyId -> Policy \cup {None}]
      BY <1>5, <2>1 DEF WritePolicy, AuthorityTypeOK, Policy
    <2>3. portable' \in BOOLEAN
      BY <1>5 DEF WritePolicy, AuthorityTypeOK
    <2> QED
      BY <1>5, <2>2, <2>3 DEF WritePolicy, AuthorityTypeOK
  <1>6. CASE TickAuthority
    BY <1>6 DEF TickAuthority, authority, AuthorityTypeOK, Instant
  <1>7. CASE UNCHANGED authority_vars
    BY <1>7 DEF authority_vars, authority, AuthorityTypeOK
  <1> QED
    BY <1>1, <1>2, <1>3, <1>4, <1>5, <1>6, <1>7 DEF AuthorityNext

\* The state of a company's administration keeps its shape, and a company keeps a
\* controller, whatever commands are accepted.
THEOREM AuthorityTypeCorrect == AuthoritySpec => []AuthorityTypeOK
PROOF
  BY AuthorityTypeInit, AuthorityTypeNext, PTL DEF AuthoritySpec

-----------------------------------------------------------------------------
(* Revocation *)

\* Every grant a revocation ended is in a revision no later than that revocation.
EndedBefore ==
  \A g \in ended : policies[g[1]] # None /\ policies[g[1]].issued_at <= revoked_at[g[2]]

\* A revision older than the revocation gives nothing.
LEMMA EndedMeansEnded == AuthorityTypeOK /\ EndedBefore => RevocationEndsGrants
PROOF
  <1> SUFFICES ASSUME AuthorityTypeOK, EndedBefore, NEW g \in ended PROVE ~DataAllowed(g[1], g[2])
    BY DEF RevocationEndsGrants
  <1>1. policies[g[1]] \in Policy /\ revoked_at[g[2]] \in Nat
    BY DEF AuthorityTypeOK, EndedBefore
  <1>2. ~GrantCurrent(g[1], g[2])
    BY <1>1 DEF EndedBefore, GrantCurrent, Policy, Instant
  <1> QED
    BY <1>2 DEF DataAllowed

\* No command moves a revocation back, and a new revision of a policy is outside it.
LEMMA EndedBeforeNext == AuthorityTypeOK /\ EndedBefore /\ [AuthorityNext]_authority_vars => EndedBefore'
PROOF
  <1> SUFFICES ASSUME AuthorityTypeOK, EndedBefore, [AuthorityNext]_authority_vars PROVE EndedBefore'
    OBVIOUS
  <1>1. ASSUME NEW a \in Person, NEW p \in Person, NEW t \in IssuedAt, Revoke(a, p, t)
        PROVE EndedBefore'
    <2> SUFFICES ASSUME NEW g \in ended'
                 PROVE policies[g[1]] # None /\ policies[g[1]].issued_at <= revoked_at'[g[2]]
      BY <1>1 DEF EndedBefore, Revoke
    <2>1. t \in Nat /\ revoked_at[p] \in Nat
      BY InstantFacts DEF AuthorityTypeOK, Instant
    <2>2. g[1] \in PolicyId /\ g[2] \in Person
      BY <1>1 DEF Revoke, Granted, AuthorityTypeOK
    <2>3. revoked_at[g[2]] \in Nat /\ revoked_at'[g[2]] \in Nat
          /\ revoked_at[g[2]] <= revoked_at'[g[2]]
      BY <1>1, <2>1, <2>2 DEF Revoke, AuthorityTypeOK
    <2>4. CASE g \in ended
      <3>1. policies[g[1]] # None /\ policies[g[1]].issued_at <= revoked_at[g[2]]
        BY <2>4 DEF EndedBefore
      <3>2. policies[g[1]].issued_at \in Nat
        BY <2>2, <3>1 DEF AuthorityTypeOK, Policy, Instant
      <3> QED
        BY <2>3, <3>1, <3>2
    <2>5. CASE g \notin ended
      <3>1. g[1] \in Granted(p) /\ g[2] = p
        BY <1>1, <2>5 DEF Revoke
      <3>2. policies[g[1]] # None /\ policies[g[1]].issued_at <= t
        BY <1>1, <3>1 DEF Revoke, NotBeforeGrants, Granted
      <3>3. policies[g[1]].issued_at \in Nat
        BY <2>2, <3>2 DEF AuthorityTypeOK, Policy, Instant
      <3>4. t <= revoked_at'[p]
        BY <1>1, <2>1 DEF Revoke, AuthorityTypeOK
      <3> QED
        BY <2>1, <2>3, <3>1, <3>2, <3>3, <3>4
    <2> QED
      BY <2>4, <2>5
  <1>2. ASSUME NEW a \in Person, NEW x \in PolicyId, NEW stewards \in SUBSET Person,
               NEW n \in 1..Cardinality(Person), NEW grants \in [Person -> {0} \cup Expiry],
               NEW t \in IssuedAt, WritePolicy(a, x, stewards, n, grants, t)
        PROVE EndedBefore'
    <2> SUFFICES ASSUME NEW g \in ended'
                 PROVE policies'[g[1]] # None /\ policies'[g[1]].issued_at <= revoked_at[g[2]]
      BY <1>2 DEF EndedBefore, WritePolicy
    <2>1. g \in ended /\ g[1] # x /\ g[1] \in PolicyId
      BY <1>2 DEF WritePolicy, AuthorityTypeOK
    <2>2. policies'[g[1]] = policies[g[1]]
      BY <1>2, <2>1 DEF WritePolicy, AuthorityTypeOK
    <2> QED
      BY <2>1, <2>2 DEF EndedBefore
  <1>3. CASE UNCHANGED <<ended, policies, revoked_at>>
    BY <1>3 DEF EndedBefore
  <1> QED
    BY <1>1, <1>2, <1>3
    DEF AuthorityNext, SetControllers, Invite, Accept, TickAuthority, authority, authority_vars

\* However the clocks of stewards and managers disagree, a revocation ends every
\* grant the person held, and readmission restores none.
THEOREM SafeRevocation == AuthoritySpec => []RevocationEndsGrants
PROOF
  <1>1. AuthorityInit => EndedBefore
    BY DEF AuthorityInit, EndedBefore
  <1> QED
    BY <1>1, AuthorityTypeInit, AuthorityTypeNext, EndedBeforeNext, EndedMeansEnded, PTL DEF AuthoritySpec

-----------------------------------------------------------------------------
(* Delegation *)

\* Memberships and invitations alike stay within what controllers gave.
Bounded(m) == m # None => \A r \in m.permissions : m.expires_at <= delegated[r]

GivenByControllers ==
  /\ \A p \in Person : Bounded(members[p])
  /\ \A i \in InvitationId : Bounded(invitations[i])

\* A delegate can pass on only what the delegate was given.
LEMMA GivenNext == AuthorityTypeOK /\ GivenByControllers /\ [AuthorityNext]_authority_vars => GivenByControllers'
PROOF
  <1> SUFFICES ASSUME AuthorityTypeOK, GivenByControllers, [AuthorityNext]_authority_vars PROVE GivenByControllers'
    OBVIOUS
  <1>1. ASSUME NEW a \in Person, NEW p \in Person, NEW i \in InvitationId,
               NEW rs \in SUBSET Permission, NEW e \in Expiry, NEW t \in IssuedAt,
               Invite(a, i, p, rs, e, t)
        PROVE GivenByControllers'
    <2>1. e \in Nat
      BY InstantFacts DEF Instant
    <2>2. \A r \in Permission : delegated[r] \in Nat /\ delegated'[r] \in Nat
                               /\ delegated[r] <= delegated'[r]
      BY <1>1, <2>1 DEF Invite, AuthorityTypeOK
    <2>3. \A r \in rs : e <= delegated'[r]
      <3>1. CASE a \in controllers
        BY <1>1, <2>1, <2>2, <3>1 DEF Invite
      <3>2. CASE a \notin controllers
        <4>1. members[a] \in Membership /\ rs \subseteq members[a].permissions
              /\ e <= members[a].expires_at
          BY <1>1, <3>2 DEF Invite, Manages, ActiveMember, WithinAuthority, AuthorityTypeOK
        <4>2. \A r \in rs : members[a].expires_at <= delegated[r]
          BY <4>1, <3>2, <1>1
          DEF GivenByControllers, Bounded, Invite, Manages, ActiveMember
        <4> QED
          BY <2>1, <2>2, <4>1, <4>2 DEF Membership, Instant
      <3> QED
        BY <3>1, <3>2
    <2>4. ASSUME NEW q \in Person PROVE Bounded(members[q])'
      <3>1. members'[q] = members[q] /\ members[q] \in Membership \cup {None}
        BY <1>1 DEF Invite, AuthorityTypeOK
      <3> QED
        BY <2>2, <3>1 DEF GivenByControllers, Bounded, Membership, Instant
    <2>5. ASSUME NEW j \in InvitationId PROVE Bounded(invitations[j])'
      <3>1. CASE j = i
        <4>1. invitations'[i].permissions = rs /\ invitations'[i].expires_at = e
          BY <1>1 DEF Invite, Consumed
        <4> QED
          BY <2>3, <3>1, <4>1 DEF Bounded
      <3>2. CASE j # i
        <4>1. invitations'[j] = Consumed(p)[j]
          BY <1>1, <3>2 DEF Invite, Consumed
        <4>2. invitations[j] \in Invitation \cup {None}
          BY DEF AuthorityTypeOK
        <4>3. invitations[j] = None => invitations'[j] = None
          BY <4>1 DEF Consumed
        <4>4. invitations[j] # None =>
                /\ invitations'[j].permissions = invitations[j].permissions
                /\ invitations'[j].expires_at = invitations[j].expires_at
          BY <4>1, <4>2 DEF Consumed, Invitation
        <4> QED
          BY <2>2, <4>2, <4>3, <4>4 DEF GivenByControllers, Bounded, Invitation, Instant
      <3> QED
        BY <3>1, <3>2
    <2> QED
      BY <2>4, <2>5 DEF GivenByControllers
  <1>2. ASSUME NEW p \in Person, NEW i \in InvitationId, NEW t \in IssuedAt, Accept(p, i, t)
        PROVE GivenByControllers'
    <2>1. invitations[i] \in Invitation /\ Bounded(invitations[i])
      BY <1>2 DEF Accept, Usable, AuthorityTypeOK, GivenByControllers
    <2>2. delegated' = delegated
      BY <1>2 DEF Accept
    <2>3. ASSUME NEW q \in Person PROVE Bounded(members[q])'
      BY <1>2, <2>1, <2>2 DEF Accept, Usable, AuthorityTypeOK, GivenByControllers, Bounded
    <2>4. ASSUME NEW j \in InvitationId PROVE Bounded(invitations[j])'
      BY <1>2, <2>1, <2>2
      DEF Accept, Usable, AuthorityTypeOK, GivenByControllers, Bounded, Invitation
    <2> QED
      BY <2>3, <2>4 DEF GivenByControllers
  <1>3. ASSUME NEW a \in Person, NEW p \in Person, NEW t \in IssuedAt, Revoke(a, p, t)
        PROVE GivenByControllers'
    <2>1. delegated' = delegated
      BY <1>3 DEF Revoke
    <2>2. ASSUME NEW q \in Person PROVE Bounded(members[q])'
      BY <1>3, <2>1 DEF Revoke, AuthorityTypeOK, GivenByControllers, Bounded, Membership
    <2>3. ASSUME NEW j \in InvitationId PROVE Bounded(invitations[j])'
      BY <1>3, <2>1 DEF Revoke, Disabled, AuthorityTypeOK, GivenByControllers, Bounded, Invitation
    <2> QED
      BY <2>2, <2>3 DEF GivenByControllers
  <1>4. CASE UNCHANGED <<members, invitations, delegated>>
    BY <1>4 DEF GivenByControllers, Bounded
  <1> QED
    BY <1>1, <1>2, <1>3, <1>4 DEF AuthorityNext, SetControllers, WritePolicy, TickAuthority, authority, authority_vars

\* Nobody holds a permission, or holds it longer, than some controller gave it.
THEOREM SafeDelegation == AuthoritySpec => []DelegationBounded
PROOF
  <1>1. AuthorityInit => GivenByControllers
    BY DEF AuthorityInit, GivenByControllers, Bounded
  <1>2. GivenByControllers => DelegationBounded
    BY DEF GivenByControllers, Bounded, DelegationBounded
  <1> QED
    BY <1>1, <1>2, AuthorityTypeInit, AuthorityTypeNext, GivenNext, PTL DEF AuthoritySpec

-----------------------------------------------------------------------------
(* Reinvitation *)

\* Of a person's invitations at most one is not consumed.
OneUnconsumed ==
  \A i, j \in InvitationId :
    (/\ invitations[i] # None /\ invitations[j] # None
     /\ invitations[i].person_id = invitations[j].person_id
     /\ ~invitations[i].accepted /\ ~invitations[j].accepted) => i = j

\* A new invitation consumes those before it, and nothing reopens one.
LEMMA OneUnconsumedNext == AuthorityTypeOK /\ OneUnconsumed /\ [AuthorityNext]_authority_vars => OneUnconsumed'
PROOF
  <1> SUFFICES ASSUME AuthorityTypeOK, OneUnconsumed, [AuthorityNext]_authority_vars PROVE OneUnconsumed'
    OBVIOUS
  <1>1. ASSUME NEW a \in Person, NEW p \in Person, NEW i \in InvitationId,
               NEW rs \in SUBSET Permission, NEW e \in Expiry, NEW t \in IssuedAt,
               Invite(a, i, p, rs, e, t)
        PROVE OneUnconsumed'
    <2>1. invitations'[i].person_id = p
      BY <1>1 DEF Invite, Consumed
    <2>2. ASSUME NEW j \in InvitationId \ {i}, invitations'[j] # None, ~invitations'[j].accepted
          PROVE invitations'[j] = invitations[j] /\ invitations[j].person_id # p
      <3>1. invitations'[j] = Consumed(p)[j] /\ invitations[j] \in Invitation \cup {None}
        BY <1>1 DEF Invite, Consumed, AuthorityTypeOK
      <3> QED
        BY <2>2, <3>1 DEF Consumed, Invitation
    <2> QED
      BY <2>1, <2>2 DEF OneUnconsumed
  <1>2. ASSUME NEW p \in Person, NEW i \in InvitationId, NEW t \in IssuedAt, Accept(p, i, t)
        PROVE OneUnconsumed'
    BY <1>2 DEF Accept, Usable, AuthorityTypeOK, Invitation, OneUnconsumed
  <1>3. ASSUME NEW a \in Person, NEW p \in Person, NEW t \in IssuedAt, Revoke(a, p, t)
        PROVE OneUnconsumed'
    <2>1. ASSUME NEW j \in InvitationId
          PROVE /\ invitations'[j] # None => invitations[j] # None
                /\ invitations[j] # None =>
                     /\ invitations'[j].person_id = invitations[j].person_id
                     /\ invitations'[j].accepted = invitations[j].accepted
      BY <1>3 DEF Revoke, Disabled, AuthorityTypeOK, Invitation
    <2> QED
      BY <2>1 DEF OneUnconsumed
  <1>4. CASE UNCHANGED invitations
    BY <1>4 DEF OneUnconsumed
  <1> QED
    BY <1>1, <1>2, <1>3, <1>4 DEF AuthorityNext, SetControllers, WritePolicy, TickAuthority, authority, authority_vars

\* A person never has two sets of terms to choose from.
THEOREM SafeReinvitation == AuthoritySpec => []OneOpenInvitation
PROOF
  <1>1. AuthorityInit => OneUnconsumed
    BY DEF AuthorityInit, OneUnconsumed
  <1>2. OneUnconsumed => OneOpenInvitation
    BY DEF OneUnconsumed, OneOpenInvitation, Usable
  <1> QED
    BY <1>1, <1>2, AuthorityTypeInit, AuthorityTypeNext, OneUnconsumedNext, PTL DEF AuthoritySpec

=============================================================================
