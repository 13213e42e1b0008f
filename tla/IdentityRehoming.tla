-------------------------- MODULE IdentityRehoming --------------------------
(***************************************************************************)
(* Resolvers that host one identity, its moves between them, and a relying *)
(* party that pins it (identity-registry.ts, person-authentication.ts).    *)
(* Each action is one transaction of the registry or of the party.  The    *)
(* owner, or a thief of any quorum the identity ever had, signs whatever  *)
(* document the rules accept; exact replays are answered from the store    *)
(* and are stutters.                                                       *)
(***************************************************************************)
EXTENDS IdentityLog, FiniteSets

CONSTANTS Home,        \* the resolver the owner enrolls with
          Operational, Recovery,  \* the key sets of the genesis
          NoRow,
          MaxTime, MaxLength,     \* bounds on the clock and on a log
          MaxStatements           \* bound on the leases and refusals signed

\* A resolver's row of the identity, its history with it.
IdentityRow == [status : {"active", "transferred"}, log : Seq(Control), lease : Nat, update : Nat]

ASSUME HostAssumption ==
  /\ Home \in Host /\ NoRow \notin IdentityRow
  /\ Operational \in Quorum /\ Recovery \in Quorum
  /\ KeysOf[Operational] \cap KeysOf[Recovery] = {}

VARIABLES
  now,        \* one clock; Margin stands for what the real ones differ by
  held,       \* per resolver: its row and history of the identity
  refused,    \* per resolver: rehomes it signed a refusal for
  attested,   \* logs ending in a rehome whose head the destination attested
  leases,     \* resolutions issued
  party       \* the relying party: pin, whether it holds the log, refusals it keeps

vars == <<now, held, refused, attested, leases, party>>

Row(status, log, lease, update) ==
  [status |-> status, log |-> log, lease |-> lease, update |-> update]
Held == {h \in Host : held[h] # NoRow}
Serves(h) == h \in Held /\ held[h].status = "active"

\* What anybody can present: a prefix of a history some resolver holds, or one
\* that a rehome the recovery quorum signed and nobody adopted yet prolongs.  A
\* rehome within one resolver, which only replaces its key, is left out.
Histories == UNION {Heads(held[h].log) : h \in Held}
Elsewhere(log) == Host \ {Last(log).resolver}
Consents == UNION {{Rehomed(log, to, now, now) : to \in Elsewhere(log)} : log \in Histories}
Logs == {log \in Histories \cup Consents : Len(log) <= MaxLength}
Statements == Cardinality(leases) + Cardinality(UNION {refused[h] : h \in Host})
Signed == {i \in 0..now : now < i + Window}

Init ==
  /\ now = 0
  /\ held = [h \in Host |-> NoRow]
  /\ refused = [h \in Host |-> {}]
  /\ attested = {} /\ leases = {}
  /\ \E keeps \in BOOLEAN :
       party = [pin |-> <<>>, keeps |-> keeps, kept |-> FALSE, refusals |-> {}]

\* enroll: head 0 takes effect when the resolver accepts the owner's consent.
Enroll(h) ==
  /\ h = Home /\ held[h] = NoRow
  /\ held' = [held EXCEPT ![h] =
       Row("active", Genesis(Operational, Recovery, now, h), now, now)]
  /\ UNCHANGED <<now, refused, attested, leases, party>>

\* No later than the last update, and not before a pending key change took effect.
\* Fault: a pending change does not hold anything up.
SettledFault(row) == now >= row.update
Settled(row) == now >= row.update /\ now >= Last(row.log).at

\* transition: a key change on the current head, which waits for outstanding leases.
Transition(h, op, rec, issued) ==
  /\ Serves(h)
  /\ LET row == held[h]
         at == Barrier(now, row.lease)
     IN /\ Settled(row) /\ Len(row.log) < MaxLength
        /\ ControlAllowed(row.log, op, rec)
        /\ held' = [held EXCEPT ![h] =
             Row("active", Transitioned(row.log, op, rec, issued, at), row.lease, now)]
  /\ UNCHANGED <<now, refused, attested, leases, party>>

\* resolve: the promise is stored before the signed lease leaves the host.
Resolve(h) ==
  /\ Serves(h) /\ Statements < MaxStatements /\ Settled(held[h])
  /\ held' = [held EXCEPT ![h].lease = Larger(@, now + Lease), ![h].update = now]
  /\ leases' = leases \cup {[log |-> held[h].log, at |-> now]}
  /\ UNCHANGED <<now, refused, attested, party>>

\* buildIdentityLog: a host attests every head of its own epochs as it exports; the
\* model keeps the attestations of heads that a rehome produced, which are read.
OwnHeads(h, log) ==
  {head \in Heads(log) : Last(head).resolver = h /\ Len(head) \in Moves(head)}

\* exportLog: in any status, for leaving must not depend on good standing.
Export(h) ==
  /\ h \in Held
  /\ attested' = attested \cup OwnHeads(h, held[h].log)
  /\ UNCHANGED <<now, held, refused, leases, party>>

\* The history a host stored must be a prefix of the one it adopts.
StoredPrefix(h, next) ==
  held[h] # NoRow => IsPrefix(held[h].log, next) /\ held[h].log # next

\* The former resolver may have promised a lease this one never saw.
\* Fault: adoption assumes that no lease is out.
LeaseOnAdoptionFault(read) == read
LeaseOnAdoption(read) == read + Lease

\* adopt: the destination of a rehome verifies the log, refuses what it promised
\* never to adopt, stores the whole history and starts as if a lease were out.
Adopt(h, log, issued, read) ==
  LET next == Rehomed(log, h, issued, read)
  IN /\ Len(log) < MaxLength /\ read >= Last(log).at
     /\ issued <= read /\ read < issued + Window
     /\ Document(log, h, issued) \notin refused[h]
     /\ StoredPrefix(h, next)
     /\ Verifies(log)
     /\ held' = [held EXCEPT ![h] = Row("active", next, LeaseOnAdoption(read), read)]
     /\ attested' = attested \cup {next}
     /\ UNCHANGED <<now, refused, leases, party>>

\* refuse: never after an adoption of the same rehome, and kept for good.
Refuse(h, log, issued) ==
  LET document == Document(log, h, issued)
  IN /\ Statements < MaxStatements
     /\ h \in Held => \A n \in Moves(held[h].log) : DocumentAt(held[h].log, n) # document
     /\ refused' = [refused EXCEPT ![h] = @ \cup {document}]
     /\ UNCHANGED <<now, held, attested, leases, party>>

\* transfer: the former host records the rehome that leaves it and stops serving.
Transfer(h, log) ==
  /\ Serves(h) /\ Last(held[h].log).resolver = h
  /\ LET mine == held[h].log
         n == Len(mine) + 1
         leaving == {m \in Moves(log) :
                       log[m - 1].resolver = h /\ log[m - 1].epoch = Last(mine).epoch}
     IN /\ leaving = {n} /\ IsPrefix(mine, log) /\ log[n].at >= Last(mine).at
        /\ Verifies(log)
        /\ held' = [held EXCEPT ![h] =
             Row("transferred", SubSeq(log, 1, n), log[n].at + Lease, log[n].at)]
  /\ UNCHANGED <<now, refused, attested, leases, party>>

\* The configured pin: a head of the lineage the host enrolled the person with.
Pin(log) ==
  /\ party.pin = <<>> /\ Last(log).epoch = 0
  /\ log \in UNION {Heads(held[h].log) : h \in Held}
  /\ party' = [party EXCEPT !.pin = log, !.kept = party.keeps]
  /\ UNCHANGED <<now, held, refused, attested, leases>>

\* judgeIdentityLog: verified first, then judged against what the party holds.
Judged(log) ==
  Admissible(party.pin, party.kept, log, attested, party.refusals) /\ Verifies(log)

\* admitIdentityMove and the owner's push: the pin follows an admissible log.
Admit(log) ==
  /\ party.pin # <<>> /\ Judged(log)
  /\ party' = [party EXCEPT !.pin = log, !.kept = party.keeps]
  /\ UNCHANGED <<now, held, refused, attested, leases>>

\* authenticateOperation: a lease of the pinned resolver and epoch moves the
\* checkpoint to its head; the log the party held no longer ends there.
Authenticate(lease) ==
  /\ party.pin # <<>>
  /\ Last(lease.log).resolver = Last(party.pin).resolver
  /\ Last(lease.log).epoch = Last(party.pin).epoch
  /\ lease.at <= now /\ now < lease.at + Lease
  /\ Len(lease.log) >= Len(party.pin)
  /\ Len(lease.log) = Len(party.pin) => lease.log = party.pin
  /\ party' = [party EXCEPT !.pin = lease.log,
                            !.kept = @ /\ lease.log = party.pin]
  /\ UNCHANGED <<now, held, refused, attested, leases>>

\* verifyRehomeRefusal: a refusal is the statement of the destination the rehome names.
RefusalVerifies(document) == document \in refused[document.to]

\* recordRehomeRefusal: the party keeps a destination's refusal of a rehome of this log.
RecordRefusal(log, n) ==
  /\ party.pin # <<>> /\ Verifies(log)
  /\ n \in Moves(log) /\ RefusalVerifies(DocumentAt(log, n))
  /\ party' = [party EXCEPT !.refusals = @ \cup {DocumentAt(log, n)}]
  /\ UNCHANGED <<now, held, refused, attested, leases>>

\* The clock starts with the enrollment: nothing can happen before it.
Tick ==
  /\ now < MaxTime /\ Held # {}
  /\ now' = now + 1
  /\ UNCHANGED <<held, refused, attested, leases, party>>

Next ==
  \/ Tick
  \/ \E h \in Host : Enroll(h) \/ Resolve(h) \/ Export(h)
  \/ \E h \in Host, op, rec \in Quorum, issued \in Signed : Transition(h, op, rec, issued)
  \/ \E log \in Logs, issued \in Signed : \E h \in Elsewhere(log) :
       Refuse(h, log, issued)
  \/ \E log \in Logs, read \in 0..now : \E issued \in 0..read, h \in Elsewhere(log) :
       Adopt(h, log, issued, read)
  \/ \E log \in Logs :
       \/ \E h \in Host : Transfer(h, log)
       \/ Pin(log)
       \/ Admit(log)
       \/ \E n \in Moves(log) : RecordRefusal(log, n)
  \/ \E lease \in leases : Authenticate(lease)

Spec == Init /\ [][Next]_vars

-----------------------------------------------------------------------------
\* Rows hold histories with at least a genesis; what was signed names heads.
TypeOK ==
  /\ now \in Nat
  /\ held \in [Host -> IdentityRow \cup {NoRow}]
  /\ refused \in [Host -> SUBSET Rehome]
  /\ attested \subseteq Seq(Control)
  /\ leases \subseteq [log : Seq(Control), at : Nat]
  /\ party \in [pin : Seq(Control), keeps : BOOLEAN, kept : BOOLEAN, refusals : SUBSET Rehome]
  /\ \A log \in {held[h].log : h \in Held} \cup attested \cup {lease.log : lease \in leases} : log # <<>>

\* Every history a resolver stores replays for a verifier that knows neither its
\* leases nor its clock (identity-log.ts, "never emits a log it cannot verify itself").
HistoriesReplay == \A h \in Held : Verifies(held[h].log)

\* No lease vouches for a key set that a later head of the same lineage has
\* replaced, wherever the lease was issued: the change waits a full margin beyond
\* it, unless the lease was issued after the identity had already moved on.
LeasesAgree ==
  \A lease \in leases, h \in Held :
    LET old == lease.log
        new == held[h].log
    IN IsPrefix(old, new) =>
         \A n \in (Len(old) + 1)..Len(new) :
           /\ new[n].op # Last(old).op \/ new[n].rec # Last(old).rec
           /\ \A m \in Moves(new) : m > Len(old) => lease.at <= new[m].at
           => lease.at + Lease + Margin <= new[n].at

\* Two histories agree up to n, or part after it.
SharedUpTo(a, b, n) == n <= Len(a) /\ n <= Len(b) /\ \A i \in 1..n : a[i] = b[i]
ForksAt(a, b, n) == SharedUpTo(a, b, n) /\ n < Len(a) /\ n < Len(b) /\ a[n + 1] # b[n + 1]

\* The resolver a pin names adopted the identity: it stores the history up to the
\* move that put it there, so a consent nobody took up never redirects a party.
BindingAdopted ==
  \A n \in Moves(party.pin) :
    LET to == party.pin[n].resolver
    IN (\A m \in Moves(party.pin) : m <= n) =>
         to \in Held /\ IsPrefix(SubSeq(party.pin, 1, n), held[to].log)

\* A party that knows a recovery quorum to be replaced follows no fork that this quorum
\* made, through any admission or lease (the fork-point rule of precedence) ...
ForksGoverned ==
  [][\A n \in DOMAIN party.pin : ForksAt(party.pin, party.pin', n) =>
       party.pin'[n].rec = Last(party.pin).rec]_party

\* ... and no key acts again that left in a history the old pin and the new one share.
RetiredStayOut ==
  [][\A n \in DOMAIN party.pin : SharedUpTo(party.pin, party.pin', n) =>
       Acting(Last(party.pin')) \cap Retired(SubSeq(party.pin, 1, n)) = {}]_party

\* A party that holds only its pin never leaves the lineage it pinned: its
\* checkpoint moves forward along one history (judgeVerified fails closed).
PinsExtend ==
  [][~ party.kept => IsPrefix(party.pin, party'.pin)]_party

\* compareRehomeRefusal: what a refusal says about a log.
Compared(document, log) ==
  LET produced == {n \in Moves(log) : DocumentAt(log, n) = document}
  IN  CASE produced = {} -> "unrelated"
        [] \E n \in produced : SubSeq(log, 1, n) \in attested -> "equivocation"
        [] OTHER -> "consistent"

\* "Durable: a later adoption of the same rehome is refused, so the refusal cannot
\* become an equivocation" (identity-registry.ts): no rehome is both refused by
\* its destination and, at the head it produces, attested by it.
RefusalIsFinal ==
  \A h \in Host : \A document \in refused[h], log \in attested : Compared(document, log) # "equivocation"

\* A party's pin moves only to where the identity really is: no fork under a quorum
\* known to be replaced, no retired key, and without a newer log no other history.
PinsHold == ForksGoverned /\ RetiredStayOut /\ PinsExtend
=============================================================================
