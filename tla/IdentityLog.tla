---------------------------- MODULE IdentityLog ----------------------------
(***************************************************************************)
(* The portable control history of a person's identity (sdk/src/foundation *)
(* identity.ts, identity-log.ts).  A log is the sequence of control heads; *)
(* a head commits to its predecessor by digest, so a prefix of a log       *)
(* stands for the digest of its last head.  A quorum is a name; KeysOf     *)
(* gives its keys, which quorums of different thresholds may share.  A     *)
(* signature needs no state: whoever holds a quorum may sign.              *)
(***************************************************************************)
EXTENDS Integers, SequencesExt

CONSTANTS Host, Quorum,
          KeysOf,   \* the keys of each quorum
          Lease,    \* LEASE_MS: how long a resolution may be used
          Margin,   \* CLOCK_MARGIN_MS: what clocks may differ by
          Window    \* the longest a signed document stays acceptable

ASSUME ClockAssumption == Lease \in Nat /\ Margin \in Nat /\ Window \in Nat \ {0}

Larger(a, b) == IF a >= b THEN a ELSE b

\* One control head, with the window of the document that produced it and
\* the resolver that serves it.  A rehome is an entry whose epoch differs.
Entry(op, rec, at, issued, resolver, epoch) ==
  [op |-> op, rec |-> rec, at |-> at, issued |-> issued,
   resolver |-> resolver, epoch |-> epoch]

Control == [op : Quorum, rec : Quorum, at : Nat, issued : Nat, resolver : Host, epoch : Nat]

Moves(log) == {n \in 2..Len(log) : log[n].epoch # log[n - 1].epoch}
Heads(log) == Prefixes(log) \ {<<>>}   \* what the digest of each head stands for

\* The rehome document behind entry n: the head it expects, where it goes, when it was signed.
Document(base, to, issued) == [base |-> base, to |-> to, issued |-> issued]
Rehome == [base : Seq(Control), to : Host, issued : Nat]
DocumentAt(log, n) == Document(SubSeq(log, 1, n - 1), log[n].resolver, log[n].issued)

\* createIdentity: head 0, whose instant the first resolver gives.
Genesis(op, rec, at, resolver) == <<Entry(op, rec, at, at, resolver, 0)>>

\* Keys that left a head; none of them may return.  A quorum may, when all its keys
\* stayed: another threshold and back, a key added and removed.
Acting(e) == KeysOf[e.op] \cup KeysOf[e.rec]
Retired(log) == (UNION {Acting(log[n]) : n \in DOMAIN log}) \ Acting(Last(log))

\* A rotate or recover changes the operational keys, a recovery-policy the recovery keys.
ControlAllowed(log, op, rec) ==
  /\ op = Last(log).op \/ rec = Last(log).rec
  /\ KeysOf[op] \cap KeysOf[rec] = {}
  /\ (KeysOf[op] \cup KeysOf[rec]) \cap Retired(log) = {}

\* When a key change takes effect: after every lease the resolver promised, and a margin.
Barrier(now, lease) == Larger(now, lease + Margin)

\* transitionIdentity and rehomeIdentity: the head each appends.
Transitioned(log, op, rec, issued, at) ==
  Append(log, Entry(op, rec, at, issued, Last(log).resolver, Last(log).epoch))
Rehomed(log, to, issued, at) ==
  Append(log, Entry(Last(log).op, Last(log).rec, at, issued, to, Last(log).epoch + 1))

\* verifyIdentityLog: every entry is one the state machine could have produced
\* inside the signed window, under some lease it may have had to wait for.
Verifies(log) ==
  \A n \in 2..Len(log) :
    LET e == log[n]
        before == SubSeq(log, 1, n - 1)
        previous == log[n - 1].at
    IN /\ e.at >= e.issued /\ e.at >= previous /\ previous < e.issued + Window
       /\ \/ /\ e.epoch = log[n - 1].epoch
             /\ e.at <= e.issued + Window - 1 + Lease + Margin
             /\ log[n] = Last(Transitioned(before, e.op, e.rec, e.issued, e.at))
             /\ ControlAllowed(before, e.op, e.rec)
          \/ /\ e.at < e.issued + Window
             /\ log[n] = Last(Rehomed(before, e.resolver, e.issued, e.at))

\* precedence: how two histories of one identity compare.  A fork is ranked by
\* its epoch, and only while the recovery quorum it forked under is still current.
\* Fault: only the epoch ranks a fork.
ConflictFault(a, b) ==
  /\ ~ IsPrefix(a, b) /\ ~ IsPrefix(b, a)
  /\ Last(a).epoch = Last(b).epoch
Conflict(a, b) ==
  \E i \in 1..Len(a) :
    /\ i <= Len(b) /\ a[i] # b[i] /\ \A j \in 1..(i - 1) : a[j] = b[j]
    /\ \/ Last(a).epoch = Last(b).epoch
       \/ LET higher == IF Last(a).epoch > Last(b).epoch THEN a ELSE b
              lower == IF higher = a THEN b ELSE a
          IN higher[Larger(i - 1, 1)].rec # Last(lower).rec

\* refusedMove: the log holds a refused rehome and no later one to another destination.
RefusedMove(log, refusals) ==
  \E n \in Moves(log) :
    /\ DocumentAt(log, n) \in refusals
    /\ \A m \in Moves(log) : m > n => log[m].resolver = log[n].resolver

\* The adoption evidence: each move past an epoch carries its destination's attestation.
\* Fault: the owner's consent passes for the move.
AdoptedFault(log, epoch, attested) == TRUE
Adopted(log, epoch, attested) ==
  \A n \in Moves(log) : log[n].epoch > epoch => SubSeq(log, 1, n) \in attested

\* A fork of the pinned history is followed only by a party that holds that
\* history, and only to a higher epoch.
Supersedes(pin, kept, log) == kept /\ Last(log).epoch > Last(pin).epoch

\* judgeVerified: whether a party holding `pin` (the log its pinned head ends, of
\* which it knows the last head only unless `kept`) admits a verified log.
Admissible(pin, kept, log, attested, refusals) ==
  /\ ~ RefusedMove(log, refusals)
  /\ kept => ~ Conflict(log, pin)
  /\ \E n \in DOMAIN log : /\ log[n].epoch = Last(pin).epoch
                          /\ log[n].resolver = Last(pin).resolver
  /\ Len(log) >= Len(pin)
  /\ Adopted(log, Last(pin).epoch, attested)
  /\ IsPrefix(pin, log) \/ Supersedes(pin, kept, log)
============================================================================
