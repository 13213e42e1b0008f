------------------------------ MODULE ChangeFeed ------------------------------
(***************************************************************************)
(* The authorized change view of sdk/src/foundation/changes.ts and the      *)
(* consumer that follows it: pure functions of a view, a batch, a page and  *)
(* a consumer. An operation the code refuses (it throws) yields None.       *)
(*                                                                         *)
(* The view's first checkpoint is 0 and an event's checkpoint its event_id; *)
(* a snapshot page is named by its place, 0 for the null cursor.            *)
(***************************************************************************)
EXTENDS Integers, Sequences, FiniteSets, SequencesExt

CONSTANTS
    None,
    PageSize,       \* PAGE
    MaxRetained,    \* the retained events a view holds
    ViewLife        \* how long a view is served

Base == 0

\* apply: a change replaces, adds or removes one item, on exactly its predecessor.
Held(items, entity) ==
    IF \E i \in items : i.entity = entity
    THEN (CHOOSE i \in items : i.entity = entity).revision ELSE None
Applies(items, e) == Held(items, e.entity) = e.previous
Applied(items, e) ==
    {i \in items : i.entity # e.entity}
    \cup (IF e.value = None THEN {} ELSE {[entity |-> e.entity, revision |-> e.value]})

-----------------------------------------------------------------------------
CreateChangeView(binding, snapshot, source_checkpoint, as_of) ==
    [binding |-> binding, snapshot |-> snapshot, source_checkpoint |-> source_checkpoint,
     snapshot_as_of |-> as_of, as_of |-> as_of, expires_at |-> as_of + ViewLife,
     version |-> 0, current |-> Range(snapshot), events |-> <<>>, seen |-> {},
     floor_checkpoint |-> Base, latest_checkpoint |-> Base, last_batch |-> None]

\* An event already taken, by its stable identity.
KnownEvent(v, e) == e \in v.seen

\* One event of a batch: skipped when known, refused when it conflicts with a
\* known identity, came from before the last scan or has another predecessor.
TakeEvent(v, e) ==
    IF v = None THEN None
    ELSE IF KnownEvent(v, e) THEN v
    ELSE IF /\ \A s \in v.seen : s.event_id # e.event_id
            /\ e.accepted_at >= v.as_of
            /\ Applies(v.current, e)
    THEN [v EXCEPT !.current = Applied(@, e),
              !.events = Append(@, [change |-> e, previous_checkpoint |-> v.latest_checkpoint]),
              !.latest_checkpoint = e.event_id, !.seen = @ \cup {e}]
    ELSE None

\* appendChangeBatch: the batch just taken may be given again; any other must be
\* built on this version and continue the source where the view stands.
AppendChangeBatch(v, b) ==
    IF b = v.last_batch THEN v
    ELSE IF /\ b.expected_version = v.version
            /\ b.from_source_checkpoint = v.source_checkpoint
            /\ b.to_source_checkpoint # b.from_source_checkpoint
            /\ b.as_of >= v.as_of /\ b.as_of < v.expires_at
            /\ \A k \in DOMAIN b.events : b.events[k].accepted_at <= b.as_of
    THEN LET w == FoldLeft(TakeEvent, v, b.events)
         IN  IF w = None \/ Len(w.events) > MaxRetained THEN None
             ELSE [w EXCEPT !.source_checkpoint = b.to_source_checkpoint, !.as_of = b.as_of,
                            !.last_batch = b, !.version = @ + 1]
    ELSE None

\* retainChanges: delivery history goes, the identities stay.
RetainChanges(v, keep) ==
    LET gone == IF Len(v.events) > keep THEN Len(v.events) - keep ELSE 0
    IN  [v EXCEPT !.events = SubSeq(@, gone + 1, Len(@)),
                  !.floor_checkpoint = IF gone = 0 THEN @ ELSE v.events[gone].change.event_id,
                  !.version = @ + 1, !.last_batch = None]

-----------------------------------------------------------------------------
Restart == [kind |-> "resnapshot_required"]
Access(v, binding, now) == v.binding = binding /\ v.as_of <= now /\ now < v.expires_at

SnapshotPages(v) == IF Len(v.snapshot) <= PageSize THEN 1
                    ELSE (Len(v.snapshot) + PageSize - 1) \div PageSize
SnapshotServed(v) == v.floor_checkpoint = Base
SnapshotPage(v, binding, cursor, now) ==
    IF ~Access(v, binding, now) \/ ~SnapshotServed(v) \/ cursor >= SnapshotPages(v) THEN Restart
    ELSE LET next == IF cursor + 1 < SnapshotPages(v) THEN cursor + 1 ELSE None
         IN  [kind |-> "snapshot", binding |-> v.binding, from |-> cursor, next |-> next,
              items |-> {v.snapshot[k] : k \in {j \in DOMAIN v.snapshot :
                                                cursor * PageSize < j /\ j <= (cursor + 1) * PageSize}},
              snapshot_as_of |-> v.snapshot_as_of, current_as_of |-> v.as_of]

\* pullChanges: what follows a checkpoint that is still known, by its place among the
\* retained events (findIndex and slice).
KnownCheckpoint(v, checkpoint) ==
    checkpoint \in {v.floor_checkpoint} \cup {d.change.event_id : d \in Range(v.events)}
PlaceOf(v, checkpoint) ==
    IF checkpoint = v.floor_checkpoint THEN 0
    ELSE SelectInSeq(v.events, LAMBDA d : d.change.event_id = checkpoint)
PullChanges(v, binding, checkpoint, limit, now) ==
    IF ~Access(v, binding, now) \/ ~KnownCheckpoint(v, checkpoint) THEN Restart
    ELSE LET place == PlaceOf(v, checkpoint)
             end == IF place + limit < Len(v.events) THEN place + limit ELSE Len(v.events)
             events == SubSeq(v.events, place + 1, end)
             to == IF events = <<>> THEN checkpoint ELSE events[Len(events)].change.event_id
         IN  [kind |-> "changes", binding |-> v.binding, from |-> checkpoint, to |-> to,
              events |-> events, current_as_of |-> v.as_of, complete |-> to = v.latest_checkpoint]

-----------------------------------------------------------------------------
NewConsumer(p) ==
    [binding |-> p.binding, mode |-> "snapshot", items |-> {}, checkpoint |-> None,
     next_snapshot |-> 0, as_of |-> p.snapshot_as_of, current_as_of |-> p.current_as_of,
     complete |-> FALSE, receipts |-> {}, seen |-> {}]
Latest(a, b) == IF a >= b THEN a ELSE b

\* A page of the snapshot received again only tells of a newer watermark.
RetrySnapshotFault(c, p) == [c EXCEPT !.current_as_of = Latest(@, p.current_as_of)]    \* Fault: still "complete".
RetrySnapshot(c, p) ==
    [c EXCEPT !.current_as_of = Latest(@, p.current_as_of),
              !.complete = @ /\ p.current_as_of <= Latest(c.as_of, c.current_as_of)]
ConsumeSnapshotPage(before, p) ==
    LET c == IF before = None THEN NewConsumer(p) ELSE before
        known == {r \in c.receipts : r.from = p.from}
    IN  IF c.binding # p.binding \/ (\E r \in c.receipts : r.snapshot_as_of # p.snapshot_as_of) THEN None
        ELSE IF known # {}
        THEN IF \A r \in known : [r EXCEPT !.current_as_of = p.current_as_of] = p
             THEN RetrySnapshot(c, p) ELSE None
        ELSE IF c.mode = "snapshot" /\ c.next_snapshot = p.from
        THEN [c EXCEPT !.items = @ \cup p.items, !.receipts = @ \cup {p}, !.next_snapshot = p.next,
                       !.current_as_of = Latest(@, p.current_as_of),
                       !.mode = IF p.next = None THEN "live" ELSE @,
                       !.checkpoint = IF p.next = None THEN Base ELSE @]
        ELSE None

TakeDelivery(c, d) ==
    IF c = None THEN None
    ELSE IF d \in c.seen THEN c
    ELSE IF c.checkpoint = d.previous_checkpoint /\ Applies(c.items, d.change)
    THEN [c EXCEPT !.items = Applied(@, d.change), !.checkpoint = d.change.event_id,
                   !.seen = @ \cup {d}]
    ELSE None
Chained(p) ==
    \A k \in DOMAIN p.events :
        p.events[k].previous_checkpoint = IF k = 1 THEN p.from ELSE p.events[k - 1].change.event_id

\* A page that is not older than the latest watermark says how far one has come.
CaughtUp(c, p) == p.complete /\ p.to = c.checkpoint
Watermarked(c, p) ==
    IF p.current_as_of >= c.current_as_of
    THEN [c EXCEPT !.current_as_of = p.current_as_of, !.complete = CaughtUp(c, p),
                   !.as_of = IF CaughtUp(c, p) THEN p.current_as_of ELSE @]
    ELSE c
ConsumeChangePage(c, p) ==
    IF p.kind = "resnapshot_required"
    THEN [c EXCEPT !.mode = "invalidated", !.items = {}, !.checkpoint = None,
                   !.next_snapshot = None, !.complete = FALSE, !.seen = {}, !.receipts = {}]
    ELSE IF /\ c.mode = "live" /\ c.binding = p.binding
            /\ p.from \in {Base, c.checkpoint} \cup {d.change.event_id : d \in c.seen}
            /\ Chained(p)
    THEN LET taken == FoldLeft(TakeDelivery, c, p.events)
         IN  IF taken = None THEN None ELSE Watermarked(taken, p)
    ELSE None
=============================================================================
