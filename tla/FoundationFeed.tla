---------------------------- MODULE FoundationFeed ----------------------------
(***************************************************************************)
(* FoundationStore with a change view over its outbox (ChangeFeed) and one  *)
(* application that follows the view.                                       *)
(*                                                                         *)
(* The host's part is external and modelled from what changes.ts asks of    *)
(* it: a view is opened on a snapshot and a source position read together;  *)
(* a scan is read from one view and committed to a later one or twice; a new *)
(* view may replace it at any time. Pages travel to the application     *)
(* separately and may be lost, repeated, late or reordered.                 *)
(***************************************************************************)
EXTENDS FoundationStore

CONSTANTS
    PageSize, MaxRetained, ViewLife,    \* see ChangeFeed
    MaxBatches, MaxPages

INSTANCE ChangeFeed

\* Absence is no value: neither a place nor what a revision is named for.
ASSUME FeedAssumption ==
    /\ PageSize \in Nat \ {0} /\ MaxRetained \in Nat /\ ViewLife \in Nat
    /\ None \notin Nat /\ None \notin OperationId \cup {Imported}
    /\ \A s \in Scenarios : s.views \in Nat

VARIABLES
    accepted_at,    \* when each outbox entry was written, kept where a view may follow
    view,           \* the ChangeView in force
    batches,        \* scans of the outbox not yet discarded
    pages,          \* pages on their way
    consumer        \* the application's ConsumerState, None before its first page

feed == <<view, batches, pages, consumer>>
allvars == <<vars, accepted_at, feed>>

\* What the feed carries: the history of resources and records.
Carried(k) == outbox[k].entity \in Resource \cup RecordId
Before(k) == {j \in 1..(k - 1) : outbox[j].entity = outbox[k].entity}
ChangeAt(k) ==
    [event_id |-> k, entity |-> outbox[k].entity,
     previous |-> IF Before(k) = {} THEN None ELSE outbox[Max(Before(k))].revision,
     value |-> outbox[k].revision, accepted_at |-> accepted_at[k]]
\* The authorized projection of the outbox up to a position.
Projection(n) ==
    {[entity |-> outbox[k].entity, revision |-> outbox[k].revision] :
        k \in {j \in 1..n : Carried(j) /\ \A l \in (j + 1)..n : outbox[l].entity # outbox[j].entity}}

FeedInit ==
    /\ Init
    /\ accepted_at = <<>> /\ view = None
    /\ batches = {} /\ pages = {} /\ consumer = None

StoreStep ==
    /\ Next
    /\ UNCHANGED feed
    /\ accepted_at' = IF scenario.views = 0 THEN <<>> ELSE
          [k \in DOMAIN outbox' |-> IF k \in DOMAIN accepted_at THEN accepted_at[k] ELSE now]

-----------------------------------------------------------------------------
ViewId == IF view = None THEN 0 ELSE view.binding

\* The host keeps what an operation made of a view, unless the operation refused.
Committed(w) == view' = w /\ w # None
\* A view is opened on the state of an organization; a new authority or policy
\* epoch means a new view, and the old one is served no more.
OpenView ==
    /\ log # <<>> /\ ViewId < scenario.views
    /\ Committed(CreateChangeView(ViewId + 1, SetToSeq(Projection(Len(outbox))), Len(outbox), now))
    /\ batches' = {}
    /\ UNCHANGED <<vars, accepted_at, pages, consumer>>

\* A scan up to the end of the outbox, from the view's position or, repeating
\* what an earlier scan brought, from before it.
Since(k) == {j \in (k + 1)..Len(outbox) : Carried(j)}
InOrder(S) ==
    CHOOSE f \in [1..Cardinality(S) -> S] : \A i, j \in DOMAIN f : i < j => f[i] < f[j]
ScanBatch(k) ==
    /\ view # None /\ Cardinality(batches) < MaxBatches
    /\ batches' = batches \cup
           {[expected_version |-> view.version, from_source_checkpoint |-> view.source_checkpoint,
             to_source_checkpoint |-> Len(outbox),
             events |-> [i \in 1..Cardinality(Since(k)) |-> ChangeAt(InOrder(Since(k))[i])],
             as_of |-> now]}
    /\ UNCHANGED <<vars, accepted_at, view, pages, consumer>>
TakeBatch(b) ==
    /\ Committed(AppendChangeBatch(view, b))
    /\ UNCHANGED <<vars, accepted_at, batches, pages, consumer>>
DropBatch(b) ==
    /\ batches' = batches \ {b}
    /\ UNCHANGED <<vars, accepted_at, view, pages, consumer>>

Retain(keep) ==
    /\ view # None /\ Len(view.events) > keep
    /\ Committed(RetainChanges(view, keep))
    /\ UNCHANGED <<vars, accepted_at, batches, pages, consumer>>

-----------------------------------------------------------------------------
Send(p) ==
    /\ Cardinality(pages) < MaxPages
    /\ pages' = pages \cup {p}
    /\ UNCHANGED <<vars, accepted_at, view, batches, consumer>>
\* The application asks for the snapshot of today's view, and for the changes of
\* the view it was given.
ServeSnapshot(cursor) == view # None /\ Send(SnapshotPage(view, ViewId, cursor, now))
ServeChanges(limit) ==
    /\ view # None /\ consumer # None /\ consumer.checkpoint # None
    /\ Send(PullChanges(view, consumer.binding, consumer.checkpoint, limit, now))
Lose(p) ==
    /\ pages' = pages \ {p}
    /\ UNCHANGED <<vars, accepted_at, view, batches, consumer>>

\* The application keeps its state with what it projected, or starts afresh.
Receive(c) ==
    /\ c # None
    /\ consumer' = c
    /\ UNCHANGED <<vars, accepted_at, view, batches, pages>>
TakeSnapshotPage(p) ==
    /\ p.kind = "snapshot"
    /\ Receive(ConsumeSnapshotPage(
           IF consumer # None /\ consumer.mode = "invalidated" THEN None ELSE consumer, p))
TakeChangePage(p) ==
    /\ p.kind # "snapshot" /\ consumer # None
    /\ Receive(ConsumeChangePage(consumer, p))

FeedStep ==
    \/ OpenView
    \/ view # None /\ \E k \in 0..view.source_checkpoint : ScanBatch(k)
    \/ \E b \in batches : TakeBatch(b) \/ DropBatch(b)
    \/ \E keep \in 0..(MaxRetained - 1) : Retain(keep)
    \/ \E cursor \in 0..1 : ServeSnapshot(cursor)
    \/ \E limit \in 1..PageSize : ServeChanges(limit)
    \/ \E p \in pages : Lose(p) \/ TakeSnapshotPage(p) \/ TakeChangePage(p)
FeedNext == StoreStep \/ (scenario.views > 0 /\ FeedStep)
FeedSpec == FeedInit /\ [][FeedNext]_allvars

-----------------------------------------------------------------------------
\* The view holds what the store's outbox says up to the position it was
\* scanned to, each change once, however scans were repeated, raced or lost
\* (appendChangeBatch: continuity, version, predecessor, stable identities).
ViewFollowsStore == view # None => view.current = Projection(view.source_checkpoint)

\* A live application holds the projection of a prefix of the store's history:
\* nothing between its snapshot and its changes was lost or applied twice. When
\* it calls itself complete, that prefix is everything accepted before its
\* as_of and nothing accepted after, and it has heard of no later watermark
\* (consumeSnapshotPage, consumeChangePage).
CompleteUpTo(n) ==
    /\ consumer.as_of = consumer.current_as_of
    /\ \A k \in 1..n : Carried(k) => accepted_at[k] <= consumer.as_of
    /\ \A k \in (n + 1)..Len(outbox) : Carried(k) => accepted_at[k] >= consumer.as_of
ConsumerFollowsStore ==
    consumer # None /\ consumer.mode = "live" =>
        \E n \in 0..Len(outbox) :
            /\ consumer.items = Projection(n)
            /\ consumer.complete => CompleteUpTo(n)

\* From the outbox through view, pages and consumer nothing is lost, repeated or
\* out of order.
FeedFollowsStore == ViewFollowsStore /\ ConsumerFollowsStore
=============================================================================
