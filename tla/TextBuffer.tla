----------------------------- MODULE TextBuffer -----------------------------
(***************************************************************************)
(* The replicated text buffer of crates/text: every replica of a shared    *)
(* file edits its own copy and sends the operation to the others, and the  *)
(* copies must become equal whatever the order, the batches and the        *)
(* repetitions in which the operations arrive.                             *)
(*                                                                         *)
(* A fragment of the code is a run of characters of one insertion that     *)
(* share their deletions; it is split where an edit starts or ends inside  *)
(* it.  Here a fragment is ONE character, so nothing is ever split; the    *)
(* sum trees, ropes, locators and patches of the code are the sequence of  *)
(* the characters and what is computed from it.  A buffer is a record of   *)
(* the fields of the code that decide its behaviour, and the methods of    *)
(* Buffer are operators from a buffer to a buffer.                         *)
(***************************************************************************)
EXTENDS Integers, FiniteSets, Sequences, FiniteSetsExt, Functions

CONSTANTS
    Replica,    \* the ReplicaIds, naturals; 0 is ReplicaId::LOCAL
    BaseLen,    \* characters in the text every replica opens
    MaxOps,     \* bound: operations made by all replicas together
    MaxInsert,  \* bound: characters one edit inserts
    MaxBatch    \* bound: operations one call of apply_ops is given

ASSUME ReplicaAssumption == Replica \subseteq Nat /\ 0 \in Replica
ASSUME BoundAssumption ==
    {BaseLen, MaxOps, MaxInsert, MaxBatch} \subseteq Nat

VARIABLES
    buf,        \* the Buffer of each replica
    ops         \* every operation made: the network may deliver each of
                \* them to any replica at any time, and again (external)

vars == <<buf, ops>>

-----------------------------------------------------------------------------
(* clock::Lamport and clock::Global.                                       *)

Stamp(value, replica) == [value |-> value, replica |-> replica]

After(a, b) ==
    a.value > b.value \/ (a.value = b.value /\ a.replica > b.replica)

Observed(version, ts) == version[ts.replica] >= ts.value

ObservedAll(version, other) == \A r \in Replica : version[r] >= other[r]

Observe(version, ts) ==
    [version EXCEPT ![ts.replica] = IF @ > ts.value THEN @ ELSE ts.value]

\* Lamport::observe: the next timestamp of this replica is after ts.
Advance(clock, ts) == (IF clock > ts.value THEN clock ELSE ts.value) + 1

-----------------------------------------------------------------------------
(* Fragments and the undo map.                                             *)

Fragment(ts, offset) ==
    [ts |-> ts, offset |-> offset, deletions |-> {}, visible |-> TRUE]

\* UndoMap: the highest count given to an edit says whether it is undone.
undo_count(undos, edit) == Max({0} \cup {u.count : u \in {w \in undos : w.edit = edit}})

is_undone(undos, edit) == undo_count(undos, edit) % 2 = 1

was_undone(undos, edit, version) ==
    is_undone({u \in undos : Observed(version, u.undo)}, edit)

is_visible(f, undos) ==
    ~is_undone(undos, f.ts) /\ \A d \in f.deletions : is_undone(undos, d)

was_visible_Fault(f, version, undos) == f.visible

\* Whether the fragment was visible to a replica that knew just `version'.
was_visible(f, version, undos) ==
    /\ Observed(version, f.ts)
    /\ ~was_undone(undos, f.ts, version)
    /\ \A d \in f.deletions :
          ~Observed(version, d) \/ was_undone(undos, d, version)

\* How many of the first i fragments satisfy a condition.
VisibleTo(frags, i) == Cardinality({j \in 1..i : frags[j].visible})

FullOffset(frags, version, i) ==
    Cardinality({j \in 1..i : Observed(version, frags[j].ts)})

Delete(frags, doomed, ts) ==
    [i \in DOMAIN frags |->
        IF i \in doomed
        THEN [frags[i] EXCEPT !.deletions = @ \cup {ts}, !.visible = FALSE]
        ELSE frags[i]]

\* push_fragments_for_insertion: n characters after the first k fragments.
Insert(frags, k, ts, n) ==
    SubSeq(frags, 1, k)
        \o [j \in 1..n |-> Fragment(ts, j - 1)]
        \o SubSeq(frags, k + 1, Len(frags))

-----------------------------------------------------------------------------
(* Local edits.  The operation carries full offsets: positions among all   *)
(* the characters, the deleted ones too, of the version it was made in.    *)

\* The fragments before the insertion: Bias::Right also passes the deleted
\* characters that stand at the start of the range.
StartOf(b, lo) == Max({i \in 0..Len(b.fragments) : VisibleTo(b.fragments, i) <= lo})

EndOf(b, lo, hi) ==
    IF lo = hi THEN StartOf(b, lo)
    ELSE Min({i \in 0..Len(b.fragments) : VisibleTo(b.fragments, i) = hi})

EditOperation(r, b, lo, hi, n) ==
    [kind |-> "edit", ts |-> Stamp(b.clock, r), version |-> b.version,
     from |-> StartOf(b, lo), to |-> EndOf(b, lo, hi), len |-> n]

\* apply_edit_internal: everything visible in the range is deleted.
apply_local_edit(b, op) ==
    LET doomed == {i \in (op.from + 1)..op.to : b.fragments[i].visible}
    IN  [b EXCEPT !.fragments = Insert(Delete(@, doomed, op.ts), op.from, op.ts, op.len)]

-----------------------------------------------------------------------------
(* Remote edits.                                                           *)

\* The fragment that ends at the start of the range, counting only the
\* characters the author of the edit knew.
ObservedStart(b, op) ==
    Min({i \in 0..Len(b.fragments) : FullOffset(b.fragments, op.version, i) = op.from})

InsertionPoint_Fault(b, op) == ObservedStart(b, op)

\* Insertions concurrent to this edit, at the same place, stay before it
\* when their timestamp is higher.
InsertionPoint(b, op) ==
    LET at == ObservedStart(b, op)
    IN  Max({k \in at..Len(b.fragments) :
               \A i \in (at + 1)..k : After(b.fragments[i].ts, op.ts)})

\* Of the range, only what the author saw is deleted: neither insertions he
\* did not know nor characters that were deleted for him already.
apply_remote_edit(b, op) ==
    LET fs == b.fragments
        doomed == {i \in DOMAIN fs :
                     /\ FullOffset(fs, op.version, i) \in (op.from + 1)..op.to
                     /\ was_visible(fs[i], op.version, b.undo_map)}
    IN  [b EXCEPT !.fragments =
            Insert(Delete(fs, doomed, op.ts), InsertionPoint(b, op), op.ts, op.len)]

-----------------------------------------------------------------------------
(* Undo: the operation gives an edit a higher count.                       *)

UndoOperation(r, b, edit) ==
    [kind |-> "undo", ts |-> Stamp(b.clock, r), version |-> b.version,
     edit |-> edit, count |-> undo_count(b.undo_map, edit) + 1]

apply_undo_Fault(b, op) ==
    LET undos == b.undo_map \cup {[edit |-> op.edit, undo |-> op.ts, count |-> op.count]}
    IN  [b EXCEPT !.undo_map = undos,
                  !.fragments = [i \in DOMAIN @ |->
                      IF @[i].ts = op.edit
                      THEN [@[i] EXCEPT !.visible = is_visible(@, undos)]
                      ELSE @[i]]]

\* Only the fragments the edit inserted or deleted are looked at again.
apply_undo(b, op) ==
    LET undos == b.undo_map \cup {[edit |-> op.edit, undo |-> op.ts, count |-> op.count]}
        Refresh(f) == [f EXCEPT !.visible = is_visible(f, undos)]
    IN  [b EXCEPT !.undo_map = undos,
                  !.fragments = [i \in DOMAIN @ |->
                      IF @[i].ts = op.edit \/ op.edit \in @[i].deletions
                      THEN Refresh(@[i]) ELSE @[i]]]

-----------------------------------------------------------------------------
(* Applying operations of other replicas.                                  *)

\* The version and the clock take in the operation.
Record(b, ts) == [b EXCEPT !.version = Observe(@, ts), !.clock = Advance(@, ts)]

\* An operation that has been applied before is ignored.
apply_op(b, op) ==
    IF Observed(b.version, op.ts) THEN b
    ELSE Record(IF op.kind = "edit" THEN apply_remote_edit(b, op)
                                    ELSE apply_undo(b, op), op.ts)

can_apply_op_Fault(b, late, op) == op.ts.replica \notin late

\* `late' is deferred_replicas: a replica with an operation set aside has
\* its later operations set aside too.
can_apply_op(b, late, op) ==
    op.ts.replica \notin late /\ ObservedAll(b.version, op.version)

Replicas(queue) == {op.ts.replica : op \in queue}

\* One round of the loops of apply_ops and flush_deferred_ops.
ApplyOrDefer(acc, op) ==
    IF can_apply_op(acc.buf, acc.late, op)
    THEN [acc EXCEPT !.buf = apply_op(@, op)]
    ELSE [acc EXCEPT !.late = @ \cup {op.ts.replica}, !.kept = @ \cup {op}]

Pass(b, late, list) ==
    LET round[n \in 0..Len(list)] ==
            IF n = 0 THEN [buf |-> b, late |-> late, kept |-> {}]
            ELSE ApplyOrDefer(round[n - 1], list[n])
    IN  round[Len(list)]

flush_deferred_ops_Fault(b) == b

\* OperationQueue: the operations in the order of their timestamps.
InOrder(queue) ==
    CHOOSE s \in [1..Cardinality(queue) -> queue] :
        \A i, j \in DOMAIN s : i < j => After(s[j].ts, s[i].ts)

\* The queue is emptied in that order; what still cannot be applied is
\* queued again.
flush_deferred_ops(b) ==
    LET end == Pass(b, {}, InOrder(b.deferred_ops))
    IN  [end.buf EXCEPT !.deferred_ops = end.kept]

apply_ops(b, batch) ==
    LET end == Pass(b, Replicas(b.deferred_ops), batch)
    IN  flush_deferred_ops([end.buf EXCEPT !.deferred_ops = @ \cup end.kept])

-----------------------------------------------------------------------------
(* The steps of the replicas.                                              *)

BaseStamp == Stamp(1, 0)

\* Buffer::new: the base text is an insertion of ReplicaId::LOCAL that every
\* replica has observed.
NewBuffer ==
    [fragments    |-> [i \in 1..BaseLen |-> Fragment(BaseStamp, i - 1)],
     version      |-> [r \in Replica |-> IF r = 0 /\ BaseLen > 0 THEN 1 ELSE 0],
     clock        |-> IF BaseLen > 0 THEN Advance(1, BaseStamp) ELSE 1,
     undo_map     |-> {},
     deferred_ops |-> {}]

Init ==
    /\ buf = [r \in Replica |-> NewBuffer]
    /\ ops = {}

\* Lamport::tick gives the operation its timestamp.
Publish(r, b, op) ==
    /\ ops' = ops \cup {op}
    /\ buf' = [buf EXCEPT ![r] =
                 [b EXCEPT !.version = Observe(@, op.ts), !.clock = @ + 1]]

\* edit, of one range of the visible text.
Edit(r) ==
    /\ Cardinality(ops) < MaxOps
    /\ LET b == buf[r] IN
       \E lo, hi \in 0..VisibleTo(b.fragments, Len(b.fragments)), n \in 0..MaxInsert :
          /\ lo <= hi
          /\ lo < hi \/ n > 0
          /\ LET op == EditOperation(r, b, lo, hi, n)
             IN  Publish(r, apply_local_edit(b, op), op)

\* undo and redo of any edit the replica knows: its own history, and the
\* transactions of others it was given with push_transaction.
UndoOrRedo(r) ==
    /\ Cardinality(ops) < MaxOps
    /\ LET b == buf[r] IN
       \E e \in {o \in ops : o.kind = "edit" /\ Observed(b.version, o.ts)} :
          LET op == UndoOperation(r, b, e.ts)
          IN  Publish(r, apply_undo(b, op), op)

Receive(r, batch) ==
    /\ buf' = [buf EXCEPT ![r] = apply_ops(@, batch)]
    /\ UNCHANGED ops

\* Any operations of others, in any order; one comes again in a later batch.
Batches(r) ==
    LET others == {op \in ops : op.ts.replica # r}
    IN  UNION {{s \in [1..n -> others] : IsInjective(s)} : n \in 1..MaxBatch}

Next ==
    \E r \in Replica :
        \/ Edit(r)
        \/ UndoOrRedo(r)
        \/ \E batch \in Batches(r) : Receive(r, batch)

Spec == Init /\ [][Next]_vars

-----------------------------------------------------------------------------
(* Properties.                                                             *)

Key(f) == <<f.ts, f.offset>>
Keys(b) == {Key(b.fragments[i]) : i \in DOMAIN b.fragments}

\* The buffers hold what their types say: every character once, undo counts
\* of known edits, and a queue of operations of other replicas that have not
\* been applied, so that a repeated delivery neither inserts text twice nor
\* fills the queue of apply_ops.
TypeOK ==
    \A r \in Replica : LET b == buf[r] IN
        /\ Cardinality(Keys(b)) = Len(b.fragments)
        /\ b.version \in [Replica -> Nat]
        /\ b.undo_map \subseteq {[edit |-> o.edit, undo |-> o.ts, count |-> o.count] :
                                   o \in {p \in ops : p.kind = "undo"}}
        /\ b.deferred_ops \subseteq {o \in ops : o.ts.replica # r /\ ~Observed(b.version, o.ts)}

\* Whatever order the operations came in, two replicas that have observed
\* the same operations hold the same characters in the same order, with the
\* same deletions and the same visible text.
Converged ==
    \A r, q \in Replica :
        r < q /\ buf[r].version = buf[q].version => buf[r].fragments = buf[q].fragments

\* Two replicas agree on the order of every two characters they both hold,
\* also while each knows operations the other does not: text never moves
\* when another operation arrives.
SameOrder(f, g) ==
    \A i, j \in DOMAIN f, k, l \in DOMAIN g :
        Key(f[i]) = Key(g[k]) /\ Key(f[j]) = Key(g[l]) => (i < j <=> k < l)

OrderAgrees ==
    \A r, q \in Replica : r < q => SameOrder(buf[r].fragments, buf[q].fragments)

\* The visible flag that edits and undos keep up to date fragment by fragment
\* is what is_visible computes from all the deletions and all the undos.
VisibleIsDerived ==
    \A r \in Replica : \A i \in DOMAIN buf[r].fragments :
        LET f == buf[r].fragments[i]
        IN  f.visible <=> is_visible(f, buf[r].undo_map)

\* A version vector remembers only the last timestamp of each replica, yet
\* what it claims is true: every operation it covers has taken effect (its
\* text is in the buffer, its deletions are marked, its count is in the undo
\* map), and so has every
\* operation its author had observed, the ones of third replicas too.
ObservedIsApplied ==
    \A r \in Replica : LET b == buf[r] IN
        \A op \in {o \in ops : Observed(b.version, o.ts)} :
            /\ ObservedAll(b.version, op.version)
            /\ op.kind = "edit" => {<<op.ts, j - 1>> : j \in 1..op.len} \subseteq Keys(b)
            /\ op.kind = "edit" /\ op.from < op.to =>
                  \E i \in DOMAIN b.fragments : op.ts \in b.fragments[i].deletions
            /\ op.kind = "undo" => \E u \in b.undo_map : u.undo = op.ts

\* The single pass of flush_deferred_ops leaves nothing behind that could be
\* applied: what is still queued waits for an operation not received yet.
DeferredNotReady ==
    \A r \in Replica : \A op \in buf[r].deferred_ops :
        ~ObservedAll(buf[r].version, op.version)
=============================================================================
