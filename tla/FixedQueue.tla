----------------------------- MODULE FixedQueue -----------------------------
(***************************************************************************)
(* The ring buffer of ai-load-balancer/utils/queue.go: a slice with a head *)
(* index, a tail index and a size.  The latency averages of the            *)
(* cluster_metrics policy and the request rate of the endpoint_metrics     *)
(* policy are computed over its contents.                                  *)
(***************************************************************************)
EXTENDS Integers, Sequences

CONSTANTS
    Capacity,   \* the argument of NewFixedQueue
    Item,       \* the values a caller enqueues
    Zero        \* the zero value of the element type

ASSUME CapacityIsInt == Capacity \in Int

VARIABLES data, head, tail, size

queueVars == <<data, head, tail, size>>

\* q.cap: a capacity that is not positive becomes 16.
Cap == IF Capacity <= 0 THEN 16 ELSE Capacity

Slots == 0 .. Cap - 1

Advance(i) == (i + 1) % Cap

NewFixedQueue ==
    /\ data = [i \in Slots |-> Zero]
    /\ head = 0
    /\ tail = 0
    /\ size = 0

\* Mutant of Enqueue: a full queue overwrites without moving its head.
EnqueueKeepsHead(x) ==
    /\ data' = [data EXCEPT ![tail] = x]
    /\ tail' = Advance(tail)
    /\ size' = IF size < Cap THEN size + 1 ELSE size
    /\ UNCHANGED head

Enqueue(x) ==
    /\ data' = [data EXCEPT ![tail] = x]
    /\ tail' = Advance(tail)
    /\ IF size < Cap THEN size' = size + 1 /\ UNCHANGED head
                     ELSE head' = Advance(head) /\ UNCHANGED size

Dequeue ==
    /\ size # 0
    /\ data' = [data EXCEPT ![head] = Zero]
    /\ head' = Advance(head)
    /\ size' = size - 1
    /\ UNCHANGED tail

\* The slot i steps behind the head, as Clear and ForEach compute it.
Index(i) == (head + i) % Cap

\* The slots that hold an element.
Used == {Index(i) : i \in 0 .. size - 1}

Clear ==
    /\ data' = [i \in Slots |-> IF i \in Used THEN Zero ELSE data[i]]
    /\ head' = 0
    /\ tail' = 0
    /\ size' = 0

\* ForEach: the elements in the order its callback sees them.
Contents == [i \in 1 .. size |-> data[Index(i - 1)]]

Newest == data[(tail - 1 + Cap) % Cap]

\* data[from:to], a Go slice expression.
Slice(from, to) == [i \in 1 .. to - from |-> data[from + i - 1]]

\* copy(result[at:], src) over a result of zero values: copy stops at the
\* shorter of the two, and the prefix already copied is kept.
Copied(prefix, src) ==
    LET all == prefix \o src
    IN  [i \in 1 .. size |-> IF i <= Len(all) THEN all[i] ELSE Zero]

ToSlice ==
    IF size = 0 THEN << >>
    ELSE IF head < tail THEN Copied(<< >>, Slice(head, tail))
    ELSE Copied(Slice(head, Cap), Slice(0, tail))

QueueInit == NewFixedQueue

QueueNext == (\E x \in Item : Enqueue(x)) \/ Dequeue \/ Clear

QueueSpec == QueueInit /\ [][QueueNext]_queueVars

-----------------------------------------------------------------------------
QueueTypeOK ==
    /\ data \in [Slots -> Item \cup {Zero}]
    /\ head \in Slots
    /\ tail \in Slots
    /\ size \in 0 .. Cap

\* head, tail and size describe the same window of the slice, across every
\* wrap-around: the next insertion goes right behind the newest element.
TailFollowsContents == tail = Advance(head + size - 1)

\* "Clear the reference to avoid a leak" (Dequeue, Clear): a slot outside the
\* window keeps nothing alive.
NoDanglingReference == \A i \in Slots \ Used : data[i] = Zero

\* ToSlice, with its three cases on head, tail and size, returns what ForEach
\* enumerates, and Newest is the last element of it.
ToSliceMatchesForEach ==
    /\ ToSlice = Contents
    /\ size > 0 => Newest = Contents[size]

Remembered == INSTANCE BoundedQueue WITH Limit <- Cap, items <- Contents

\* The ring buffer implements a queue of the last Cap samples.
ImplementsBoundedQueue == Remembered!Spec
=============================================================================
