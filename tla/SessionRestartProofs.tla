------------------------ MODULE SessionRestartProofs ------------------------
(***************************************************************************)
(* What survives a restart, for any ids, addresses and bounds: the session *)
(* and the queue keep their invariants over launches, quits and crashes,   *)
(* and a quit keeps the focus queue.  The inductive invariant RestartSafe  *)
(* adds what the file and the memory of the last run have in common.       *)
(***************************************************************************)
EXTENDS SessionRestart, SessionLemmas, FiniteSetTheorems

-----------------------------------------------------------------------------
\* Every operation of FocusQueueOps leaves a queue that satisfies QueueInvariant when it
\* finds one.

\* Inserting in front (vector::insert at begin) shifts the sequence by one.
LEMMA InsertFirstProperties ==
  ASSUME NEW T, NEW seq \in Seq(T), NEW x \in T
  PROVE  /\ InsertAt(seq, 1, x) \in Seq(T)
         /\ Len(InsertAt(seq, 1, x)) = Len(seq) + 1
         /\ InsertAt(seq, 1, x)[1] = x
         /\ \A k \in 2 .. Len(seq) + 1 : InsertAt(seq, 1, x)[k] = seq[k - 1]
<1> DEFINE n     == Len(seq)
           empty == SubSeq(seq, 1, 0)
           one   == empty \o <<x>>
           rest  == SubSeq(seq, 1, n)
<1>1. InsertAt(seq, 1, x) = one \o rest
  BY DEF InsertAt
<1>2. n \in Nat
  BY LenProperties
<1>3. empty \in Seq(T) /\ Len(empty) = 0
  BY <1>2, SubSeqProperties
<1>4. rest = seq
  BY <1>2
<1>5. <<x>> \in Seq(T) /\ Len(<<x>>) = 1 /\ <<x>>[1] = x
  OBVIOUS
<1> HIDE DEF empty, rest, n
<1>6. one \in Seq(T) /\ Len(one) = 1 /\ one[1] = x
  BY <1>3, <1>5, ConcatProperties
<1> HIDE DEF one
<1>7. /\ one \o seq \in Seq(T) /\ Len(one \o seq) = 1 + Len(seq)
      /\ \A k \in 1 .. 1 + Len(seq) :
           (one \o seq)[k] = IF k <= 1 THEN one[k] ELSE seq[k - 1]
  BY <1>6, ConcatProperties
<1> DEFINE r == one \o seq
<1>8. Len(seq) \in Nat
  BY LenProperties
<1> HIDE DEF r
<1>9. /\ r \in Seq(T) /\ Len(r) = 1 + Len(seq)
      /\ \A k \in 1 .. 1 + Len(seq) : r[k] = IF k <= 1 THEN one[k] ELSE seq[k - 1]
  BY <1>7 DEF r
<1>10. Len(r) = Len(seq) + 1
  BY <1>8, <1>9
<1>11. r[1] = x
  BY <1>6, <1>8, <1>9
<1>12. \A k \in 2 .. Len(seq) + 1 : r[k] = seq[k - 1]
  BY <1>8, <1>9
<1>13. InsertAt(seq, 1, x) = r
  BY <1>1, <1>4 DEF r
<1> QED BY <1>9, <1>10, <1>11, <1>12, <1>13

\* The item an id names is in the queue.
LEMMA PlaceFacts ==
  ASSUME NEW q \in Seq(Items), NEW id \in ItemIdsOf(q)
  PROVE  Place(q, id) \in 1 .. Len(q) /\ q[Place(q, id)].id = id
BY DEF Place, ItemIdsOf

\* The types of the fields of an item.
LEMMA ItemFields ==
  ASSUME NEW q \in Seq(Items), NEW i \in DOMAIN q
  PROVE  /\ q[i] \in Items /\ q[i].id \in ItemIds /\ q[i].url \in Urls
         /\ q[i].tab \in TabIds \cup {NoTabId} /\ q[i].state \in FocusStates
<1>1. q[i] \in Items
  OBVIOUS
<1> QED BY <1>1 DEF Items

\* An item with another state, or another tab, is an item.
LEMMA ItemChanges ==
  ASSUME NEW item \in Items, NEW state \in FocusStates, NEW t \in TabIds \cup {NoTabId}
  PROVE  /\ [item EXCEPT !.state = state] \in Items
         /\ [item EXCEPT !.state = state].id = item.id
         /\ [item EXCEPT !.state = state].state = state
         /\ [item EXCEPT !.state = state].tab = item.tab
         /\ [item EXCEPT !.tab = t] \in Items
         /\ [item EXCEPT !.tab = t].id = item.id
         /\ [item EXCEPT !.tab = t].state = item.state
         /\ [item EXCEPT !.tab = t].tab = t
<1>1. item = [id |-> item.id, url |-> item.url, tab |-> item.tab, state |-> item.state]
  BY DEF Items
<1>2. /\ item.id \in ItemIds /\ item.url \in Urls
      /\ item.tab \in TabIds \cup {NoTabId} /\ item.state \in FocusStates
  BY DEF Items
<1>3. [item EXCEPT !.state = state]
        = [id |-> item.id, url |-> item.url, tab |-> item.tab, state |-> state]
  BY <1>1
<1>4. [item EXCEPT !.tab = t]
        = [id |-> item.id, url |-> item.url, tab |-> t, state |-> item.state]
  BY <1>1
<1> QED BY <1>2, <1>3, <1>4 DEF Items

\* The empty queue.
LEMMA EmptyQueue ==
  ASSUME NEW s
  PROVE  QueueInvariant(s, <<>>)
BY DEF QueueInvariant, SoundQueue, ItemsAreBound

\* An item with a new id that is not the one to do now goes to the end.
LEMMA EnqueueKeepsInvariant ==
  ASSUME NEW s, NEW q, QueueInvariant(s, q), NEW item \in Items,
         item.state # "Now", item.tab # NoTabId => IsOpen(s, item.tab)
  PROVE  QueueInvariant(s, Enqueue(q, item))
<1>1. q \in Seq(Items) /\ Len(q) \in Nat /\ DOMAIN q = 1 .. Len(q)
  BY LenProperties DEF QueueInvariant
<1>2. CASE item.id \in ItemIdsOf(q)
  BY <1>2 DEF Enqueue
<1>3. CASE item.id \notin ItemIdsOf(q)
  <2> DEFINE r == Append(q, item)
  <2>1. /\ r \in Seq(Items) /\ Len(r) = Len(q) + 1
        /\ \A k \in 1 .. Len(q) : r[k] = q[k]
        /\ r[Len(q) + 1] = item
    BY <1>1, AppendProperties
  <2>2. \A k \in 1 .. Len(q) : r[k].id # item.id
    BY <1>1, <1>3, <2>1 DEF ItemIdsOf
  <2> HIDE DEF r
  <2>3. DOMAIN r = 1 .. Len(q) + 1
    BY <2>1, LenProperties
  <2>4. SoundQueue(r)
    <3> SUFFICES ASSUME NEW i \in 1 .. Len(q) + 1, NEW j \in 1 .. Len(q) + 1
                 PROVE  /\ r[i].id = r[j].id => i = j
                        /\ r[i].state = "Now" => i = 1
      BY <2>3 DEF SoundQueue
    <3>1. i = Len(q) + 1 \/ i \in 1 .. Len(q)
      BY <1>1
    <3>2. j = Len(q) + 1 \/ j \in 1 .. Len(q)
      BY <1>1
    <3>3. ASSUME i \in 1 .. Len(q), j \in 1 .. Len(q)
          PROVE  r[i].id = r[j].id => i = j
      BY <3>3, <1>1, <2>1 DEF QueueInvariant, SoundQueue
    <3>4. i \in 1 .. Len(q) => (r[i].state = "Now" => i = 1)
      BY <1>1, <2>1 DEF QueueInvariant, SoundQueue
    <3> QED BY <3>1, <3>2, <3>3, <3>4, <2>1, <2>2
  <2>5. ItemsAreBound(s, r)
    <3> SUFFICES ASSUME NEW i \in 1 .. Len(q) + 1, r[i].tab # NoTabId
                 PROVE  IsOpen(s, r[i].tab)
      BY <2>3 DEF ItemsAreBound
    <3>1. CASE i = Len(q) + 1
      BY <3>1, <2>1
    <3>2. CASE i \in 1 .. Len(q)
      BY <3>2, <1>1, <2>1 DEF QueueInvariant, ItemsAreBound
    <3> QED BY <3>1, <3>2, <1>1
  <2>6. Enqueue(q, item) = r
    BY <1>3 DEF Enqueue, r
  <2> QED BY <2>1, <2>4, <2>5, <2>6 DEF QueueInvariant
<1> QED BY <1>2, <1>3

\* A queue without the item an id names.
LEMMA RemoveItemKeepsInvariant ==
  ASSUME NEW s, NEW q, QueueInvariant(s, q), NEW id
  PROVE  QueueInvariant(s, RemoveItem(q, id))
<1>1. q \in Seq(Items) /\ Len(q) \in Nat /\ DOMAIN q = 1 .. Len(q)
  BY LenProperties DEF QueueInvariant
<1>2. CASE id \notin ItemIdsOf(q)
  BY <1>2 DEF RemoveItem
<1>3. CASE id \in ItemIdsOf(q)
  <2> DEFINE p == Place(q, id)
             r == RemoveAt(q, p)
  <2>1. p \in 1 .. Len(q)
    BY <1>1, <1>3, PlaceFacts
  <2> HIDE DEF p
  <2>2. /\ r \in Seq(Items) /\ Len(r) = Len(q) - 1
        /\ \A k \in 1 .. Len(q) - 1 : r[k] = IF k < p THEN q[k] ELSE q[k + 1]
    BY <1>1, <2>1, RemoveAtProperties
  <2> HIDE DEF r
  <2>3. DOMAIN r = 1 .. Len(q) - 1
    BY <2>2, LenProperties
  <2> DEFINE from(k) == IF k < p THEN k ELSE k + 1
  <2>4. \A k \in 1 .. Len(q) - 1 : from(k) \in 1 .. Len(q) /\ r[k] = q[from(k)]
    BY <1>1, <2>1, <2>2
  <2>5. \A j, k \in 1 .. Len(q) - 1 : from(j) = from(k) => j = k
    BY <1>1, <2>1
  <2>6. \A k \in 1 .. Len(q) - 1 : from(k) = 1 => k = 1
    BY <1>1, <2>1
  <2> HIDE DEF from
  <2>7. SoundQueue(r)
    BY <1>1, <2>3, <2>4, <2>5, <2>6 DEF QueueInvariant, SoundQueue
  <2>8. ItemsAreBound(s, r)
    BY <1>1, <2>3, <2>4 DEF QueueInvariant, ItemsAreBound
  <2>9. RemoveItem(q, id) = r
    BY <1>3 DEF RemoveItem, r, p
  <2> QED BY <2>2, <2>7, <2>8, <2>9 DEF QueueInvariant
<1> QED BY <1>2, <1>3

\* Queues that differ only in the states and tabs of their items, none of which became
\* the one to do now or was bound to a tab that is not open.
LEMMA ChangedItemsKeepInvariant ==
  ASSUME NEW s, NEW q, QueueInvariant(s, q), NEW r \in Seq(Items), Len(r) = Len(q),
         \A i \in 1 .. Len(q) :
           /\ r[i].id = q[i].id
           /\ r[i].state = "Now" => q[i].state = "Now"
           /\ r[i].tab # NoTabId => r[i].tab = q[i].tab \/ IsOpen(s, r[i].tab)
  PROVE  QueueInvariant(s, r)
<1>1. q \in Seq(Items) /\ DOMAIN q = 1 .. Len(q) /\ DOMAIN r = 1 .. Len(q)
  BY LenProperties DEF QueueInvariant
<1>2. SoundQueue(r)
  BY <1>1 DEF QueueInvariant, SoundQueue
<1>3. ItemsAreBound(s, r)
  BY <1>1 DEF QueueInvariant, ItemsAreBound
<1> QED BY <1>2, <1>3 DEF QueueInvariant

\* A queue in which the item an id names has another state.
LEMMA SetStateKeepsInvariant ==
  ASSUME NEW s, NEW q, QueueInvariant(s, q), NEW id, NEW state \in FocusStates,
         state # "Now"
  PROVE  QueueInvariant(s, SetState(q, id, state))
<1>1. q \in Seq(Items) /\ DOMAIN q = 1 .. Len(q)
  BY LenProperties DEF QueueInvariant
<1>2. CASE id \notin ItemIdsOf(q)
  BY <1>2 DEF SetState
<1>3. CASE id \in ItemIdsOf(q)
  <2> DEFINE p == Place(q, id)
             r == [q EXCEPT ![p].state = state]
  <2>1. p \in 1 .. Len(q)
    BY <1>1, <1>3, PlaceFacts
  <2> HIDE DEF p
  <2>2. q[p] \in Items /\ [q[p] EXCEPT !.state = state] \in Items
    <3>1. q[p] \in Items /\ q[p].tab \in TabIds \cup {NoTabId}
      BY <1>1, <2>1, ItemFields
    <3> QED BY <3>1, ItemChanges
  <2>3. r \in Seq(Items) /\ Len(r) = Len(q)
    BY <1>1, <2>1, <2>2, ExceptSeq
  <2>4. \A i \in 1 .. Len(q) : r[i] = IF i = p THEN [q[i] EXCEPT !.state = state] ELSE q[i]
    BY <1>1, <2>1
  <2> HIDE DEF r
  <2>5. \A i \in 1 .. Len(q) :
          /\ r[i].id = q[i].id
          /\ r[i].state = "Now" => q[i].state = "Now"
          /\ r[i].tab = q[i].tab
    <3> SUFFICES ASSUME NEW i \in 1 .. Len(q)
                 PROVE  /\ r[i].id = q[i].id
                        /\ r[i].state = "Now" => q[i].state = "Now"
                        /\ r[i].tab = q[i].tab
      OBVIOUS
    <3>1. q[i] \in Items /\ q[i].tab \in TabIds \cup {NoTabId}
      BY <1>1, ItemFields
    <3> DEFINE other == [q[i] EXCEPT !.state = state]
    <3>2. other.id = q[i].id /\ other.state = state /\ other.tab = q[i].tab
      BY <3>1, ItemChanges
    <3>3. r[i] = other \/ r[i] = q[i]
      BY <2>4
    <3> HIDE DEF other
    <3> QED BY <3>2, <3>3
  <2>6. QueueInvariant(s, r)
    BY <2>3, <2>5, ChangedItemsKeepInvariant
  <2>7. SetState(q, id, state) = r
    BY <1>3 DEF SetState, r, p
  <2> QED BY <2>6, <2>7
<1> QED BY <1>2, <1>3

\* A queue in which the item an id names is bound to an open tab, or to none.
LEMMA SetTabIdKeepsInvariant ==
  ASSUME NEW s, NEW q, QueueInvariant(s, q), NEW id, NEW t \in TabIds \cup {NoTabId},
         t # NoTabId => IsOpen(s, t)
  PROVE  QueueInvariant(s, SetTabId(q, id, t))
<1>1. q \in Seq(Items) /\ DOMAIN q = 1 .. Len(q)
  BY LenProperties DEF QueueInvariant
<1>2. CASE id \notin ItemIdsOf(q)
  BY <1>2 DEF SetTabId
<1>3. CASE id \in ItemIdsOf(q)
  <2> DEFINE p == Place(q, id)
             r == [q EXCEPT ![p].tab = t]
  <2>1. p \in 1 .. Len(q)
    BY <1>1, <1>3, PlaceFacts
  <2> HIDE DEF p
  <2>2. q[p] \in Items /\ [q[p] EXCEPT !.tab = t] \in Items
    <3>1. q[p] \in Items /\ q[p].state \in FocusStates
      BY <1>1, <2>1, ItemFields
    <3> QED BY <3>1, ItemChanges
  <2>3. r \in Seq(Items) /\ Len(r) = Len(q)
    BY <1>1, <2>1, <2>2, ExceptSeq
  <2>4. \A i \in 1 .. Len(q) : r[i] = IF i = p THEN [q[i] EXCEPT !.tab = t] ELSE q[i]
    BY <1>1, <2>1
  <2> HIDE DEF r
  <2>5. \A i \in 1 .. Len(q) :
          /\ r[i].id = q[i].id /\ r[i].state = q[i].state
          /\ r[i].tab = q[i].tab \/ r[i].tab = t
    <3> SUFFICES ASSUME NEW i \in 1 .. Len(q)
                 PROVE  /\ r[i].id = q[i].id /\ r[i].state = q[i].state
                        /\ r[i].tab = q[i].tab \/ r[i].tab = t
      OBVIOUS
    <3>1. q[i] \in Items /\ q[i].state \in FocusStates
      BY <1>1, ItemFields
    <3> DEFINE other == [q[i] EXCEPT !.tab = t]
    <3>2. other.id = q[i].id /\ other.state = q[i].state /\ other.tab = t
      BY <3>1, ItemChanges
    <3>3. r[i] = other \/ r[i] = q[i]
      BY <2>4
    <3> HIDE DEF other
    <3> QED BY <3>2, <3>3
  <2>6. QueueInvariant(s, r)
    BY <2>3, <2>5, ChangedItemsKeepInvariant
  <2>7. SetTabId(q, id, t) = r
    BY <1>3 DEF SetTabId, r, p
  <2> QED BY <2>6, <2>7
<1> QED BY <1>2, <1>3

\* Whatever tabs closed, the items that named them name none.
LEMMA SynchronizeGivesInvariant ==
  ASSUME NEW s, NEW q \in Seq(Items), SoundQueue(q)
  PROVE  QueueInvariant(s, SynchronizeTabClosures(s, q))
<1> DEFINE r == SynchronizeTabClosures(s, q)
<1>1. DOMAIN q = 1 .. Len(q) /\ Len(q) \in Nat
  BY LenProperties
<1>2. \A i \in 1 .. Len(q) : q[i] \in Items /\ [q[i] EXCEPT !.tab = NoTabId] \in Items
  BY <1>1, ItemFields, ItemChanges
<1>3. r = [i \in 1 .. Len(q) |->
             IF q[i].tab # NoTabId /\ ~IsOpen(s, q[i].tab)
               THEN [q[i] EXCEPT !.tab = NoTabId] ELSE q[i]]
  BY <1>1 DEF SynchronizeTabClosures
<1> HIDE DEF r
<1>4. r \in Seq(Items) /\ DOMAIN r = 1 .. Len(q)
  BY <1>1, <1>2, <1>3, IsASeq
<1>5. \A i \in 1 .. Len(q) :
        /\ r[i].id = q[i].id /\ r[i].state = q[i].state
        /\ r[i].tab # NoTabId => IsOpen(s, r[i].tab)
  BY <1>1, <1>3, ItemFields, ItemChanges
<1>6. SoundQueue(r)
  BY <1>1, <1>4, <1>5 DEF SoundQueue
<1>7. ItemsAreBound(s, r)
  BY <1>4, <1>5 DEF ItemsAreBound
<1> QED BY <1>4, <1>6, <1>7 DEF QueueInvariant, r

\* A queue whose items name open tabs stays as it is.
LEMMA SynchronizeChangesNothing ==
  ASSUME NEW s, NEW q \in Seq(Items), ItemsAreBound(s, q)
  PROVE  SynchronizeTabClosures(s, q) = q
<1>1. q = [i \in DOMAIN q |-> q[i]]
  OBVIOUS
<1> QED BY <1>1 DEF SynchronizeTabClosures, ItemsAreBound

\* Promoting an item leaves it alone in its state, and first.
LEMMA PromoteKeepsInvariant ==
  ASSUME NEW s, NEW q, QueueInvariant(s, q), NEW id
  PROVE  QueueInvariant(s, PromoteToNow(q, id))
<1> DEFINE d == [i \in DOMAIN q |->
                   IF q[i].state = "Now" THEN [q[i] EXCEPT !.state = "Next"] ELSE q[i]]
<1>1. q \in Seq(Items) /\ DOMAIN q = 1 .. Len(q) /\ Len(q) \in Nat
  BY LenProperties DEF QueueInvariant
<1>2. CASE id \notin ItemIdsOf(q)
  BY <1>2 DEF PromoteToNow
<1>3. CASE id \in ItemIdsOf(q)
  <2>1. ASSUME NEW i \in 1 .. Len(q)
        PROVE  d[i] \in Items /\ d[i].id = q[i].id /\ d[i].tab = q[i].tab /\ d[i].state # "Now"
    <3>1. q[i] \in Items /\ q[i].tab \in TabIds \cup {NoTabId} /\ "Next" \in FocusStates
      BY <1>1, ItemFields DEF FocusStates
    <3> DEFINE other == [q[i] EXCEPT !.state = "Next"]
    <3>2. /\ other \in Items /\ other.id = q[i].id
          /\ other.state = "Next" /\ other.tab = q[i].tab
      BY <3>1, ItemChanges
    <3>3. d[i] = IF q[i].state = "Now" THEN other ELSE q[i]
      BY <1>1
    <3> HIDE DEF other, d
    <3> QED BY <3>1, <3>2, <3>3
  <2>2. d \in Seq(Items) /\ Len(d) = Len(q)
    <3>1. d = [i \in 1 .. Len(q) |-> d[i]]
      BY <1>1
    <3> HIDE DEF d
    <3>2. d \in [1 .. Len(q) -> Items]
      BY <2>1, <3>1
    <3> QED BY <1>1, <3>2
  <2> HIDE DEF d
  <2> DEFINE p == Place(d, id)
             m == [d EXCEPT ![p].state = "Now"]
  <2>3. id \in ItemIdsOf(d)
    <3>1. PICK i \in 1 .. Len(q) : q[i].id = id
      BY <1>1, <1>3 DEF ItemIdsOf
    <3>2. d[i].id = id /\ i \in DOMAIN d
      BY <2>1, <2>2, <3>1
    <3> QED BY <3>2 DEF ItemIdsOf
  <2>4. p \in 1 .. Len(q)
    BY <2>2, <2>3, PlaceFacts
  <2> HIDE DEF p
  <2> DEFINE now == [d[p] EXCEPT !.state = "Now"]
  <2>5. now \in Items /\ now.id = d[p].id /\ now.tab = d[p].tab
    <3>1. /\ d[p] \in Items /\ d[p].tab \in TabIds \cup {NoTabId}
          /\ "Now" \in FocusStates
      BY <2>2, <2>4, ItemFields DEF FocusStates
    <3> QED BY <3>1, ItemChanges
  <2>6. m = [d EXCEPT ![p] = now]
    BY <2>2, <2>4
  <2> HIDE DEF now, m
  <2>7. /\ m \in Seq(Items) /\ Len(m) = Len(q)
        /\ \A i \in 1 .. Len(q) : m[i] = IF i = p THEN now ELSE d[i]
    BY <2>2, <2>4, <2>5, <2>6, ExceptSeq
  <2>8. \A i \in 1 .. Len(q) :
          /\ m[i] \in Items /\ m[i].id = q[i].id /\ m[i].tab = q[i].tab
          /\ m[i].state = "Now" => i = p
    BY <2>1, <2>4, <2>5, <2>7
  <2>9. Place(m, id) = p
    <3>1. \A i, j \in 1 .. Len(q) : m[i].id = m[j].id => i = j
      BY <1>1, <2>8 DEF QueueInvariant, SoundQueue
    <3>2. m[p].id = id
      BY <2>2, <2>3, <2>4, <2>8, <2>1, PlaceFacts DEF p
    <3>3. id \in ItemIdsOf(m) /\ DOMAIN m = 1 .. Len(q)
      BY <2>4, <2>7, <3>2, LenProperties DEF ItemIdsOf
    <3>4. Place(m, id) \in 1 .. Len(q) /\ m[Place(m, id)].id = id
      BY <2>7, <3>3, PlaceFacts
    <3> QED BY <2>4, <3>1, <3>2, <3>4
  <2> DEFINE rest == RemoveAt(m, p)
             r    == InsertAt(rest, 1, m[p])
  <2>10. /\ rest \in Seq(Items) /\ Len(rest) = Len(q) - 1
         /\ \A k \in 1 .. Len(q) - 1 : rest[k] = IF k < p THEN m[k] ELSE m[k + 1]
    BY <2>4, <2>7, RemoveAtProperties
  <2> HIDE DEF rest
  <2>11. m[p] \in Items
    BY <2>4, <2>8
  <2>12. /\ r \in Seq(Items) /\ Len(r) = Len(rest) + 1 /\ r[1] = m[p]
         /\ \A k \in 2 .. Len(rest) + 1 : r[k] = rest[k - 1]
    <3>1. rest \in Seq(Items)
      BY <2>10
    <3> PICK x \in Items : x = m[p]
      BY <2>11
    <3> DEFINE y == InsertAt(rest, 1, x)
    <3>2. /\ y \in Seq(Items) /\ Len(y) = Len(rest) + 1 /\ y[1] = x
          /\ \A k \in 2 .. Len(rest) + 1 : y[k] = rest[k - 1]
      BY <3>1, InsertFirstProperties, SMTT(40), ZenonT(40)
    <3>3. r = y
      OBVIOUS
    <3> QED BY <3>2, <3>3
  <2> HIDE DEF r
  <2>13. DOMAIN r = 1 .. Len(q) /\ Len(rest) + 1 = Len(q)
    <3>1. Len(rest) + 1 = Len(q)
      BY <1>1, <2>10
    <3> QED BY <3>1, <2>12, LenProperties
  <2> DEFINE from(k) == IF k = 1 THEN p ELSE IF k - 1 < p THEN k - 1 ELSE k
  <2>14. ASSUME NEW k \in 1 .. Len(q)
         PROVE  from(k) \in 1 .. Len(q) /\ r[k] = m[from(k)]
    <3>1. CASE k = 1
      BY <3>1, <2>4, <2>12
    <3>2. CASE k # 1
      <4>1. k \in 2 .. Len(rest) + 1 /\ k - 1 \in 1 .. Len(q) - 1 /\ (k - 1) + 1 = k
        BY <1>1, <2>13, <3>2
      <4>2. r[k] = rest[k - 1]
        BY <2>12, <4>1
      <4>3. rest[k - 1] = IF k - 1 < p THEN m[k - 1] ELSE m[k]
        BY <2>10, <4>1
      <4>4. from(k) = IF k - 1 < p THEN k - 1 ELSE k
        BY <3>2
      <4>5. from(k) \in 1 .. Len(q)
        BY <4>1, <4>4, <1>1
      <4> QED BY <4>2, <4>3, <4>4, <4>5
    <3> QED BY <3>1, <3>2
  <2>15. \A j, k \in 1 .. Len(q) : from(j) = from(k) => j = k
    BY <1>1, <2>4
  <2>16. \A k \in 1 .. Len(q) : from(k) = p => k = 1
    BY <1>1, <2>4
  <2> HIDE DEF from
  <2>17. \A k \in 1 .. Len(q) :
           /\ r[k].id = q[from(k)].id /\ r[k].tab = q[from(k)].tab
           /\ r[k].state = "Now" => k = 1
    BY <2>8, <2>14, <2>16
  <2>18. SoundQueue(r)
    BY <1>1, <2>13, <2>14, <2>15, <2>17 DEF QueueInvariant, SoundQueue
  <2>19. ItemsAreBound(s, r)
    BY <1>1, <2>13, <2>14, <2>17 DEF QueueInvariant, ItemsAreBound
  <2>20. PromoteToNow(q, id) = r
    <3>1. PromoteToNow(q, id) = Move(SetState(d, id, "Now"), id, 1)
      BY <1>3 DEF PromoteToNow, d
    <3>2. SetState(d, id, "Now") = m
      BY <2>3 DEF SetState, m, p
    <3>3. Move(m, id, 1) = r
      BY <2>9 DEF Move, Item, r, rest
    <3> QED BY <3>1, <3>2, <3>3
  <2> QED BY <2>12, <2>18, <2>19, <2>20 DEF QueueInvariant
<1> QED BY <1>2, <1>3

-----------------------------------------------------------------------------
\* Which tabs are open after the calls that restoring makes.

LEMMA RaiseKeepsTabs ==
  ASSUME NEW s, SessionInvariant(s), NEW t \in Open(s)
  PROVE  Open(Raise(s, t)) = Open(s)
BY RaiseEffect

LEMMA AddTabAdds ==
  ASSUME NEW s, SessionInvariant(s), NEW t, NEW tpl, t \in TabIds
  PROVE  Open(AddTab(s, t, tpl)) = Open(s) \cup {t}
<1>1. s.tabs \in Seq(TabIds) /\ IsSession(s)
  BY SessionFields DEF SessionInvariant
<1> DEFINE r == Append(s.tabs, t)
           d == AddTab(s, t, tpl)
<1>2. d.tabs = r
  BY <1>1 DEF AddTab, IsSession
<1>3. /\ Len(r) = Len(s.tabs) + 1 /\ r \in Seq(TabIds) /\ r[Len(s.tabs) + 1] = t
      /\ \A i \in 1 .. Len(s.tabs) : r[i] = s.tabs[i]
  BY <1>1, AppendProperties
<1>4. DOMAIN r = 1 .. Len(s.tabs) + 1 /\ DOMAIN s.tabs = 1 .. Len(s.tabs) /\ Len(s.tabs) \in Nat
  BY <1>1, <1>3, LenProperties
<1> HIDE DEF r, d
<1>5. {r[i] : i \in 1 .. Len(s.tabs) + 1} = {s.tabs[i] : i \in 1 .. Len(s.tabs)} \cup {t}
  BY <1>3, <1>4
<1> QED BY <1>2, <1>4, <1>5 DEF Open, d

LEMMA OpenTabOpens ==
  ASSUME NEW s, SessionInvariant(s), NEW t \in TabIds, NEW tpl \in Templates, NEW activate
  PROVE  Open(OpenTab(s, t, tpl, activate)) = Open(s) \cup {t}
<1>1. CASE IsOpen(s, t)
  BY <1>1 DEF OpenTab, AcceptsId, IsOpen
<1>2. CASE ~IsOpen(s, t)
  <2> DEFINE d == AddTab(s, t, Normalised(tpl))
  <2>1. Normalised(tpl) \in Templates
    BY NormalisedType
  <2>2. SessionInvariant(d) /\ t \in Open(d) /\ Open(d) = Open(s) \cup {t}
    BY <1>2, <2>1, AddTabKeepsInvariant, AddTabAdds
  <2>3. OpenTab(s, t, tpl, activate) = IF s.tabs = <<>> \/ activate THEN Raise(d, t) ELSE d
    BY <1>2 DEF OpenTab, AcceptsId
  <2> HIDE DEF d
  <2>4. Open(Raise(d, t)) = Open(d)
    BY <2>2, RaiseKeepsTabs
  <2> QED BY <2>2, <2>3, <2>4
<1> QED BY <1>1, <1>2

LEMMA ActivateTabOpensNothing ==
  ASSUME NEW s, SessionInvariant(s), NEW t
  PROVE  Open(ActivateTab(s, t)) = Open(s)
<1>1. CASE ~IsOpen(s, t) \/ s.active = t
  BY <1>1 DEF ActivateTab
<1>2. CASE IsOpen(s, t) /\ s.active # t
  <2>1. PICK e : Revived(s, t) = Tell(s, e)
    <3>1. s = Tell(s, s.engine)
      BY DEF SessionInvariant, IsSession, Tell
    <3> QED BY <3>1 DEF Revived
  <2> DEFINE d == Tell(s, e)
  <2>2. SessionInvariant(d)
    BY TellKeepsInvariant
  <2>3. Open(d) = Open(s)
    BY DEF Tell, Open, SessionInvariant, IsSession
  <2>4. ActivateTab(s, t) = Raise(d, t)
    BY <1>2, <2>1 DEF ActivateTab
  <2> HIDE DEF d
  <2>5. t \in Open(d)
    BY <1>2, <2>3 DEF IsOpen
  <2> QED BY <2>2, <2>3, <2>4, <2>5, RaiseKeepsTabs
<1> QED BY <1>1, <1>2

-----------------------------------------------------------------------------
\* RestoreSession.

\* The session after the first i tabs of a snapshot, f being the sessions before.
RestoreStep(snap, f, i) ==
  IF i = 0 THEN EmptySession ELSE Reopened(f[i - 1], snap.tabs[i], RestoreTarget(snap))

\* The recursive function of RestoredTabs exists.
LEMMA RestoreExists ==
  ASSUME NEW snap, Len(snap.tabs) \in Nat
  PROVE  \E f : f = [i \in 0 .. Len(snap.tabs) |-> RestoreStep(snap, f, i)]
<1> DEFINE IsUpTo(n, g) == g = [i \in 0 .. n |-> RestoreStep(snap, g, i)]
           Bad == {n \in 0 .. Len(snap.tabs) : ~ \E g : IsUpTo(n, g)}
<1>1. SUFFICES ASSUME Bad # {} PROVE FALSE
  OBVIOUS
<1>2. PICK m \in Bad : \A y \in Bad : m <= y
  <2>1. Bad \in SUBSET Nat
    OBVIOUS
  <2> QED BY <1>1, <2>1, LeastElement
<1>3. CASE m = 0
  <2> DEFINE h == [i \in 0 .. 0 |-> EmptySession]
  <2>1. h = [i \in 0 .. 0 |-> RestoreStep(snap, h, i)]
    BY DEF RestoreStep
  <2> QED BY <1>2, <1>3, <2>1
<1>4. CASE m # 0
  <2>1. PICK g : IsUpTo(m - 1, g)
    BY <1>2, <1>4
  <2> DEFINE h == [i \in 0 .. m |-> IF i = m THEN RestoreStep(snap, g, m) ELSE g[i]]
  <2>2. m \in Nat \ {0}
    BY <1>2, <1>4
  <2>3. \A i \in 0 .. m : h[i] = RestoreStep(snap, h, i)
    <3> SUFFICES ASSUME NEW i \in 0 .. m PROVE h[i] = RestoreStep(snap, h, i)
      OBVIOUS
    <3>1. i # 0 => h[i - 1] = g[i - 1]
      BY <2>2
    <3>2. RestoreStep(snap, h, i) = RestoreStep(snap, g, i)
      BY <3>1 DEF RestoreStep
    <3>3. i # m => g[i] = RestoreStep(snap, g, i)
      BY <2>1, <2>2
    <3> QED BY <3>2, <3>3
  <2>4. h = [i \in 0 .. m |-> RestoreStep(snap, h, i)]
    BY <2>3
  <2> QED BY <1>2, <2>4
<1> QED BY <1>3, <1>4

SavedIds(tabs) == {tabs[i].id : i \in DOMAIN tabs}

\* Restoring opens the tabs of the snapshot and no other, in a sound session.
LEMMA RestoredFacts ==
  ASSUME NEW snap \in Snapshots
  PROVE  /\ SessionInvariant(RestoredTabs(snap))
         /\ Open(RestoredTabs(snap)) = SavedIds(snap.tabs)
<1> DEFINE n == Len(snap.tabs)
           f == CHOOSE g : g = [i \in 0 .. n |-> RestoreStep(snap, g, i)]
           Opened(i) == {snap.tabs[j].id : j \in 1 .. i}
<1>1. /\ snap.tabs \in Seq(SavedTabRecords) /\ n \in Nat /\ DOMAIN snap.tabs = 1 .. n
      /\ \A i \in 1 .. n :
           /\ snap.tabs[i].id \in TabIds /\ snap.tabs[i].url \in Urls
           /\ snap.tabs[i].title \in Titles
  <2>1. snap.tabs \in Seq(SavedTabRecords)
    BY DEF Snapshots
  <2>2. \A i \in 1 .. n : snap.tabs[i] \in SavedTabRecords
    BY <2>1
  <2> QED BY <2>1, <2>2, LenProperties DEF SavedTabRecords
<1>2. RestoredTabs(snap) = ActivateTab(f[n], RestoreTarget(snap))
  BY DEF RestoredTabs, RestoreStep
<1>3. f = [i \in 0 .. n |-> RestoreStep(snap, f, i)]
  BY <1>1, RestoreExists
<1> HIDE DEF f
<1> DEFINE Bad == {i \in 0 .. n : ~(SessionInvariant(f[i]) /\ Open(f[i]) = Opened(i))}
<1>4. SUFFICES ASSUME Bad # {} PROVE FALSE
  <2>1. SUFFICES ASSUME Bad = {} PROVE /\ SessionInvariant(RestoredTabs(snap))
                                       /\ Open(RestoredTabs(snap)) = SavedIds(snap.tabs)
    OBVIOUS
  <2>2. SessionInvariant(f[n]) /\ Open(f[n]) = Opened(n)
    <3>1. n \in Nat
      BY <1>1
    <3> HIDE DEF n
    <3>2. n \in 0 .. n
      BY <3>1
    <3>3. n \notin Bad
      BY <2>1
    <3> QED BY <3>2, <3>3
  <2>3. Opened(n) = SavedIds(snap.tabs)
    BY <1>1 DEF SavedIds
  <2> HIDE DEF n, Opened
  <2> QED BY <1>2, <2>2, <2>3, ActivateTabKeepsInvariant, ActivateTabOpensNothing
<1>5. PICK m \in Bad : \A y \in Bad : m <= y
  <2>1. Bad \in SUBSET Nat
    BY <1>1
  <2> QED BY <1>4, <2>1, LeastElement
<1>6. f[m] = RestoreStep(snap, f, m)
  BY <1>3, <1>5
<1>7. CASE m = 0
  <2>1. f[m] = EmptySession
    BY <1>6, <1>7 DEF RestoreStep
  <2>2. SessionInvariant(EmptySession) /\ Open(EmptySession) = {}
    BY SessionInitInvariant DEF EmptySession
  <2>3. Opened(0) = {}
    OBVIOUS
  <2> QED BY <1>5, <1>7, <2>1, <2>2, <2>3
<1>8. CASE m # 0
  <2>1. m \in 1 .. n /\ m - 1 \in 0 .. n /\ m - 1 < m
    BY <1>1, <1>5, <1>8
  <2>2. SessionInvariant(f[m - 1]) /\ Open(f[m - 1]) = Opened(m - 1)
    <3> HIDE DEF Bad
    <3>1. m - 1 \notin Bad
      BY <1>5, <2>1
    <3> USE DEF Bad
    <3> QED BY <2>1, <3>1
  <2> DEFINE rec == snap.tabs[m]
             tpl == [url |-> rec.url, title |-> rec.title, eph |-> FALSE]
             target == RestoreTarget(snap)
  <2>3. PICK s : s = f[m - 1]
    OBVIOUS
  <2>4. f[m] = OpenTab(s, rec.id, tpl, rec.id = target)
    BY <1>6, <1>8, <2>3 DEF RestoreStep, Reopened
  <2>5. rec.id \in TabIds /\ tpl \in Templates
    BY <1>1, <2>1 DEF Templates
  <2> HIDE DEF rec, tpl, target
  <2>6. SessionInvariant(f[m]) /\ Open(f[m]) = Open(s) \cup {rec.id}
    BY <2>2, <2>3, <2>4, <2>5, OpenTabKeepsInvariant, OpenTabOpens
  <2>7. Opened(m) = Opened(m - 1) \cup {rec.id}
    BY <2>1 DEF rec
  <2> QED BY <1>5, <2>2, <2>3, <2>6, <2>7
<1> QED BY <1>7, <1>8

-----------------------------------------------------------------------------
\* The inductive invariant.

\* A file or a memory that a launch can restore.
IsSound(f) == f # NoSnapshot => f \in Snapshots /\ SoundQueue(f.items)

\* Its items name saved tabs only.
KeepsBindings(f) ==
  \A i \in DOMAIN f.items : f.items[i].tab # NoTabId => f.items[i].tab \in SavedIds(f.tabs)

RestartSafe ==
  /\ SessionInvariant(session)
  /\ QueueInvariant(session, queue)
  /\ phase \in ProgramPhases /\ launches \in 0 .. MaxLaunches
  /\ IsSound(disk) /\ IsSound(left)
  /\ phase = "up" => left = NoSnapshot
  /\ left # NoSnapshot /\ left.clean => disk = left /\ KeepsBindings(left)

\* The tab in front is open.
LEMMA ActiveIsOpen ==
  ASSUME NEW s, SessionInvariant(s), s.active # NoTabId
  PROVE  s.active \in TabIds /\ IsOpen(s, s.active) /\ s.tab[s.active].url \in Urls
<1>1. s.active \in TabIds
  BY SessionFields DEF SessionInvariant
<1>2. IsOpen(s, s.active)
  BY <1>1 DEF SessionInvariant, HasOneActive
<1>3. s.tab[s.active] \in TabRecords /\ s.tab[s.active].url # NoUrl
  BY <1>2, OpenTabFacts DEF IsOpen, IsCoherent
<1>4. s.tab[s.active].url \in Urls \cup {NoUrl}
  BY <1>3 DEF TabRecords
<1> QED BY <1>1, <1>2, <1>3, <1>4

\* What is saved of a sound session and queue is sound.
LEMMA CaptureFacts ==
  ASSUME NEW s, SessionInvariant(s), NEW q, QueueInvariant(s, q), NEW clean \in BOOLEAN
  PROVE  LET f == CaptureSnapshot(s, q, clean) IN
         /\ f \in Snapshots /\ IsSound(f) /\ KeepsBindings(f)
         /\ f.clean = clean /\ f.tabs = SavedTabs(s) /\ f.items = q
<1> DEFINE f == CaptureSnapshot(s, q, clean)
<1>1. /\ s.tabs \in Seq(TabIds) /\ s.active \in TabIds \cup {NoTabId}
      /\ DOMAIN s.tabs = 1 .. Len(s.tabs) /\ Len(s.tabs) \in Nat
  BY SessionFields, LenProperties DEF SessionInvariant
<1>2. ASSUME NEW t \in Open(s) PROVE SavedTab(s, t) \in SavedTabRecords
  <2>1. t \in TabIds
    BY OpenAreIds DEF SessionInvariant
  <2>2. s.tab[t] \in TabRecords /\ s.tab[t].url # NoUrl
    BY OpenTabFacts DEF IsCoherent
  <2> QED BY <2>1, <2>2 DEF TabRecords, SavedTab, SavedTabRecords
<1>3. \A i \in 1 .. Len(s.tabs) : SavedTab(s, s.tabs[i]) \in SavedTabRecords
  BY <1>1, <1>2 DEF Open
<1>4. SavedTabs(s) \in Seq(SavedTabRecords) /\ DOMAIN SavedTabs(s) = DOMAIN s.tabs
  <2>1. SavedTabs(s) \in [1 .. Len(s.tabs) -> SavedTabRecords]
    BY <1>1, <1>3 DEF SavedTabs
  <2> QED BY <1>1, <2>1
<1>5. \A i \in DOMAIN s.tabs : SavedTabs(s)[i].id = s.tabs[i]
  BY DEF SavedTabs, SavedTab
<1>6. SavedIds(SavedTabs(s)) = Open(s)
  BY <1>4, <1>5 DEF SavedIds, Open
<1>7. f.clean = clean /\ f.tabs = SavedTabs(s) /\ f.items = q /\ f.active = s.active
  BY DEF CaptureSnapshot
<1>8. f \in Snapshots
  BY <1>1, <1>4 DEF CaptureSnapshot, Snapshots, QueueInvariant
<1>9. IsSound(f)
  BY <1>7, <1>8 DEF IsSound, QueueInvariant
<1>10. KeepsBindings(f)
  BY <1>6, <1>7 DEF KeepsBindings, QueueInvariant, ItemsAreBound, IsOpen
<1> QED BY <1>7, <1>8, <1>9, <1>10

\* A change of the session that observers are told of.
LEMMA NotifiedKeepsSafe ==
  ASSUME RestartSafe, phase = "up", NEW s, SessionInvariant(s), Notified(s)
  PROVE  RestartSafe'
<1>1. QueueInvariant(s, SynchronizeTabClosures(s, queue))
  BY SynchronizeGivesInvariant DEF RestartSafe, QueueInvariant
<1>2. session' = s /\ queue' = SynchronizeTabClosures(s, queue)
  BY DEF Notified
<1>3. disk' = disk \/ disk' = CaptureSnapshot(session', queue', FALSE)
  BY <1>2 DEF Notified
<1>4. IsSound(CaptureSnapshot(session', queue', FALSE))
  BY <1>1, <1>2, CaptureFacts
<1>5. left' = left /\ phase' = phase /\ launches' = launches /\ left = NoSnapshot
  BY DEF Notified, RestartSafe
<1> QED BY <1>1, <1>2, <1>3, <1>4, <1>5 DEF RestartSafe, IsSound

\* A change of the queue alone.
LEMMA QueueBecomesKeepsSafe ==
  ASSUME RestartSafe, NEW q, QueueInvariant(session, q), QueueBecomes(q)
  PROVE  RestartSafe'
BY DEF RestartSafe, QueueBecomes, IsSound, KeepsBindings

\* Every launch, end, call and event keeps the invariant.
LEMMA NextKeepsSafe == RestartSafe /\ [Next]_vars => RestartSafe'
<1> SUFFICES ASSUME RestartSafe, [Next]_vars PROVE RestartSafe'
  OBVIOUS
<1> DEFINE front == [url |-> NewTabUrl, title |-> "placeholder", eph |-> FALSE]
<1>0. front \in Templates
  BY UrlsAssumption DEF Templates, Titles
<1> HIDE DEF front
<1>1. ASSUME NEW wanted \in BOOLEAN, Launch(wanted) PROVE RestartSafe'
  <2>1. /\ phase' = "starting" /\ phase' \in ProgramPhases /\ launches' \in 0 .. MaxLaunches
        /\ disk' = disk /\ left' = left
    BY <1>1, MaxLaunchesAssumption DEF Launch, RestartSafe, ProgramPhases
  <2>2. SessionInvariant(session') /\ QueueInvariant(session', queue')
    <3>1. CASE wanted /\ disk # NoSnapshot /\ disk.tabs # <<>>
      <4>1. disk \in Snapshots /\ SoundQueue(disk.items) /\ disk.items \in Seq(Items)
        BY <3>1 DEF RestartSafe, IsSound, Snapshots
      <4>2. /\ session' = RestoredTabs(disk)
            /\ queue' = SynchronizeTabClosures(session', disk.items)
        BY <1>1, <3>1 DEF Launch
      <4> QED BY <4>1, <4>2, RestoredFacts, SynchronizeGivesInvariant
    <3>2. CASE ~(wanted /\ disk # NoSnapshot /\ disk.tabs # <<>>)
      <4>1. session' = OpenTab(EmptySession, InitialId, front, TRUE) /\ queue' = <<>>
        BY <1>1, <3>2 DEF Launch, front
      <4>2. SessionInvariant(EmptySession) /\ InitialId \in TabIds
        BY SessionInitInvariant, IdsAssumption DEF EmptySession
      <4> QED BY <1>0, <4>1, <4>2, OpenTabKeepsInvariant, EmptyQueue
    <3> QED BY <3>1, <3>2
  <2> QED BY <2>1, <2>2 DEF RestartSafe, IsSound, KeepsBindings
<1>2. CASE Started
  <2>1. /\ disk' = CaptureSnapshot(session, queue, FALSE) /\ left' = NoSnapshot
        /\ phase' = "up" /\ phase' \in ProgramPhases /\ UNCHANGED <<session, queue, launches>>
    BY <1>2 DEF Started, ProgramPhases
  <2>2. IsSound(CaptureSnapshot(session, queue, FALSE))
    BY CaptureFacts DEF RestartSafe
  <2> QED BY <2>1, <2>2 DEF RestartSafe, IsSound
<1>3. CASE Quit
  <2> DEFINE f == CaptureSnapshot(session, queue, TRUE)
  <2>1. /\ disk' = f /\ left' = f /\ phase' = "off" /\ phase' \in ProgramPhases
        /\ session' = EmptySession /\ queue' = <<>> /\ launches' = launches
    BY <1>3 DEF Quit, Had, CaptureSnapshot, MemoryIsLost, ProgramPhases
  <2>2. IsSound(f) /\ KeepsBindings(f)
    BY CaptureFacts DEF RestartSafe
  <2>3. SessionInvariant(EmptySession) /\ QueueInvariant(EmptySession, <<>>)
    BY SessionInitInvariant, EmptyQueue DEF EmptySession
  <2> HIDE DEF f
  <2> QED BY <2>1, <2>2, <2>3 DEF RestartSafe, IsSound, KeepsBindings
<1>4. CASE CrashWhileUp
  <2> DEFINE f == CaptureSnapshot(session, queue, FALSE)
  <2>1. /\ disk' = disk /\ left' = f /\ phase' = "crashed" /\ phase' \in ProgramPhases
        /\ session' = EmptySession /\ queue' = <<>> /\ launches' = launches
    BY <1>4 DEF CrashWhileUp, Had, CaptureSnapshot, MemoryIsLost, ProgramPhases
  <2>2. IsSound(f) /\ f.clean = FALSE
    BY CaptureFacts DEF RestartSafe
  <2>3. SessionInvariant(EmptySession) /\ QueueInvariant(EmptySession, <<>>)
    BY SessionInitInvariant, EmptyQueue DEF EmptySession
  <2> HIDE DEF f
  <2> QED BY <2>1, <2>2, <2>3 DEF RestartSafe, IsSound, KeepsBindings
<1>5. CASE CrashAtStartup
  <2>1. /\ disk' = disk /\ left' = left /\ phase' = "aborted" /\ phase' \in ProgramPhases
        /\ session' = EmptySession /\ queue' = <<>> /\ launches' = launches
    BY <1>5 DEF CrashAtStartup, MemoryIsLost, ProgramPhases
  <2>2. SessionInvariant(EmptySession) /\ QueueInvariant(EmptySession, <<>>)
    BY SessionInitInvariant, EmptyQueue DEF EmptySession
  <2> QED BY <2>1, <2>2 DEF RestartSafe, IsSound, KeepsBindings
<1>6. CASE OpenNewTab
  <2>1. PICK t \in NewIds : Notified(OpenTab(session, t, front, TRUE))
    BY <1>6 DEF OpenNewTab, front
  <2>2. SessionInvariant(OpenTab(session, t, front, TRUE))
    BY <1>0, IdsAssumption, OpenTabKeepsInvariant DEF RestartSafe
  <2> QED BY <1>6, <2>1, <2>2, NotifiedKeepsSafe DEF OpenNewTab, Up
<1>7. CASE CloseTabCall
  <2>1. PICK t : Notified(CloseTab(session, t, TRUE))
    BY <1>7 DEF CloseTabCall
  <2>2. SessionInvariant(CloseTab(session, t, TRUE))
    BY CloseTabKeepsInvariant DEF RestartSafe
  <2> QED BY <1>7, <2>1, <2>2, NotifiedKeepsSafe DEF CloseTabCall, Up
<1>8. CASE ReopenClosedTab
  <2> DEFINE s == ReopenLastClosedTab(session, "PersistentOnly")
  <2>1. SessionInvariant(s)
    BY <1>8, ReopenKeepsInvariant DEF RestartSafe, ReopenClosedTab
  <2>2. phase = "up" /\ (Notified(s) \/ (session' = s /\ s.tabs = session.tabs
                                          /\ UNCHANGED <<queue, disk, left, phase, launches>>))
    BY <1>8 DEF ReopenClosedTab, Up
  <2> HIDE DEF s
  <2>3. CASE Notified(s)
    BY <2>1, <2>2, <2>3, NotifiedKeepsSafe
  <2>4. CASE session' = s /\ s.tabs = session.tabs /\ UNCHANGED <<queue, disk, left, phase, launches>>
    <3>1. QueueInvariant(s, queue)
      BY <2>4 DEF RestartSafe, QueueInvariant, ItemsAreBound, IsOpen, Open
    <3> QED BY <2>1, <2>4, <3>1 DEF RestartSafe, IsSound, KeepsBindings
  <2> QED BY <2>2, <2>3, <2>4
<1>9. CASE ActivateTabCall
  <2>1. PICK t : Notified(ActivateTab(session, t))
    BY <1>9 DEF ActivateTabCall
  <2>2. SessionInvariant(ActivateTab(session, t))
    BY ActivateTabKeepsInvariant DEF RestartSafe
  <2> QED BY <1>9, <2>1, <2>2, NotifiedKeepsSafe DEF ActivateTabCall, Up
<1>10. CASE NavigationCommittedEvent
  <2>1. PICK t \in Open(session), url \in PageUrls : Notified(OnNavigationCommitted(session, t, url))
    BY <1>10 DEF NavigationCommittedEvent
  <2>2. url \in Urls /\ "page" \in Titles
    BY PageUrlsAssumption DEF Titles
  <2>3. SessionInvariant(OnNavigationCommitted(session, t, url))
    BY <2>2, EventKeepsInvariant DEF RestartSafe
  <2> QED BY <1>10, <2>1, <2>3, NotifiedKeepsSafe DEF NavigationCommittedEvent, Up
<1>11. CASE EnqueueActive
  <2>1. QueueBecomes(EnqueueActiveTab(session, queue))
    BY <1>11 DEF EnqueueActive
  <2>2. QueueInvariant(session, EnqueueActiveTab(session, queue))
    <3>1. CASE session.active = NoTabId \/ session.tab[session.active].eph
      BY <3>1 DEF EnqueueActiveTab, RestartSafe
    <3>2. CASE ~(session.active = NoTabId \/ session.tab[session.active].eph)
      <4> DEFINE item == ActiveItem(session, queue)
      <4>1. /\ session.active \in TabIds /\ IsOpen(session, session.active)
            /\ session.tab[session.active].url \in Urls
        BY <3>2, ActiveIsOpen DEF RestartSafe
      <4>2. item \in Items /\ item.state = "Next" /\ item.tab = session.active
        BY <1>11, <3>2, <4>1 DEF ActiveItem, Items, FocusStates, EnqueueActive
      <4>3. EnqueueActiveTab(session, queue) = Enqueue(queue, item)
        BY <3>2 DEF EnqueueActiveTab
      <4> HIDE DEF item
      <4> QED BY <4>1, <4>2, <4>3, EnqueueKeepsInvariant DEF RestartSafe
    <3> QED BY <3>1, <3>2
  <2> QED BY <2>1, <2>2, QueueBecomesKeepsSafe
<1>12. ASSUME NEW id \in ItemIdsOf(queue), ActivateItem(id) PROVE RestartSafe'
  <2> DEFINE item == Item(queue, id)
             opened == OpenFocusTab(session, item)
             q == SynchronizeTabClosures(opened, queue)
  <2>1. phase = "up" /\ left = NoSnapshot
    BY <1>12 DEF ActivateItem, Up, RestartSafe
  <2>2. CASE HasLiveTab(session, item)
    <3>1. Notified(ActivateTab(session, item.tab))
      BY <1>12, <2>2 DEF ActivateItem
    <3>2. SessionInvariant(ActivateTab(session, item.tab))
      BY ActivateTabKeepsInvariant DEF RestartSafe
    <3> QED BY <2>1, <3>1, <3>2, NotifiedKeepsSafe
  <2>3. CASE ~HasLiveTab(session, item)
    <3>1. /\ FreeTabId(session, id) \in TabIds
          /\ session' = opened
          /\ queue' = IF opened = session THEN queue ELSE SetTabId(q, id, opened.active)
          /\ disk' = IF opened = session THEN disk ELSE CaptureSnapshot(opened, q, FALSE)
          /\ UNCHANGED <<left, phase, launches>>
      BY <1>12, <2>3 DEF ActivateItem
    <3>2. SessionInvariant(opened)
      <4>1. item \in Items /\ item.id = id /\ item.url \in Urls
        BY PlaceFacts, ItemFields DEF Item, RestartSafe, QueueInvariant
      <4>2. [url |-> item.url, title |-> "page", eph |-> FALSE] \in Templates
        BY <4>1 DEF Templates, Titles
      <4> HIDE DEF item
      <4> QED BY <3>1, <4>1, <4>2, OpenTabKeepsInvariant DEF OpenFocusTab, RestartSafe
    <3>3. QueueInvariant(opened, q)
      BY SynchronizeGivesInvariant DEF RestartSafe, QueueInvariant
    <3> HIDE DEF opened, q, item
    <3>4. opened.active \in TabIds \cup {NoTabId}
      BY <3>2, SessionFields DEF SessionInvariant
    <3>5. opened.active # NoTabId => IsOpen(opened, opened.active)
      BY <3>2, ActiveIsOpen
    <3>6. QueueInvariant(opened, SetTabId(q, id, opened.active))
      BY <3>3, <3>4, <3>5, SetTabIdKeepsInvariant
    <3>7. IsSound(CaptureSnapshot(opened, q, FALSE))
      BY <3>2, <3>3, CaptureFacts
    <3>8. QueueInvariant(session', queue')
      BY <3>1, <3>6 DEF RestartSafe
    <3>9. IsSound(disk')
      BY <3>1, <3>7 DEF RestartSafe
    <3> QED BY <2>1, <3>1, <3>2, <3>8, <3>9 DEF RestartSafe, IsSound
  <2> QED BY <2>2, <2>3
<1>13. CASE ArrangeItem
  <2>1. PICK id : \/ QueueBecomes(PromoteToNow(queue, id))
                  \/ \E mark \in Marks : QueueBecomes(SetState(queue, id, mark))
                  \/ QueueBecomes(RemoveItem(queue, id))
    BY <1>13 DEF ArrangeItem
  <2>2. CASE QueueBecomes(PromoteToNow(queue, id))
    BY <2>2, PromoteKeepsInvariant, QueueBecomesKeepsSafe DEF RestartSafe
  <2>3. CASE \E mark \in Marks : QueueBecomes(SetState(queue, id, mark))
    <3>1. PICK mark \in Marks : QueueBecomes(SetState(queue, id, mark))
      BY <2>3
    <3>2. mark \in FocusStates /\ mark # "Now"
      BY MarksAssumption DEF FocusStates
    <3>3. QueueInvariant(session, SetState(queue, id, mark))
      BY <3>2, SetStateKeepsInvariant DEF RestartSafe
    <3> QED BY <3>1, <3>3, QueueBecomesKeepsSafe
  <2>4. CASE QueueBecomes(RemoveItem(queue, id))
    BY <2>4, RemoveItemKeepsInvariant, QueueBecomesKeepsSafe DEF RestartSafe
  <2> QED BY <2>1, <2>2, <2>3, <2>4
<1>14. CASE UNCHANGED vars
  BY <1>14 DEF vars, RestartSafe, IsSound, KeepsBindings
<1> QED
  BY <1>1, <1>2, <1>3, <1>4, <1>5, <1>6, <1>7, <1>8, <1>9, <1>10, <1>11, <1>12, <1>13, <1>14
     DEF Next

-----------------------------------------------------------------------------
\* The invariant holds in every reachable state.
THEOREM RestartSafety == Spec => []RestartSafe
<1>1. Init => RestartSafe
  <2> SUFFICES ASSUME Init PROVE RestartSafe
    OBVIOUS
  <2>1. SessionInvariant(EmptySession) /\ QueueInvariant(EmptySession, <<>>)
    BY SessionInitInvariant, EmptyQueue DEF EmptySession
  <2>2. 0 \in 0 .. MaxLaunches
    BY MaxLaunchesAssumption
  <2> QED BY <2>1, <2>2 DEF Init, RestartSafe, IsSound, ProgramPhases
<1>2. RestartSafe /\ [Next]_vars => RestartSafe'
  BY NextKeepsSafe
<1> QED BY <1>1, <1>2, PTL DEF Spec

\* TypeOK: what is saved can always be restored, and what is restored has its types.
THEOREM RestartTypesHold == Spec => []TypeOK
<1>1. RestartSafe => TypeOK
  BY DEF RestartSafe, SessionInvariant, QueueInvariant, IsSound, TypeOK
<1> QED BY <1>1, RestartSafety, PTL

\* QueueSound: arranging, activating and restarting never give two items one id, and the
\* item to do now is always the first one.
THEOREM QueueStaysSound == Spec => []QueueSound
<1>1. RestartSafe => QueueSound
  BY DEF RestartSafe, QueueInvariant, QueueSound
<1> QED BY <1>1, RestartSafety, PTL

\* ItemsNameOpenTabs: however tabs close and programs crash, no item names a tab that is
\* not open, which a later tab of the same id could be taken for.
THEOREM ItemsStayBound == Spec => []ItemsNameOpenTabs
<1>1. RestartSafe => ItemsNameOpenTabs
  BY DEF RestartSafe, QueueInvariant, ItemsNameOpenTabs
<1> QED BY <1>1, RestartSafety, PTL

\* RestartIsSound: the three together, as the run checks them.
THEOREM RestartStaysSound == Spec => []RestartIsSound
<1>1. TypeOK /\ QueueSound /\ ItemsNameOpenTabs => RestartIsSound
  BY DEF RestartIsSound
<1> QED BY <1>1, RestartTypesHold, QueueStaysSound, ItemsStayBound, PTL

\* QueueSurvivesQuit: a restoring launch after a quit with a tab open finds the queue as
\* it was, bindings to tabs included, even if other launches were cut short in between.
THEOREM QueueIsKept == Spec => QueueSurvivesQuit
<1>1. RestartSafe /\ [Next]_vars =>
        [left # NoSnapshot /\ left.clean /\ left.tabs # <<>> /\ Launch(TRUE)
           => queue' = left.items]_vars
  <2> SUFFICES ASSUME RestartSafe, left # NoSnapshot, left.clean, left.tabs # <<>>, Launch(TRUE)
               PROVE  queue' = left.items
    OBVIOUS
  <2>1. disk = left /\ KeepsBindings(left) /\ left \in Snapshots
    BY DEF RestartSafe, IsSound
  <2>2. session' = RestoredTabs(left) /\ queue' = SynchronizeTabClosures(session', left.items)
    BY <2>1 DEF Launch
  <2>3. Open(session') = SavedIds(left.tabs)
    BY <2>1, <2>2, RestoredFacts
  <2>4. ItemsAreBound(session', left.items)
    BY <2>1, <2>3 DEF ItemsAreBound, KeepsBindings, IsOpen
  <2>5. left.items \in Seq(Items)
    BY <2>1 DEF Snapshots
  <2> QED BY <2>2, <2>4, <2>5, SynchronizeChangesNothing
<1> QED BY <1>1, RestartSafety, PTL DEF Spec, QueueSurvivesQuit

-----------------------------------------------------------------------------
\* What a restoring launch shows again.

\* OpenTab would not take the tab for the placeholder of a legacy call site.
IsPlain(tab) == tab.url = LegacyUrl /\ tab.title = "placeholder" => NewTabUrl = LegacyUrl

\* A session that a launch can bring back as it is: a tab is in front, and all are plain.
IsPresentable(s) ==
  /\ s.tabs # <<>> => s.active # NoTabId
  /\ \A t \in Open(s) : IsPlain(s.tab[t])

\* A file that brings it back.
IsRestorable(f) ==
  /\ \A i, j \in DOMAIN f.tabs : f.tabs[i].id = f.tabs[j].id => i = j
  /\ \A i \in DOMAIN f.tabs : IsPlain(f.tabs[i])
  /\ f.tabs # <<>> => f.active \in SavedIds(f.tabs)

LEMMA NormalisedIsPlain ==
  ASSUME NEW tpl \in Templates, ~tpl.eph
  PROVE  /\ IsPlain(Normalised(tpl)) /\ ~Normalised(tpl).eph
         /\ Normalised(tpl).title = tpl.title
         /\ IsPlain(tpl) => Normalised(tpl) = tpl
<1>1. CASE ~IsLegacySyntheticNewTab(tpl)
  BY <1>1 DEF Normalised, IsLegacySyntheticNewTab, IsPlain
<1>2. CASE IsLegacySyntheticNewTab(tpl)
  <2>1. tpl = [url |-> tpl.url, title |-> tpl.title, eph |-> tpl.eph]
    BY DEF Templates
  <2>2. Normalised(tpl) = [url |-> NewTabUrl, title |-> tpl.title, eph |-> tpl.eph]
    BY <1>2, <2>1 DEF Normalised
  <2>3. IsPlain(tpl) => NewTabUrl = tpl.url
    BY <1>2 DEF IsLegacySyntheticNewTab, IsPlain
  <2> QED BY <2>1, <2>2, <2>3 DEF IsPlain
<1> QED BY <1>1, <1>2

\* Tabs that show the same page are plain together.
LEMMA SamePageIsPlain ==
  ASSUME NEW a, NEW b, SamePage(a, b), IsPlain(a)
  PROVE  IsPlain(b)
BY DEF SamePage, IsPlain

LEMMA OpenKeepsPresentable ==
  ASSUME NEW s, SessionInvariant(s), IsPresentable(s), NEW t \in TabIds,
         NEW tpl \in Templates, ~tpl.eph, NEW activate
  PROVE  IsPresentable(OpenTab(s, t, tpl, activate))
<1> DEFINE d     == OpenTab(s, t, tpl, activate)
           fresh == FreshTab(Normalised(tpl))
<1>1. CASE IsOpen(s, t)
  BY <1>1 DEF OpenTab, AcceptsId
<1>2. CASE ~IsOpen(s, t)
  <2>1. /\ Open(d) = Open(s) \cup {t}
        /\ d.active = IF s.tabs = <<>> \/ activate THEN t ELSE s.active
        /\ SamePage(fresh, d.tab[t])
        /\ \A x \in Open(s) : SamePage(s.tab[x], d.tab[x])
    BY <1>2, OpenTabEffect
  <2>2. IsPlain(fresh)
    BY NormalisedIsPlain DEF FreshTab, IsPlain
  <2> HIDE DEF d, fresh
  <2>3. \A x \in Open(d) : IsPlain(d.tab[x])
    BY <2>1, <2>2, SamePageIsPlain DEF IsPresentable
  <2>4. \/ d.active # NoTabId
        \/ d.active = s.active /\ s.tabs # <<>>
    BY <2>1, NoTabIdAssumption
  <2>5. IsPresentable(d)
    BY <2>3, <2>4 DEF IsPresentable
  <2> QED BY <2>5 DEF d
<1> QED BY <1>1, <1>2

LEMMA ActivateKeepsPresentable ==
  ASSUME NEW s, SessionInvariant(s), NEW t \in TabIds,
         \A x \in Open(s) : IsPlain(s.tab[x]), IsPresentable(s) \/ IsOpen(s, t)
  PROVE  IsPresentable(ActivateTab(s, t))
<1> DEFINE d == ActivateTab(s, t)
<1>1. /\ d.tabs = s.tabs /\ Open(d) = Open(s)
      /\ d.active = IF IsOpen(s, t) THEN t ELSE s.active
      /\ \A x \in TabIds : SamePage(s.tab[x], d.tab[x])
  BY ActivateTabEffect
<1> HIDE DEF d
<1>2. Open(s) \subseteq TabIds
  BY OpenAreIds DEF SessionInvariant
<1>3. \A x \in Open(d) : IsPlain(d.tab[x])
  BY <1>1, <1>2, SamePageIsPlain
<1>4. d.tabs # <<>> => d.active # NoTabId
  BY <1>1, NoTabIdAssumption DEF IsPresentable
<1>5. IsPresentable(d)
  BY <1>3, <1>4 DEF IsPresentable
<1> QED BY <1>5 DEF d

\* A close with a fallback leaves a tab in front, unless it was the last one.
LEMMA CloseKeepsPresentable ==
  ASSUME NEW s, SessionInvariant(s), IsPresentable(s), NEW t \in Open(s)
  PROVE  IsPresentable(CloseTab(s, t, TRUE))
<1> DEFINE gone == RemoveTab(RememberClosed(s, t), t)
           d    == CloseTab(s, t, TRUE)
<1>a. PICK fallback : fallback = TRUE
  OBVIOUS
<1> DEFINE c == CloseTab(s, t, fallback)
<1>b. /\ SessionInvariant(gone) /\ Open(gone) = Open(s) \ {t}
      /\ gone.active = IF s.active = t THEN NoTabId ELSE s.active
      /\ \A x \in TabIds \ {t} : gone.tab[x] = s.tab[x]
      /\ \/ c = gone /\ ~(s.active = t /\ fallback /\ gone.tabs # <<>>)
         \/ /\ s.active = t /\ fallback
            /\ \E y \in Open(gone) :
                 /\ c = ActivateTab(gone, y)
                 /\ gone.tab[y].life = "Discarded" =>
                      \A x \in Open(gone) : gone.tab[x].life = "Discarded"
  BY CloseTabEffect
<1>c. c = d
  BY <1>a
<1> HIDE DEF gone, d, c
<1>1. /\ SessionInvariant(gone) /\ Open(gone) = Open(s) \ {t}
      /\ gone.active = IF s.active = t THEN NoTabId ELSE s.active
      /\ \A x \in TabIds \ {t} : gone.tab[x] = s.tab[x]
      /\ \/ d = gone /\ ~(s.active = t /\ gone.tabs # <<>>)
         \/ \E y \in Open(gone) : d = ActivateTab(gone, y)
  BY <1>a, <1>b, <1>c
<1>2. Open(s) \subseteq TabIds /\ Open(gone) \subseteq TabIds
  BY <1>1, OpenAreIds DEF SessionInvariant
<1>3. \A x \in Open(gone) : IsPlain(gone.tab[x])
  BY <1>1, <1>2 DEF IsPresentable
<1>4. s.tabs # <<>>
  BY DEF Open
<1>5. CASE d = gone /\ ~(s.active = t /\ gone.tabs # <<>>)
  BY <1>1, <1>3, <1>4, <1>5 DEF IsPresentable, d
<1>6. CASE \E y \in Open(gone) : d = ActivateTab(gone, y)
  <2>1. PICK y \in Open(gone) : d = ActivateTab(gone, y)
    BY <1>6
  <2>2. IsPresentable(ActivateTab(gone, y))
    BY <1>1, <1>2, <1>3, ActivateKeepsPresentable DEF IsOpen
  <2> QED BY <2>1, <2>2 DEF d
<1> QED BY <1>1, <1>5, <1>6

\* A refused reopening changes nothing that is shown.
LEMMA ReopenKeepsPresentable ==
  ASSUME NEW s, SessionInvariant(s), IsPresentable(s), s.restored + 1 \in DOMAIN RestoredId
  PROVE  LET d == ReopenLastClosedTab(s, "PersistentOnly") IN
         /\ IsPresentable(d)
         /\ d.tabs = s.tabs => SavedTabs(d) = SavedTabs(s) /\ d.active = s.active
<1> DEFINE k  == NewestReopenable(s, "PersistentOnly")
           id == RestoredId[s.restored + 1]
           u  == Unlisted(s, k)
           d  == ReopenLastClosedTab(s, "PersistentOnly")
<1>1. CASE Reopenable(s, "PersistentOnly") = {}
  BY <1>1 DEF ReopenLastClosedTab
<1>2. CASE Reopenable(s, "PersistentOnly") # {}
  <2>1. /\ k \in Reopenable(s, "PersistentOnly") /\ k \in 1 .. Len(s.closed)
    BY <1>2, NewestReopenableEffect
  <2>2. d = OpenTab(u, id, s.closed[k], TRUE) /\ id \in TabIds /\ s.closed[k] \in Templates
    BY <1>2, ReopenCases DEF Memorable
  <2>3. ~s.closed[k].eph
    BY <2>1 DEF Reopenable
  <2> DEFINE rec == s.closed[k]
  <2>4. PICK tpl \in Templates : tpl = rec
    BY <2>2
  <2> HIDE DEF k, id
  <2>5. SessionInvariant(u) /\ u.tabs = s.tabs /\ u.tab = s.tab /\ u.active = s.active
        /\ Open(u) = Open(s)
    BY <2>1, UnlistedEffect
  <2> HIDE DEF u, rec
  <2>6. IsPresentable(u)
    BY <2>5 DEF IsPresentable
  <2>7. d = OpenTab(u, id, tpl, TRUE) /\ ~tpl.eph
    BY <2>2, <2>3, <2>4 DEF rec
  <2> HIDE DEF d
  <2>8. IsPresentable(d)
    BY <2>2, <2>5, <2>6, <2>7, OpenKeepsPresentable
  <2>9. d.tabs = s.tabs => SavedTabs(d) = SavedTabs(s) /\ d.active = s.active
    <3>1. CASE IsOpen(u, id)
      <4>1. d = u
        BY <2>7, <3>1 DEF OpenTab, AcceptsId
      <4> QED BY <2>5, <4>1 DEF SavedTabs, SavedTab
    <3>2. CASE ~IsOpen(u, id)
      <4> DEFINE e == OpenTab(u, id, tpl, TRUE)
      <4>1. e.tabs = Append(u.tabs, id)
        BY <2>2, <2>5, <3>2, OpenTabEffect
      <4>2. s.tabs \in Seq(TabIds)
        BY SessionFields DEF SessionInvariant
      <4>3. Len(Append(s.tabs, id)) = Len(s.tabs) + 1 /\ Len(s.tabs) \in Nat
        BY <2>2, <4>2, AppendProperties, LenProperties
      <4>4. d.tabs = Append(s.tabs, id)
        BY <2>5, <2>7, <4>1
      <4> HIDE DEF e
      <4>5. d.tabs # s.tabs
        BY <4>3, <4>4
      <4> QED BY <4>5
    <3> QED BY <3>1, <3>2
  <2> QED BY <2>8, <2>9 DEF d
<1> QED BY <1>1, <1>2

\* A committed navigation keeps a tab plain if its address is not the legacy one.
LEMMA CommitKeepsPresentable ==
  ASSUME NEW s, SessionInvariant(s), IsPresentable(s), NEW t \in Open(s),
         NEW url \in Urls, url # LegacyUrl
  PROVE  IsPresentable(OnNavigationCommitted(s, t, url))
<1> DEFINE d == OnNavigationCommitted(s, t, url)
<1>1. CASE ~Alive(s, t)
  BY <1>1 DEF OnNavigationCommitted
<1>2. CASE Alive(s, t)
  <2>0. "page" \in Titles /\ Open(s) \subseteq TabIds
    BY OpenAreIds DEF Titles, SessionInvariant
  <2>1. /\ s.tab[t] \in TabRecords /\ d = WithTab(s, t, CommittedTab(s.tab[t], url))
    BY <1>2, OpenTabFacts DEF OnNavigationCommitted
  <2>2. CommittedTab(s.tab[t], url).url = url
    BY <2>1 DEF CommittedTab, TabRecords
  <2>3. CommittedTab(s.tab[t], url) \in TabRecords
    BY <2>1, UrlsAssumption DEF CommittedTab, TabRecords, NavStates
  <2> DEFINE rec == CommittedTab(s.tab[t], url)
  <2>4. rec.url = url /\ rec \in TabRecords
    BY <2>2, <2>3
  <2> HIDE DEF rec
  <2>5. CallOnTab(s, WithTab(s, t, rec), t, rec, s.engine)
    BY <2>4, WriteTabEffect
  <2>6. d = WithTab(s, t, rec)
    BY <2>1 DEF rec
  <2> HIDE DEF d
  <2>7. \A x \in Open(d) : IsPlain(d.tab[x])
    BY <2>0, <2>4, <2>5, <2>6 DEF CallOnTab, IsPlain, IsPresentable
  <2>8. IsPresentable(d)
    BY <2>5, <2>6, <2>7 DEF CallOnTab, IsPresentable
  <2> QED BY <2>8 DEF d
<1> QED BY <1>1, <1>2

\* What is saved of a presentable session is restorable.
LEMMA CaptureIsRestorable ==
  ASSUME NEW s, SessionInvariant(s), IsPresentable(s), NEW q, NEW clean
  PROVE  IsRestorable(CaptureSnapshot(s, q, clean))
<1> DEFINE f == CaptureSnapshot(s, q, clean)
<1>1. f.tabs = SavedTabs(s) /\ f.active = s.active
  BY DEF CaptureSnapshot
<1> HIDE DEF f
<1>2. /\ DOMAIN f.tabs = DOMAIN s.tabs
      /\ \A i \in DOMAIN s.tabs :
           /\ f.tabs[i].id = s.tabs[i] /\ s.tabs[i] \in Open(s)
           /\ f.tabs[i].url = s.tab[s.tabs[i]].url /\ f.tabs[i].title = s.tab[s.tabs[i]].title
  <2>1. f.tabs = [i \in DOMAIN s.tabs |-> SavedTab(s, s.tabs[i])]
    BY <1>1 DEF SavedTabs
  <2>2. \A i \in DOMAIN s.tabs : f.tabs[i] = SavedTab(s, s.tabs[i])
    BY <2>1
  <2>3. \A i \in DOMAIN s.tabs : s.tabs[i] \in Open(s)
    BY DEF Open
  <2>4. \A x : /\ SavedTab(s, x).id = x /\ SavedTab(s, x).url = s.tab[x].url
              /\ SavedTab(s, x).title = s.tab[x].title
    BY DEF SavedTab
  <2> QED BY <2>1, <2>2, <2>3, <2>4
<1>3. \A i, j \in DOMAIN f.tabs : f.tabs[i].id = f.tabs[j].id => i = j
  BY <1>2 DEF SessionInvariant, HasUniqueIds
<1>4. \A i \in DOMAIN f.tabs : IsPlain(f.tabs[i])
  BY <1>2 DEF IsPresentable, IsPlain
<1>5. f.tabs # <<>> => f.active \in SavedIds(f.tabs)
  <2> SUFFICES ASSUME f.tabs # <<>> PROVE f.active \in SavedIds(f.tabs)
    OBVIOUS
  <2>1. s.tabs # <<>>
    BY <1>1 DEF SavedTabs
  <2>2. s.active \in Open(s)
    BY <2>1, ActiveIsOpen DEF IsPresentable, IsOpen
  <2> QED BY <1>1, <1>2, <2>2 DEF SavedIds, Open
<1>6. IsRestorable(f)
  BY <1>3, <1>4, <1>5 DEF IsRestorable
<1> QED BY <1>6 DEF f

\* The session shows the first i tabs of the snapshot, as they were saved.
ShowsFirst(s, snap, i) ==
  /\ Len(s.tabs) = i
  /\ \A j \in 1 .. i : SavedTab(s, s.tabs[j]) = snap.tabs[j]

LEMMA ShownIds ==
  ASSUME NEW s, NEW snap, NEW i, ShowsFirst(s, snap, i)
  PROVE  \A j \in 1 .. i : s.tabs[j] = snap.tabs[j].id
<1>1. \A x : SavedTab(s, x).id = x
  BY DEF SavedTab
<1>2. \A j \in 1 .. i : SavedTab(s, s.tabs[j]) = snap.tabs[j]
  BY DEF ShowsFirst
<1> QED BY <1>1, <1>2

\* Opening the next tab of the snapshot.
LEMMA NextTabIsShown ==
  ASSUME NEW snap \in Snapshots, IsRestorable(snap), NEW i \in 1 .. Len(snap.tabs),
         NEW s, SessionInvariant(s), IsPresentable(s), ShowsFirst(s, snap, i - 1), NEW target
  PROVE  LET d == Reopened(s, snap.tabs[i], target) IN
         SessionInvariant(d) /\ IsPresentable(d) /\ ShowsFirst(d, snap, i)
<1> DEFINE rec == snap.tabs[i]
           tpl == [url |-> rec.url, title |-> rec.title, eph |-> FALSE]
           d   == OpenTab(s, rec.id, tpl, rec.id = target)
<1>1. /\ snap.tabs \in Seq(SavedTabRecords) /\ DOMAIN snap.tabs = 1 .. Len(snap.tabs)
      /\ Len(snap.tabs) \in Nat
  BY LenProperties DEF Snapshots
<1>2. rec \in SavedTabRecords /\ IsPlain(rec)
  BY <1>1 DEF IsRestorable
<1>3. /\ rec = [id |-> rec.id, url |-> rec.url, title |-> rec.title]
      /\ rec.id \in TabIds /\ tpl \in Templates /\ IsPlain(tpl)
  BY <1>2 DEF SavedTabRecords, Templates, IsPlain
<1>4. /\ s.tabs \in Seq(TabIds) /\ DOMAIN s.tabs = 1 .. i - 1 /\ Len(s.tabs) = i - 1
      /\ Open(s) \subseteq TabIds
  BY SessionFields, LenProperties, OpenAreIds DEF SessionInvariant, ShowsFirst
<1>5. \A j \in 1 .. i - 1 : s.tabs[j] = snap.tabs[j].id
  BY ShownIds
<1>6. ~IsOpen(s, rec.id)
  <2>1. \A j \in 1 .. i - 1 : snap.tabs[j].id # snap.tabs[i].id
    BY <1>1 DEF IsRestorable
  <2> QED BY <1>4, <1>5, <2>1 DEF IsOpen, Open
<1> DEFINE fresh == FreshTab(Normalised(tpl))
<1>7. ~tpl.eph /\ tpl.url = rec.url /\ tpl.title = rec.title
  OBVIOUS
<1> DEFINE front == rec.id = target
<1>8. d = OpenTab(s, rec.id, tpl, front)
  OBVIOUS
<1> HIDE DEF rec, tpl, front
<1>9. fresh.url = rec.url /\ fresh.title = rec.title
  BY <1>3, <1>7, NormalisedIsPlain DEF FreshTab
<1>10. /\ d.tabs = Append(s.tabs, rec.id)
       /\ SamePage(fresh, d.tab[rec.id])
       /\ \A x \in Open(s) : SamePage(s.tab[x], d.tab[x])
  BY <1>3, <1>6, OpenTabEffect
<1>11. SessionInvariant(d) /\ IsPresentable(d)
  BY <1>3, <1>7, OpenTabKeepsInvariant, OpenKeepsPresentable
<1> HIDE DEF d, fresh
<1>12. /\ Len(d.tabs) = i /\ d.tabs[i] = rec.id
       /\ \A j \in 1 .. i - 1 : d.tabs[j] = s.tabs[j]
  BY <1>3, <1>4, <1>10, AppendProperties
<1>13. SavedTab(d, rec.id) = rec
  BY <1>3, <1>9, <1>10 DEF SavedTab, SamePage
<1>14. ASSUME NEW j \in 1 .. i - 1 PROVE SavedTab(d, d.tabs[j]) = snap.tabs[j]
  <2>1. s.tabs[j] \in Open(s) /\ d.tabs[j] = s.tabs[j]
    BY <1>4, <1>12 DEF Open
  <2>2. SamePage(s.tab[s.tabs[j]], d.tab[s.tabs[j]])
    BY <1>10, <2>1
  <2>3. SavedTab(d, s.tabs[j]) = SavedTab(s, s.tabs[j])
    BY <2>2 DEF SavedTab, SamePage
  <2>4. SavedTab(s, s.tabs[j]) = snap.tabs[j]
    BY DEF ShowsFirst
  <2> QED BY <2>1, <2>3, <2>4
<1>15. \A j \in 1 .. i : j = i \/ j \in 1 .. i - 1
  BY <1>1
<1>16. ShowsFirst(d, snap, i)
  BY <1>12, <1>13, <1>14, <1>15 DEF ShowsFirst, rec
<1> QED BY <1>8, <1>11, <1>16 DEF d, rec, tpl, front, Reopened

\* Restoring a restorable snapshot shows it: its tabs, in their order, with their
\* addresses and titles, and the same one in front.
LEMMA RestoreShowsSnapshot ==
  ASSUME NEW snap \in Snapshots, IsRestorable(snap), snap.tabs # <<>>
  PROVE  LET d == RestoredTabs(snap) IN
         IsPresentable(d) /\ SavedTabs(d) = snap.tabs /\ d.active = snap.active
<1> DEFINE n == Len(snap.tabs)
           f == CHOOSE g : g = [i \in 0 .. n |-> RestoreStep(snap, g, i)]
           target == RestoreTarget(snap)
           IsGood(s, i) == SessionInvariant(s) /\ IsPresentable(s) /\ ShowsFirst(s, snap, i)
<1>1. /\ snap.tabs \in Seq(SavedTabRecords) /\ n \in Nat /\ DOMAIN snap.tabs = 1 .. n
  BY LenProperties DEF Snapshots
<1>2. RestoredTabs(snap) = ActivateTab(f[n], target)
  BY DEF RestoredTabs, RestoreStep
<1>3. f = [i \in 0 .. n |-> RestoreStep(snap, f, i)]
  BY <1>1, RestoreExists
<1> HIDE DEF f
<1>4. target = snap.active /\ snap.active \in SavedIds(snap.tabs)
  BY <1>1 DEF IsRestorable, RestoreTarget, SavedIds
<1> HIDE DEF target
<1> DEFINE Bad == {i \in 0 .. n : ~IsGood(f[i], i)}
<1>5. Bad = {}
  <2> SUFFICES ASSUME Bad # {} PROVE FALSE
    OBVIOUS
  <2>1. PICK m \in Bad : \A y \in Bad : m <= y
    <3>1. Bad \in SUBSET Nat
      BY <1>1
    <3> QED BY <3>1, LeastElement
  <2>2. f[m] = RestoreStep(snap, f, m)
    BY <1>3, <2>1
  <2>3. CASE m = 0
    <3>1. f[m] = EmptySession
      BY <2>2, <2>3 DEF RestoreStep
    <3>2. SessionInvariant(EmptySession) /\ Open(EmptySession) = {}
      BY SessionInitInvariant DEF EmptySession
    <3>3. EmptySession.tabs = <<>>
      BY DEF EmptySession, SessionInit
    <3>4. IsPresentable(EmptySession) /\ ShowsFirst(EmptySession, snap, 0)
      BY <3>2, <3>3 DEF IsPresentable, ShowsFirst
    <3> QED BY <2>1, <2>3, <3>1, <3>2, <3>4
  <2>4. CASE m # 0
    <3>1. m \in 1 .. n /\ m - 1 \in 0 .. n /\ m - 1 < m
      BY <1>1, <2>1, <2>4
    <3>2. IsGood(f[m - 1], m - 1)
      <4> HIDE DEF Bad, IsGood
      <4>1. m - 1 \notin Bad
        BY <2>1, <3>1
      <4> USE DEF Bad
      <4> QED BY <3>1, <4>1
    <3>3. PICK s : s = f[m - 1]
      OBVIOUS
    <3>4. f[m] = Reopened(s, snap.tabs[m], target)
      BY <2>2, <2>4, <3>3 DEF RestoreStep, target
    <3> DEFINE d == Reopened(s, snap.tabs[m], target)
    <3>5. SessionInvariant(s) /\ IsPresentable(s) /\ ShowsFirst(s, snap, m - 1)
      BY <3>2, <3>3
    <3>6. SessionInvariant(d) /\ IsPresentable(d) /\ ShowsFirst(d, snap, m)
      BY <3>1, <3>5, NextTabIsShown
    <3> HIDE DEF d
    <3>7. f[m] = d
      BY <3>4 DEF d
    <3> QED BY <2>1, <3>6, <3>7
  <2> QED BY <2>3, <2>4
<1>6. PICK s : s = f[n]
  OBVIOUS
<1>7. SessionInvariant(s) /\ IsPresentable(s) /\ ShowsFirst(s, snap, n)
  BY <1>1, <1>5, <1>6
<1>8. /\ s.tabs \in Seq(TabIds) /\ DOMAIN s.tabs = 1 .. n /\ Open(s) \subseteq TabIds
  BY <1>7, SessionFields, LenProperties, OpenAreIds DEF SessionInvariant, ShowsFirst
<1> DEFINE d == ActivateTab(s, target)
<1>9. IsOpen(s, target)
  <2>1. PICK i \in 1 .. n : snap.tabs[i].id = target
    BY <1>1, <1>4 DEF SavedIds
  <2>2. s.tabs[i] = target
    BY <1>7, <2>1, ShownIds
  <2> QED BY <1>8, <2>2 DEF IsOpen, Open
<1>10. /\ d.tabs = s.tabs /\ d.active = IF IsOpen(s, target) THEN target ELSE s.active
       /\ \A x \in TabIds : SamePage(s.tab[x], d.tab[x])
  BY <1>7, ActivateTabEffect
<1>11. IsPresentable(d)
  BY <1>7, <1>8, <1>9, ActivateKeepsPresentable DEF IsPresentable, IsOpen
<1> HIDE DEF d, n
<1>12. SavedTabs(d) = snap.tabs
  <2>1. ASSUME NEW i \in 1 .. n PROVE SavedTab(d, d.tabs[i]) = snap.tabs[i]
    <3>1. s.tabs[i] \in TabIds /\ d.tabs[i] = s.tabs[i]
      BY <1>8, <1>10 DEF Open
    <3>2. SavedTab(d, s.tabs[i]) = SavedTab(s, s.tabs[i])
      BY <1>10, <3>1 DEF SavedTab, SamePage
    <3> QED BY <1>7, <3>1, <3>2 DEF ShowsFirst
  <2>2. SavedTabs(d) = [i \in 1 .. n |-> snap.tabs[i]]
    BY <1>8, <1>10, <2>1 DEF SavedTabs
  <2>3. snap.tabs = [i \in 1 .. n |-> snap.tabs[i]]
    BY <1>1
  <2> QED BY <2>2, <2>3
<1>13. d.active = snap.active
  BY <1>4, <1>9, <1>10
<1>14. RestoredTabs(snap) = d
  BY <1>2, <1>6 DEF d
<1> QED BY <1>11, <1>12, <1>13, <1>14

-----------------------------------------------------------------------------
\* The invariant that makes restarts faithful: what is on the disk is the session, while
\* it is in use and has a tab, and what the last run had, until the next one saves.

ShowsSession(f, s) == f # NoSnapshot /\ f.tabs = SavedTabs(s) /\ f.active = s.active

RestartFaithful ==
  /\ IsPresentable(session)
  /\ disk # NoSnapshot => IsRestorable(disk)
  /\ phase = "up" /\ session.tabs # <<>> => ShowsSession(disk, session)
  /\ left # NoSnapshot /\ left.tabs # <<>> =>
       disk # NoSnapshot /\ disk.tabs = left.tabs /\ disk.active = left.active

\* No page of the shell has the address of the legacy placeholder: a tab that kept the
\* title of a new tab while it shows that address would come back as a new tab.
NoLegacyPages == LegacyUrl \notin PageUrls

LEMMA CaptureShows ==
  ASSUME NEW s, SessionInvariant(s), NEW q, QueueInvariant(s, q), NEW clean \in BOOLEAN
  PROVE  ShowsSession(CaptureSnapshot(s, q, clean), s)
BY CaptureFacts, NoSnapshotAssumption DEF CaptureSnapshot, ShowsSession

LEMMA NotifiedKeepsFaithful ==
  ASSUME RestartSafe, RestartFaithful, phase = "up", NEW s, SessionInvariant(s),
         IsPresentable(s), Notified(s)
  PROVE  RestartFaithful'
<1> DEFINE q == SynchronizeTabClosures(s, queue)
           f == CaptureSnapshot(s, q, FALSE)
<1>1. QueueInvariant(s, q)
  BY SynchronizeGivesInvariant DEF RestartSafe, QueueInvariant
<1>2. /\ session' = s /\ left' = left /\ left = NoSnapshot
      /\ disk' = IF s.active = NoTabId THEN disk ELSE f
  BY DEF Notified, RestartSafe
<1>3. IsRestorable(f) /\ ShowsSession(f, s)
  BY <1>1, CaptureIsRestorable, CaptureShows
<1> HIDE DEF f
<1> QED BY <1>2, <1>3 DEF RestartFaithful, IsPresentable

\* Launches and ends of the program.
LEMMA EndsKeepFaithful ==
  ASSUME RestartSafe, RestartFaithful,
         \/ \E wanted \in BOOLEAN : Launch(wanted)
         \/ Started \/ Quit \/ CrashWhileUp \/ CrashAtStartup
  PROVE  RestartFaithful'
<1> DEFINE front == [url |-> NewTabUrl, title |-> "placeholder", eph |-> FALSE]
<1>0. SessionInvariant(EmptySession) /\ IsPresentable(EmptySession)
  <2>1. EmptySession.tabs = <<>>
    BY DEF EmptySession, SessionInit
  <2> QED BY <2>1, SessionInitInvariant DEF EmptySession, IsPresentable
<1>1. ASSUME NEW wanted \in BOOLEAN, Launch(wanted) PROVE RestartFaithful'
  <2>1. disk' = disk /\ left' = left /\ phase' # "up"
    BY <1>1 DEF Launch
  <2>2. CASE wanted /\ disk # NoSnapshot /\ disk.tabs # <<>>
    <3>1. session' = RestoredTabs(disk) /\ disk \in Snapshots
      BY <1>1, <2>2 DEF Launch, RestartSafe, IsSound
    <3>2. IsPresentable(session')
      BY <2>2, <3>1, RestoreShowsSnapshot DEF RestartFaithful
    <3> QED BY <2>1, <3>2 DEF RestartFaithful
  <2>3. CASE ~(wanted /\ disk # NoSnapshot /\ disk.tabs # <<>>)
    <3>1. session' = OpenTab(EmptySession, InitialId, front, TRUE)
      BY <1>1, <2>3 DEF Launch
    <3>2. front \in Templates /\ ~front.eph /\ InitialId \in TabIds
      BY UrlsAssumption, IdsAssumption DEF Templates, Titles
    <3> HIDE DEF front
    <3>3. IsPresentable(session')
      BY <1>0, <3>1, <3>2, OpenKeepsPresentable
    <3> QED BY <2>1, <3>3 DEF RestartFaithful
  <2> QED BY <2>2, <2>3
<1>2. CASE Started
  <2>1. /\ disk' = CaptureSnapshot(session, queue, FALSE) /\ left' = NoSnapshot
        /\ session' = session
    BY <1>2 DEF Started
  <2>2. /\ IsRestorable(CaptureSnapshot(session, queue, FALSE))
        /\ ShowsSession(CaptureSnapshot(session, queue, FALSE), session)
    BY CaptureIsRestorable, CaptureShows DEF RestartSafe, RestartFaithful
  <2> QED BY <2>1, <2>2 DEF RestartFaithful
<1>3. CASE Quit
  <2> DEFINE f == CaptureSnapshot(session, queue, TRUE)
  <2>1. disk' = f /\ left' = f /\ session' = EmptySession /\ phase' # "up"
    BY <1>3 DEF Quit, Had, CaptureSnapshot, MemoryIsLost
  <2>2. IsRestorable(f) /\ ShowsSession(f, session)
    BY CaptureIsRestorable, CaptureShows DEF RestartSafe, RestartFaithful
  <2> HIDE DEF f
  <2> QED BY <1>0, <2>1, <2>2 DEF RestartFaithful
<1>4. CASE CrashWhileUp
  <2>1. /\ disk' = disk /\ session' = EmptySession /\ phase' # "up" /\ phase = "up"
        /\ left'.tabs = SavedTabs(session) /\ left'.active = session.active
    BY <1>4 DEF CrashWhileUp, Had, MemoryIsLost
  <2>2. SavedTabs(session) # <<>> => session.tabs # <<>>
    BY DEF SavedTabs
  <2> QED BY <1>0, <2>1, <2>2 DEF RestartFaithful, ShowsSession
<1>5. CASE CrashAtStartup
  BY <1>0, <1>5 DEF CrashAtStartup, MemoryIsLost, RestartFaithful
<1> QED BY <1>1, <1>2, <1>3, <1>4, <1>5

\* Every step keeps the invariant.
LEMMA NextKeepsFaithful ==
  ASSUME NoLegacyPages, RestartSafe, RestartFaithful, [Next]_vars
  PROVE  RestartFaithful'
<1> DEFINE front == [url |-> NewTabUrl, title |-> "placeholder", eph |-> FALSE]
<1>0. front \in Templates /\ ~front.eph /\ SessionInvariant(session) /\ IsPresentable(session)
  BY UrlsAssumption DEF Templates, Titles, RestartSafe, RestartFaithful
<1> HIDE DEF front
<1>1. CASE \/ \E wanted \in BOOLEAN : Launch(wanted)
           \/ Started \/ Quit \/ CrashWhileUp \/ CrashAtStartup
  BY <1>1, EndsKeepFaithful
<1>2. CASE OpenNewTab
  <2>1. PICK t \in NewIds : phase = "up" /\ Notified(OpenTab(session, t, front, TRUE))
    BY <1>2 DEF OpenNewTab, Up, front
  <2>2. t \in TabIds
    BY IdsAssumption
  <2> DEFINE s == OpenTab(session, t, front, TRUE)
  <2>3. SessionInvariant(s) /\ IsPresentable(s)
    BY <1>0, <2>2, OpenTabKeepsInvariant, OpenKeepsPresentable
  <2> HIDE DEF s
  <2>4. Notified(s)
    BY <2>1 DEF s
  <2> QED BY <2>1, <2>3, <2>4, NotifiedKeepsFaithful
<1>3. CASE CloseTabCall
  <2>1. PICK t \in Open(session) : phase = "up" /\ Notified(CloseTab(session, t, TRUE))
    BY <1>3 DEF CloseTabCall, Up
  <2> DEFINE s == CloseTab(session, t, TRUE)
  <2>2. SessionInvariant(s) /\ IsPresentable(s)
    BY <1>0, CloseTabKeepsInvariant, CloseKeepsPresentable
  <2> HIDE DEF s
  <2>3. Notified(s)
    BY <2>1 DEF s
  <2> QED BY <2>1, <2>2, <2>3, NotifiedKeepsFaithful
<1>4. CASE ReopenClosedTab
  <2> DEFINE s == ReopenLastClosedTab(session, "PersistentOnly")
  <2>1. phase = "up" /\ session.restored + 1 \in DOMAIN RestoredId
    BY <1>4 DEF ReopenClosedTab, Up
  <2>2. /\ SessionInvariant(s) /\ IsPresentable(s)
        /\ s.tabs = session.tabs => SavedTabs(s) = SavedTabs(session) /\ s.active = session.active
    BY <1>0, <2>1, ReopenKeepsInvariant, ReopenKeepsPresentable
  <2>3. \/ Notified(s)
        \/ session' = s /\ s.tabs = session.tabs /\ UNCHANGED <<queue, disk, left, phase, launches>>
    BY <1>4 DEF ReopenClosedTab
  <2> HIDE DEF s
  <2>4. CASE Notified(s)
    BY <2>1, <2>2, <2>4, NotifiedKeepsFaithful
  <2>5. CASE session' = s /\ s.tabs = session.tabs /\ UNCHANGED <<queue, disk, left, phase, launches>>
    <3>1. /\ session' = s /\ disk' = disk /\ left' = left /\ phase' = phase
      BY <2>5
    <3>2. phase' = "up" /\ session'.tabs # <<>> => ShowsSession(disk', session')
      BY <2>2, <2>5, <3>1 DEF RestartFaithful, ShowsSession
    <3> QED BY <2>2, <3>1, <3>2 DEF RestartFaithful
  <2> QED BY <2>3, <2>4, <2>5
<1>5. CASE ActivateTabCall
  <2>1. PICK t \in Open(session) : phase = "up" /\ Notified(ActivateTab(session, t))
    BY <1>5 DEF ActivateTabCall, Up
  <2>2. t \in TabIds
    BY <1>0, OpenAreIds DEF SessionInvariant
  <2> DEFINE s == ActivateTab(session, t)
  <2>3. SessionInvariant(s) /\ IsPresentable(s)
    BY <1>0, <2>2, ActivateTabKeepsInvariant, ActivateKeepsPresentable DEF IsPresentable
  <2> HIDE DEF s
  <2>4. Notified(s)
    BY <2>1 DEF s
  <2> QED BY <2>1, <2>3, <2>4, NotifiedKeepsFaithful
<1>6. CASE NavigationCommittedEvent
  <2>1. PICK t \in Open(session), url \in PageUrls :
          phase = "up" /\ Notified(OnNavigationCommitted(session, t, url))
    BY <1>6 DEF NavigationCommittedEvent, Up
  <2>2. url \in Urls /\ url # LegacyUrl /\ "page" \in Titles
    BY PageUrlsAssumption DEF NoLegacyPages, Titles
  <2> DEFINE s == OnNavigationCommitted(session, t, url)
  <2>3. SessionInvariant(s) /\ IsPresentable(s)
    BY <1>0, <2>2, EventKeepsInvariant, CommitKeepsPresentable
  <2> HIDE DEF s
  <2>4. Notified(s)
    BY <2>1 DEF s
  <2> QED BY <2>1, <2>3, <2>4, NotifiedKeepsFaithful
<1>7. CASE EnqueueActive
  BY <1>7 DEF EnqueueActive, QueueBecomes, RestartFaithful
<1>8. ASSUME NEW id \in ItemIdsOf(queue), ActivateItem(id) PROVE RestartFaithful'
  <2> DEFINE item   == Item(queue, id)
             opened == OpenFocusTab(session, item)
             q      == SynchronizeTabClosures(opened, queue)
  <2>1. phase = "up" /\ left = NoSnapshot
    BY <1>8 DEF ActivateItem, Up, RestartSafe
  <2>2. item \in Items /\ item.id = id /\ item.url \in Urls
    BY PlaceFacts, ItemFields DEF Item, RestartSafe, QueueInvariant
  <2>3. CASE HasLiveTab(session, item)
    <3>1. Notified(ActivateTab(session, item.tab)) /\ IsOpen(session, item.tab)
      BY <1>8, <2>3 DEF ActivateItem, HasLiveTab, Alive
    <3>2. item.tab \in TabIds
      BY <1>0, <3>1, OpenAreIds DEF SessionInvariant, IsOpen
    <3> DEFINE t == item.tab
               s == ActivateTab(session, t)
    <3> HIDE DEF item
    <3>3. SessionInvariant(s) /\ IsPresentable(s)
      BY <1>0, <3>2, ActivateTabKeepsInvariant, ActivateKeepsPresentable DEF IsPresentable
    <3> HIDE DEF s
    <3>4. Notified(s)
      BY <3>1 DEF s
    <3> QED BY <2>1, <3>3, <3>4, NotifiedKeepsFaithful
  <2>4. CASE ~HasLiveTab(session, item)
    <3>1. /\ FreeTabId(session, id) \in TabIds
          /\ session' = opened
          /\ disk' = IF opened = session THEN disk ELSE CaptureSnapshot(opened, q, FALSE)
          /\ left' = left /\ phase' = phase
      BY <1>8, <2>4 DEF ActivateItem
    <3> DEFINE t   == FreeTabId(session, id)
               tpl == [url |-> item.url, title |-> "page", eph |-> FALSE]
    <3>2. tpl \in Templates /\ ~tpl.eph /\ opened = OpenTab(session, t, tpl, TRUE)
      BY <2>2 DEF Templates, Titles, OpenFocusTab
    <3> HIDE DEF tpl, t
    <3>3. SessionInvariant(opened) /\ IsPresentable(opened)
      BY <1>0, <3>1, <3>2, OpenTabKeepsInvariant, OpenKeepsPresentable DEF t
    <3>4. QueueInvariant(opened, q)
      BY SynchronizeGivesInvariant DEF RestartSafe, QueueInvariant
    <3> DEFINE f == CaptureSnapshot(opened, q, FALSE)
    <3> HIDE DEF opened, q
    <3>5. IsRestorable(f) /\ ShowsSession(f, opened)
      BY <3>3, <3>4, CaptureIsRestorable, CaptureShows
    <3> HIDE DEF f
    <3>6. disk' = IF opened = session THEN disk ELSE f
      BY <3>1 DEF f
    <3> QED BY <2>1, <3>1, <3>3, <3>5, <3>6 DEF RestartFaithful
  <2> QED BY <2>3, <2>4
<1>9. CASE ArrangeItem
  BY <1>9 DEF ArrangeItem, QueueBecomes, RestartFaithful
<1>10. CASE UNCHANGED vars
  BY <1>10 DEF vars, RestartFaithful
<1> QED
  BY <1>1, <1>2, <1>3, <1>4, <1>5, <1>6, <1>7, <1>8, <1>9, <1>10 DEF Next

\* The disk follows the session, and the next launch finds what the last run had.
THEOREM RestartFaithfulness ==
  ASSUME NoLegacyPages
  PROVE  Spec => [](RestartSafe /\ RestartFaithful)
<1>1. Init => RestartFaithful
  <2>1. EmptySession.tabs = <<>> /\ Open(EmptySession) = {}
    BY SessionInitInvariant DEF EmptySession, SessionInit
  <2> QED BY <2>1 DEF Init, RestartFaithful, IsPresentable
<1>2. RestartSafe /\ RestartFaithful /\ [Next]_vars => RestartFaithful'
  BY NextKeepsFaithful
<1> QED BY <1>1, <1>2, RestartSafety, PTL DEF Spec

\* TabsSurvive: after a quit, or a crash at any point, a restoring launch shows the tabs
\* that were open, in their order, with their addresses and titles and the same one in
\* front, even if other launches were cut short in between.
THEOREM TabsAreBroughtBack ==
  ASSUME NoLegacyPages
  PROVE  Spec => TabsSurvive
<1>1. RestartSafe /\ RestartFaithful /\ [Next]_vars =>
        [left # NoSnapshot /\ left.tabs # <<>> /\ Launch(TRUE) =>
           SavedTabs(session') = left.tabs /\ session'.active = left.active]_vars
  <2> SUFFICES ASSUME RestartSafe, RestartFaithful, left # NoSnapshot, left.tabs # <<>>,
                      Launch(TRUE)
               PROVE  SavedTabs(session') = left.tabs /\ session'.active = left.active
    OBVIOUS
  <2>1. /\ disk # NoSnapshot /\ disk \in Snapshots /\ IsRestorable(disk)
        /\ disk.tabs = left.tabs /\ disk.active = left.active
    BY DEF RestartSafe, RestartFaithful, IsSound
  <2>2. session' = RestoredTabs(disk)
    BY <2>1 DEF Launch
  <2> QED BY <2>1, <2>2, RestoreShowsSnapshot
<1> QED BY <1>1, RestartFaithfulness, PTL DEF Spec, TabsSurvive

-----------------------------------------------------------------------------
\* Activating items.

\* The suffix tells the names that an item can have apart, and "focus-tab-" tells them
\* from the other ids.
DistinctFocusTabIds ==
  \A id \in ItemIds : \A j, k \in Nat : FocusTabId(id, j) = FocusTabId(id, k) => j = k

\* Among as many names as tabs and one more, one is free.
LEMMA FreeTabIdIsFree ==
  ASSUME DistinctFocusTabIds, NEW s, SessionInvariant(s), NEW id \in ItemIds
  PROVE  ~IsOpen(s, FreeTabId(s, id))
<1> DEFINE n    == Len(s.tabs)
           free == {k \in 0 .. n : ~IsOpen(s, FocusTabId(id, k))}
<1>1. s.tabs \in Seq(TabIds) /\ n \in Nat /\ DOMAIN s.tabs = 1 .. n
  BY SessionFields, LenProperties DEF SessionInvariant
<1>2. free # {}
  <2> SUFFICES ASSUME free = {} PROVE FALSE
    OBVIOUS
  <2> DEFINE at == [k \in 0 .. n |-> CHOOSE i \in 1 .. n : s.tabs[i] = FocusTabId(id, k)]
  <2>1. ASSUME NEW k \in 0 .. n PROVE at[k] \in 1 .. n /\ s.tabs[at[k]] = FocusTabId(id, k)
    <3>1. \E i \in 1 .. n : s.tabs[i] = FocusTabId(id, k)
      BY <1>1 DEF IsOpen, Open
    <3> QED BY <3>1
  <2>2. at \in [0 .. n -> 1 .. n]
    <3>1. at = [k \in 0 .. n |-> at[k]]
      OBVIOUS
    <3> HIDE DEF at
    <3> QED BY <2>1, <3>1
  <2> HIDE DEF at, free
  <2>3. /\ IsFiniteSet(0 .. n) /\ Cardinality(0 .. n) = n + 1
        /\ IsFiniteSet(1 .. n) /\ Cardinality(1 .. n) = n
    BY <1>1, FS_Interval
  <2>4. Cardinality(1 .. n) < Cardinality(0 .. n)
    BY <1>1, <2>3
  <2>5. PICK j, k \in 0 .. n : j # k /\ at[j] = at[k]
    BY <2>2, <2>3, <2>4, FS_PigeonHole
  <2>6. FocusTabId(id, j) = FocusTabId(id, k)
    BY <2>1, <2>5
  <2> QED BY <1>1, <2>5, <2>6 DEF DistinctFocusTabIds
<1>3. PICK k \in free : \A j \in free : k <= j
  <2>1. free \in SUBSET Nat
    BY <1>1
  <2> QED BY <1>2, <2>1, LeastElement
<1>4. FreeTabId(s, id) = FocusTabId(id, CHOOSE i \in free : \A j \in free : i <= j)
  BY DEF FreeTabId
<1> DEFINE first == CHOOSE i \in free : \A j \in free : i <= j
<1>5. first \in free
  BY <1>3
<1> HIDE DEF first
<1>6. FreeTabId(s, id) = FocusTabId(id, first)
  BY <1>4 DEF first
<1> QED BY <1>5, <1>6

\* Ids name one item.
LEMMA ItemAt ==
  ASSUME NEW q \in Seq(Items), SoundQueue(q), NEW i \in DOMAIN q
  PROVE  q[i].id \in ItemIdsOf(q) /\ Place(q, q[i].id) = i /\ Item(q, q[i].id) = q[i]
<1>1. q[i].id \in ItemIdsOf(q)
  BY DEF ItemIdsOf
<1>2. DOMAIN q = 1 .. Len(q)
  BY LenProperties
<1>3. Place(q, q[i].id) \in 1 .. Len(q) /\ q[Place(q, q[i].id)].id = q[i].id
  BY <1>1, PlaceFacts
<1>4. Place(q, q[i].id) = i
  BY <1>2, <1>3 DEF SoundQueue
<1> QED BY <1>1, <1>4 DEF Item

\* The binding reaches the item it is for.
LEMMA SetTabIdBinds ==
  ASSUME NEW q \in Seq(Items), SoundQueue(q), NEW i \in DOMAIN q, NEW t
  PROVE  SetTabId(q, q[i].id, t)[i].tab = t
<1>1. q[i].id \in ItemIdsOf(q) /\ Place(q, q[i].id) = i
  BY ItemAt
<1>2. SetTabId(q, q[i].id, t) = [q EXCEPT ![i].tab = t]
  BY <1>1 DEF SetTabId
<1>3. q[i] \in Items
  OBVIOUS
<1>4. q[i] = [id |-> q[i].id, url |-> q[i].url, tab |-> q[i].tab, state |-> q[i].state]
  BY <1>3 DEF Items
<1>5. [q EXCEPT ![i].tab = t][i] = [q[i] EXCEPT !.tab = t]
  OBVIOUS
<1> QED BY <1>2, <1>4, <1>5

\* ActivationShowsItem: activating an item of the queue brings its page to the front,
\* in the tab it names from then on, which is a new one if it had none to show.
THEOREM ActivatedItemsAreShown ==
  ASSUME DistinctFocusTabIds
  PROVE  Spec => ActivationShowsItem
<1> DEFINE Body ==
      \A i \in DOMAIN queue : ActivateItem(queue[i].id) =>
        /\ session'.active # NoTabId /\ queue'[i].tab = session'.active
        /\ ~HasLiveTab(session, queue[i]) =>
             session'.active \notin Open(session) /\ session'.tab[session'.active].url = queue[i].url
<1>1. RestartSafe /\ [Next]_vars => [Body]_vars
  <2> SUFFICES ASSUME RestartSafe, NEW i \in DOMAIN queue, ActivateItem(queue[i].id)
               PROVE  /\ session'.active # NoTabId /\ queue'[i].tab = session'.active
                      /\ ~HasLiveTab(session, queue[i]) =>
                           /\ session'.active \notin Open(session)
                           /\ session'.tab[session'.active].url = queue[i].url
    OBVIOUS
  <2> DEFINE item   == queue[i]
             id     == queue[i].id
             opened == OpenFocusTab(session, item)
             q      == SynchronizeTabClosures(opened, queue)
  <2>1. /\ SessionInvariant(session) /\ queue \in Seq(Items)
        /\ SoundQueue(queue) /\ ItemsAreBound(session, queue)
    BY DEF RestartSafe, QueueInvariant
  <2>2. Item(queue, id) = item /\ id \in ItemIds /\ item.url \in Urls
    BY <2>1, ItemAt, ItemFields
  <2>3. CASE HasLiveTab(session, item)
    <3>1. Notified(ActivateTab(session, item.tab)) /\ IsOpen(session, item.tab)
      BY <2>2, <2>3 DEF ActivateItem, HasLiveTab, Alive
    <3> DEFINE t == item.tab
               s == ActivateTab(session, t)
    <3>2. s.active = (IF IsOpen(session, t) THEN t ELSE session.active) /\ Open(s) = Open(session)
      BY <2>1, ActivateTabEffect
    <3>3. t \in TabIds
      BY <2>1, <3>1, OpenAreIds DEF SessionInvariant, IsOpen
    <3>4. session' = s /\ queue' = SynchronizeTabClosures(s, queue)
      BY <3>1 DEF Notified
    <3> HIDE DEF s
    <3>5. ItemsAreBound(s, queue)
      BY <2>1, <3>2 DEF ItemsAreBound, IsOpen
    <3>6. queue' = queue
      BY <2>1, <3>4, <3>5, SynchronizeChangesNothing
    <3> QED BY <2>3, <3>1, <3>2, <3>3, <3>4, <3>6, NoTabIdAssumption
  <2>4. CASE ~HasLiveTab(session, item)
    <3> DEFINE t   == FreeTabId(session, id)
               tpl == [url |-> item.url, title |-> "page", eph |-> FALSE]
    <3>1. /\ t \in TabIds /\ session' = opened
          /\ queue' = IF opened = session THEN queue ELSE SetTabId(q, id, opened.active)
      BY <2>2, <2>4 DEF ActivateItem
    <3>2. ~IsOpen(session, t)
      BY <2>1, <2>2, FreeTabIdIsFree
    <3>3. tpl \in Templates /\ ~tpl.eph /\ IsPlain(tpl) /\ tpl.url = item.url
      BY <2>2 DEF Templates, Titles, IsPlain
    <3>4. Normalised(tpl) = tpl
      BY <3>3, NormalisedIsPlain
    <3>5. opened = OpenTab(session, t, tpl, TRUE)
      BY DEF OpenFocusTab
    <3>a. PICK activate : activate = TRUE
      OBVIOUS
    <3> DEFINE fresh == FreshTab(Normalised(tpl))
               d     == OpenTab(session, t, tpl, activate)
    <3>6. fresh.url = item.url
      BY <3>3, <3>4 DEF FreshTab
    <3>7. t \in TabIds
      BY <3>1
    <3> HIDE DEF t, tpl, fresh
    <3>8. /\ Open(d) = Open(session) \cup {t}
          /\ d.active = IF session.tabs = <<>> \/ activate THEN t ELSE session.active
          /\ SamePage(FreshTab(Normalised(tpl)), d.tab[t])
      BY <2>1, <3>2, <3>3, <3>7, OpenTabEffect
    <3>9. opened = d
      BY <3>5, <3>a
    <3> HIDE DEF d, opened
    <3>10. /\ opened.active = t /\ opened.tab[t].url = item.url
           /\ Open(opened) = Open(session) \cup {t}
      BY <3>6, <3>8, <3>9, <3>a DEF SamePage, fresh
    <3>11. opened # session
      BY <3>2, <3>10 DEF IsOpen
    <3>12. ItemsAreBound(opened, queue)
      BY <2>1, <3>10 DEF ItemsAreBound, IsOpen
    <3>13. q = queue
      BY <2>1, <3>12, SynchronizeChangesNothing
    <3>14. queue' = SetTabId(queue, queue[i].id, t)
      BY <3>1, <3>10, <3>11, <3>13
    <3>15. SetTabId(queue, queue[i].id, t)[i].tab = t
      BY <2>1, SetTabIdBinds
    <3>16. t # NoTabId /\ t \notin Open(session)
      BY <3>2, <3>7, NoTabIdAssumption DEF IsOpen
    <3> QED BY <3>1, <3>10, <3>14, <3>15, <3>16
  <2> QED BY <2>3, <2>4
<1>2. Spec => [][Body]_vars
  BY <1>1, RestartSafety, PTL DEF Spec
<1> QED BY <1>2 DEF ActivationShowsItem
=============================================================================
