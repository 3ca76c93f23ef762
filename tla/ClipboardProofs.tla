--------------------------- MODULE ClipboardProofs ---------------------------
(***************************************************************************)
(* Proofs about Clipboard, for any contents, limits and numbers of events: *)
(* its types and the limit of the history, that the current selection is   *)
(* backed by what is retained, and that what overtakes a capture keeps it  *)
(* out of the history.                                                     *)
(***************************************************************************)
EXTENDS Clipboard, FiniteSetTheorems, WellFoundedInduction, TLAPS

-----------------------------------------------------------------------------
(* The invariant of a ClipboardState, kept by every method. *)

Fields == {"history", "current", "managed", "pending", "actions", "paused", "locked",
           "nextItem", "nextEpoch"}

Typed(c) ==
    /\ c = [field \in Fields |-> c[field]]
    /\ c.history \in SUBSET AllItems
    /\ c.current \in {Nobody} \cup [kind : {"external"}, epoch : Nat, item : Nat \cup {None}]
                              \cup [kind : {"managed"}, epoch : Nat, item : Nat]
    /\ c.managed \in AllItems \cup {None}
    /\ c.pending \in AllCaptures \cup {None}
    /\ c.paused \in BOOLEAN /\ c.locked \in BOOLEAN
    /\ c.nextItem \in Nat \ {0} /\ c.nextEpoch \in Nat \ {0}

\* Ids and epochs of what is retained were given out before, and the entries of
\* the history differ in their ids.
Numbered(c) ==
    /\ \A item \in c.history : 0 < item.id /\ item.id < c.nextItem /\ item.from < c.nextEpoch
    /\ \A item, other \in c.history : item.id = other.id => item = other
    /\ c.managed # None => /\ 0 < c.managed.id /\ c.managed.id < c.nextItem
                           /\ c.managed.from < c.nextEpoch

Limited(c) == IsFiniteSet(c.history) /\ Cardinality(c.history) <= MaxHistory

\* The current selection is backed by what is retained.
Backed(c) ==
    /\ IsManaged(c) <=> c.managed # None
    /\ IsManaged(c) => /\ c.managed.id = c.current.item
                       /\ \A item \in c.history : item.id = c.managed.id => item = c.managed
    /\ IsExternal(c) /\ c.current.item # None => c.current.item \in Ids(c)

\* A capture goes on only while the clipboard records.
Recording(c) ==
    c.pending # None => /\ ~c.locked /\ ~c.paused
                        /\ c.pending.epoch < c.nextEpoch
                        /\ c.pending.got # {} => c.pending.content # None

Sound(c) == Typed(c) /\ Numbered(c) /\ Limited(c) /\ Backed(c) /\ Recording(c)

-----------------------------------------------------------------------------
(* The history. *)

\* A set of items has an oldest one: the back of the deque.
LEMMA OldestExists ==
    ASSUME NEW S \in SUBSET AllItems, S # {}
    PROVE  Oldest(S) \in S
<1> DEFINE T == {item.id : item \in S}
<1>1. T \subseteq Nat /\ T # {}
  BY DEF AllItems
<1>2. PICK n \in T : \A m \in T : ~(<<m, n>> \in OpToRel(<, Nat))
  <2> HIDE DEF T
  <2> QED
    BY <1>1, NatLessThanWellFounded, WFMin, Zenon
<1>3. \A m \in T : n <= m
  <2> HIDE DEF T
  <2> SUFFICES ASSUME NEW m \in T, ~(n <= m) PROVE FALSE
    OBVIOUS
  <2>0. n \in Nat /\ m \in Nat
    BY <1>1
  <2>1. <<m, n>> \in OpToRel(<, Nat)
    BY <2>0 DEF OpToRel
  <2> QED
    BY <1>2, <2>1, Zenon
<1>4. \E item \in S : \A other \in S : item.id <= other.id
  BY <1>2, <1>3
<1> QED
  BY <1>4 DEF Oldest

\* It has a newest one, the front of the deque, if its ids are bounded.
LEMMA NewestExists ==
    ASSUME NEW S \in SUBSET AllItems, S # {}, NEW bound \in Nat, \A item \in S : item.id < bound
    PROVE  Newest(S) \in S /\ \A item \in S : item.id <= Newest(S).id
<1> DEFINE T == {bound - item.id : item \in S}
<1>0. \A item \in S : item.id \in Nat
  BY DEF AllItems
<1>1. T \subseteq Nat /\ T # {}
  BY <1>0
<1>2. PICK n \in T : \A m \in T : ~(<<m, n>> \in OpToRel(<, Nat))
  <2> HIDE DEF T
  <2> QED
    BY <1>1, NatLessThanWellFounded, WFMin, Zenon
<1>3. \A m \in T : n <= m
  <2> HIDE DEF T
  <2> SUFFICES ASSUME NEW m \in T, ~(n <= m) PROVE FALSE
    OBVIOUS
  <2>0. n \in Nat /\ m \in Nat
    BY <1>1
  <2>1. <<m, n>> \in OpToRel(<, Nat)
    BY <2>0 DEF OpToRel
  <2> QED
    BY <1>2, <2>1, Zenon
<1>4. PICK item \in S : n = bound - item.id
  BY <1>2
<1>5. ASSUME NEW other \in S PROVE other.id <= item.id
  <2>1. bound - other.id \in T
    OBVIOUS
  <2>2. n <= bound - other.id
    BY <1>3, <2>1
  <2> QED
    BY <1>0, <1>4, <2>2
<1> QED
  BY <1>5 DEF Newest

\* enforce_limits: one entry goes if there is one too many.
LEMMA LimitEnforced ==
    ASSUME NEW S \in SUBSET AllItems, IsFiniteSet(S), Cardinality(S) <= MaxHistory + 1
    PROVE  /\ EnforceLimits(S) \subseteq S
           /\ IsFiniteSet(EnforceLimits(S))
           /\ Cardinality(EnforceLimits(S)) <= MaxHistory
<1>1. CASE Cardinality(S) <= MaxHistory
  BY <1>1 DEF EnforceLimits
<1>2. CASE ~(Cardinality(S) <= MaxHistory)
  <2>1. Cardinality(S) \in Nat /\ MaxHistory \in Nat
    BY FS_CardinalityType, ClipboardAssumption
  <2>2. S # {}
    BY <1>2, <2>1, FS_EmptySet
  <2>3. Evictable(S) \in SUBSET S /\ Evictable(S) # {}
    BY <2>2 DEF Evictable
  <2>4. Evictable(S) \in SUBSET AllItems
    BY <2>3
  <2>5. Oldest(Evictable(S)) \in S
    BY <2>3, <2>4, OldestExists
  <2>6. /\ IsFiniteSet(S \ {Oldest(Evictable(S))})
        /\ Cardinality(S \ {Oldest(Evictable(S))}) = Cardinality(S) - 1
    BY <2>5, FS_RemoveElement
  <2> QED
    BY <1>2, <2>1, <2>6 DEF EnforceLimits
<1> QED
  BY <1>1, <1>2

\* insert_history_item: what is in the history afterwards.
LEMMA InsertedFacts ==
    ASSUME NEW c, Sound(c), NEW item \in AllItems, item.id = c.nextItem
    PROVE  LET new == Renewed(c, item)  kept == Inserted(c, item)
           IN /\ new \in AllItems /\ new.from = item.from
              /\ 0 < new.id /\ new.id <= c.nextItem
              /\ \A entry \in kept : entry = new \/ (entry \in c.history /\ entry.id # new.id)
              /\ IsFiniteSet(kept) /\ Cardinality(kept) <= MaxHistory
<1> DEFINE new == Renewed(c, item)
           rest == IF Repeats(c, item) THEN c.history \ {Newest(c.history)} ELSE c.history
<1>1. /\ c.history \in SUBSET AllItems /\ IsFiniteSet(c.history) /\ c.nextItem \in Nat \ {0}
      /\ Cardinality(c.history) <= MaxHistory
      /\ \A entry \in c.history : 0 < entry.id /\ entry.id < c.nextItem
      /\ \A entry, other \in c.history : entry.id = other.id => entry = other
  BY DEF Sound, Typed, Numbered, Limited
<1>2. Repeats(c, item) => Newest(c.history) \in c.history
  BY <1>1, NewestExists DEF Repeats
<1>3. /\ new \in AllItems /\ new.from = item.from /\ 0 < new.id /\ new.id <= c.nextItem
      /\ new.id = IF Repeats(c, item) THEN Newest(c.history).id ELSE item.id
  <2>1. CASE Repeats(c, item)
    <3> DEFINE old == Newest(c.history)
    <3>1. old \in AllItems /\ 0 < old.id /\ old.id < c.nextItem
      BY <1>1, <1>2, <2>1
    <3> HIDE DEF old
    <3>2. old.id \in Nat /\ old.pinned \in BOOLEAN
      BY <3>1 DEF AllItems
    <3>3. new = [item EXCEPT !.id = old.id, !.pinned = old.pinned]
      BY <2>1 DEF Renewed, old
    <3>4. new \in AllItems /\ new.id = old.id /\ new.from = item.from
      BY <3>2, <3>3 DEF AllItems
    <3> QED
      BY <1>1, <2>1, <3>1, <3>2, <3>4 DEF old
  <2>2. CASE ~Repeats(c, item)
    BY <1>1, <2>2 DEF Renewed
  <2> QED
    BY <2>1, <2>2
<1>4. \A entry \in rest : entry \in c.history /\ entry.id # new.id
  BY <1>1, <1>2, <1>3
<1>5. rest \in SUBSET c.history /\ IsFiniteSet(rest) /\ Cardinality(rest) \in Nat
      /\ Cardinality(rest) <= MaxHistory
  <2>1. rest \in SUBSET c.history
    OBVIOUS
  <2> HIDE DEF rest
  <2> QED
    BY <1>1, <2>1, FS_Subset, FS_CardinalityType, ClipboardAssumption
<1>6. Inserted(c, item) = EnforceLimits({new} \cup rest)
  BY DEF Inserted
<1> HIDE DEF new, rest
<1>7. IsFiniteSet({new} \cup rest) /\ Cardinality({new} \cup rest) <= MaxHistory + 1
  <2>1. {new} \cup rest = rest \cup {new}
    OBVIOUS
  <2>2. /\ IsFiniteSet(rest \cup {new})
        /\ Cardinality(rest \cup {new}) = IF new \in rest THEN Cardinality(rest) ELSE Cardinality(rest) + 1
    BY <1>5, FS_AddElement
  <2> QED
    BY <1>5, <2>1, <2>2, ClipboardAssumption
<1>8. {new} \cup rest \in SUBSET AllItems
  BY <1>1, <1>3, <1>5
<1>9. /\ Inserted(c, item) \subseteq {new} \cup rest
      /\ IsFiniteSet(Inserted(c, item)) /\ Cardinality(Inserted(c, item)) <= MaxHistory
  BY <1>6, <1>7, <1>8, LimitEnforced
<1> QED
  BY <1>3, <1>4, <1>9 DEF new

-----------------------------------------------------------------------------
(* The methods. *)

\* What a method of the shell, the worker or the lock makes of c: at most one
\* id and one epoch are given out, a capture ends or stays as it is, and no
\* entry claims a capture that none claimed before.
Follows(c, d) ==
    /\ Sound(d)
    /\ \/ d.pending = None /\ d.nextItem \in {c.nextItem, c.nextItem + 1}
       \/ d.pending = c.pending /\ d.nextItem = c.nextItem
    /\ d.nextEpoch \in {c.nextEpoch, c.nextEpoch + 1}
    /\ \A item \in d.history : item.from \in {0} \cup {old.from : old \in c.history}

\* A method that refuses.
LEMMA Refused == ASSUME NEW c, Sound(c) PROVE Follows(c, c)
BY DEF Follows, Sound

\* set_locked.
LEMMA SetLockedSound ==
    ASSUME NEW c, Sound(c), NEW locked \in BOOLEAN
    PROVE  LET d == SetLocked(c, locked)
           IN /\ Follows(c, d)
              /\ d.locked = locked /\ d.history = c.history
              /\ d.nextItem = c.nextItem /\ d.nextEpoch = c.nextEpoch
              /\ d.pending = (IF locked = c.locked THEN c.pending ELSE None)
<1> DEFINE d == SetLocked(c, locked)
<1>1. CASE locked = c.locked
  BY <1>1, Refused DEF SetLocked
<1>2. CASE locked # c.locked
  <2>1. /\ d = [field \in Fields |-> d[field]]
        /\ d.locked = locked /\ d.pending = None
        /\ d.history = c.history /\ d.current = c.current /\ d.managed = c.managed
        /\ d.paused = c.paused /\ d.nextItem = c.nextItem /\ d.nextEpoch = c.nextEpoch
    BY <1>2 DEF SetLocked, Sound, Typed, Fields
  <2> HIDE DEF d
  <2>2. Typed(d)
    BY <2>1 DEF Sound, Typed
  <2>3. Numbered(d) /\ Limited(d) /\ Recording(d)
    BY <2>1 DEF Sound, Numbered, Limited, Recording
  <2>4. Backed(d)
    BY <2>1 DEF Sound, Backed, IsManaged, IsExternal, Ids
  <2>5. Follows(c, d)
    BY <2>1, <2>2, <2>3, <2>4 DEF Follows, Sound
  <2> QED
    BY <1>2, <2>1, <2>5 DEF d
<1> QED
  BY <1>1, <1>2

\* The clipboard offers an item that agrees with the history.
LEMMA OfferSound ==
    ASSUME NEW c, Typed(c), Numbered(c), Limited(c), NEW item \in AllItems,
           0 < item.id, item.id < c.nextItem, item.from < c.nextEpoch,
           \A entry \in c.history : entry.id = item.id => entry = item
    PROVE  LET d == Offer(c, item)
           IN /\ Sound(d) /\ d.pending = None /\ d.history = c.history
              /\ d.nextItem = c.nextItem /\ d.nextEpoch = c.nextEpoch + 1
              /\ d.locked = c.locked
<1> DEFINE d == Offer(c, item)
<1>1. /\ d = [field \in Fields |-> d[field]]
      /\ d.locked = c.locked /\ d.pending = None
      /\ d.history = c.history /\ d.current = Managed(c.nextEpoch, item.id) /\ d.managed = item
      /\ d.paused = c.paused /\ d.nextItem = c.nextItem /\ d.nextEpoch = c.nextEpoch + 1
  BY DEF Offer, Typed, Fields
<1> HIDE DEF d
<1>2. item # None /\ item.id \in Nat /\ item.from \in Nat
  BY ClipboardNone DEF AllItems
<1>3. Typed(d)
  BY <1>1, <1>2 DEF Typed, Managed
<1>4. Numbered(d)
  <2>1. \A entry \in c.history : entry.from \in Nat
    BY DEF Typed, AllItems
  <2> QED
    BY <1>1, <1>2, <2>1 DEF Numbered, Typed
<1>5. Limited(d) /\ Recording(d)
  BY <1>1 DEF Limited, Recording
<1>6. Backed(d)
  BY <1>1, <1>2 DEF Backed, IsManaged, IsExternal, Managed
<1> QED
  BY <1>1, <1>3, <1>4, <1>5, <1>6 DEF Sound, d

\* set_text and set_image_png, which end a capture unless they are refused.
LEMMA SetManagedSound ==
    ASSUME NEW c, Sound(c), NEW content \in Contents, NEW mime \in Mimes
    PROVE  LET d == SetManaged(c, content, mime)
           IN Follows(c, d) /\ d.locked = c.locked /\ (~c.locked => d.pending = None)
<1>1. CASE c.locked
  BY <1>1, Refused DEF SetManaged
<1>2. CASE ~c.locked
  <2> DEFINE item == NewItem(c, content, {mime}, 0)
             new == [c EXCEPT !.nextItem = @ + 1]
             full == [new EXCEPT !.history = Inserted(c, item)]
             renewed == Renewed(c, item)
  <2>1. item \in AllItems /\ item.id = c.nextItem /\ item.from = 0
    BY DEF NewItem, AllItems, Sound, Typed
  <2>2. Typed(c) /\ Numbered(c) /\ Limited(c)
    BY DEF Sound
  <2>3. /\ c.nextItem \in Nat \ {0} /\ c.nextEpoch \in Nat \ {0}
        /\ \A entry \in c.history : entry.id \in Nat /\ entry.from \in Nat
        /\ c.managed # None => c.managed.id \in Nat /\ c.managed.from \in Nat
    BY <2>2 DEF Typed, AllItems
  <2> HIDE DEF item
  <2>4. CASE c.paused
    <3>1. /\ new = [field \in Fields |-> new[field]]
          /\ new.nextItem = c.nextItem + 1
          /\ new.locked = c.locked /\ new.pending = c.pending /\ new.nextEpoch = c.nextEpoch
          /\ new.history = c.history /\ new.current = c.current /\ new.managed = c.managed
          /\ new.paused = c.paused
      BY <2>2 DEF Typed, Fields
    <3> HIDE DEF new
    <3>2. Typed(new) /\ Limited(new)
      BY <2>2, <3>1 DEF Typed, Limited
    <3>3. Numbered(new)
      BY <2>2, <2>3, <3>1 DEF Numbered
    <3>4. \A entry \in new.history : entry.id # item.id
      BY <2>1, <2>2, <2>3, <3>1 DEF Numbered
    <3>5. 0 < item.id /\ item.id < new.nextItem /\ item.from < new.nextEpoch
      BY <2>1, <2>3, <3>1
    <3> DEFINE d == Offer(new, item)
    <3>6. /\ Sound(d) /\ d.pending = None /\ d.history = c.history
          /\ d.nextItem = c.nextItem + 1 /\ d.nextEpoch = c.nextEpoch + 1 /\ d.locked = c.locked
      BY <2>1, <3>1, <3>2, <3>3, <3>4, <3>5, OfferSound
    <3>7. SetManaged(c, content, mime) = d
      BY <1>2, <2>4 DEF SetManaged, item, new
    <3> HIDE DEF d
    <3> QED
      BY <3>6, <3>7 DEF Follows
  <2>5. CASE ~c.paused
    <3> DEFINE kept == Inserted(c, item)
    <3>1. /\ renewed \in AllItems /\ renewed.from = 0 /\ renewed.id \in Nat
          /\ 0 < renewed.id /\ renewed.id <= c.nextItem
          /\ \A entry \in kept : entry = renewed \/ (entry \in c.history /\ entry.id # renewed.id)
          /\ IsFiniteSet(kept) /\ Cardinality(kept) <= MaxHistory
      <4>1. renewed \in AllItems
        BY <2>1, InsertedFacts
      <4> QED
        BY <2>1, <4>1, InsertedFacts DEF AllItems
    <3> HIDE DEF kept, renewed
    <3>2. /\ full = [field \in Fields |-> full[field]]
          /\ full.nextItem = c.nextItem + 1
          /\ full.locked = c.locked /\ full.pending = c.pending /\ full.nextEpoch = c.nextEpoch
          /\ full.history = kept /\ full.current = c.current /\ full.managed = c.managed
          /\ full.paused = c.paused
      BY <2>2 DEF Typed, Fields, kept
    <3> HIDE DEF full
    <3>3. kept \in SUBSET AllItems
      BY <2>2, <3>1 DEF Typed
    <3>4. Typed(full) /\ Limited(full)
      BY <2>2, <3>1, <3>2, <3>3 DEF Typed, Limited
    <3>5. Numbered(full)
      BY <2>2, <2>3, <3>1, <3>2 DEF Numbered
    <3>6. \A entry \in full.history : entry.id = renewed.id => entry = renewed
      BY <3>1, <3>2
    <3>7. 0 < renewed.id /\ renewed.id < full.nextItem /\ renewed.from < full.nextEpoch
      BY <2>3, <3>1, <3>2
    <3> DEFINE d == Offer(full, renewed)
    <3>8. /\ Sound(d) /\ d.pending = None /\ d.history = kept
          /\ d.nextItem = c.nextItem + 1 /\ d.nextEpoch = c.nextEpoch + 1 /\ d.locked = c.locked
      BY <3>1, <3>2, <3>4, <3>5, <3>6, <3>7, OfferSound
    <3>9. SetManaged(c, content, mime) = d
      BY <1>2, <2>5 DEF SetManaged, item, full, renewed
    <3> HIDE DEF d
    <3> QED
      BY <3>1, <3>8, <3>9 DEF Follows
  <2> QED
    BY <2>3, <2>4, <2>5 DEF Sound, Typed
<1> QED
  BY <1>1, <1>2 DEF Sound, Typed

\* An id of the history names an entry.
LEMMA HistoryItemFacts ==
    ASSUME NEW c, Sound(c), NEW id \in Ids(c)
    PROVE  /\ HistoryItem(c, id) \in c.history /\ HistoryItem(c, id).id = id
           /\ \A entry \in c.history : entry.id = id => entry = HistoryItem(c, id)
<1>1. HistoryItem(c, id) \in c.history /\ HistoryItem(c, id).id = id
  BY DEF HistoryItem, Ids
<1> QED
  BY <1>1 DEF Sound, Numbered

\* activate.
LEMMA ActivateSound ==
    ASSUME NEW c, Sound(c), NEW id
    PROVE  LET d == Activate(c, id)
           IN /\ Follows(c, d) /\ d.locked = c.locked
              /\ ~c.locked /\ id \in Ids(c) => d.pending = None
<1>1. CASE c.locked \/ id \notin Ids(c)
  BY <1>1, Refused DEF Activate
<1>2. CASE ~c.locked /\ id \in Ids(c)
  <2> DEFINE item == HistoryItem(c, id)
             d == Offer(c, item)
  <2>1. item \in c.history /\ \A entry \in c.history : entry.id = item.id => entry = item
    BY <1>2, HistoryItemFacts
  <2> HIDE DEF item
  <2>2. /\ item \in AllItems /\ Typed(c) /\ Numbered(c) /\ Limited(c)
        /\ 0 < item.id /\ item.id < c.nextItem /\ item.from < c.nextEpoch
    BY <2>1 DEF Sound, Typed, Numbered
  <2>3. /\ Sound(d) /\ d.pending = None /\ d.history = c.history
        /\ d.nextItem = c.nextItem /\ d.nextEpoch = c.nextEpoch + 1 /\ d.locked = c.locked
    BY <2>1, <2>2, OfferSound
  <2>4. Activate(c, id) = d
    BY <1>2 DEF Activate, item
  <2> HIDE DEF d
  <2> QED
    BY <2>3, <2>4 DEF Follows
<1> QED
  BY <1>1, <1>2

\* set_pinned changes the entry and, if it is offered, what is offered.
LEMMA SetPinnedSound ==
    ASSUME NEW c, Sound(c), NEW id, NEW pinned \in BOOLEAN
    PROVE  Follows(c, SetPinned(c, id, pinned)) /\ SetPinned(c, id, pinned).locked = c.locked
<1>1. CASE c.locked \/ id \notin Ids(c)
  BY <1>1, Refused DEF SetPinned
<1>2. CASE ~c.locked /\ id \in Ids(c)
  <2> DEFINE old == HistoryItem(c, id)
             item == [old EXCEPT !.pinned = pinned]
             kept == (c.history \ {old}) \cup {item}
             d == SetPinned(c, id, pinned)
  <2>1. /\ old \in c.history /\ old.id = id
        /\ \A entry \in c.history : entry.id = id => entry = old
    BY <1>2, HistoryItemFacts
  <2>2. Typed(c) /\ Numbered(c) /\ Limited(c) /\ Backed(c) /\ Recording(c)
    BY DEF Sound
  <2>3. /\ d = [field \in Fields |-> d[field]]
        /\ d.history = kept
        /\ d.managed = (IF c.managed # None /\ c.managed.id = id THEN item ELSE c.managed)
        /\ d.locked = c.locked /\ d.pending = c.pending /\ d.current = c.current
        /\ d.paused = c.paused /\ d.nextItem = c.nextItem /\ d.nextEpoch = c.nextEpoch
    BY <1>2, <2>2 DEF SetPinned, Typed, Fields
  <2> HIDE DEF d, old
  <2>4. old \in AllItems
    BY <2>1, <2>2 DEF Typed
  <2>5. item \in AllItems /\ item.id = id /\ item.from = old.from
    BY <2>1, <2>4 DEF AllItems
  <2>6. \A entry \in kept : entry = item \/ (entry \in c.history /\ entry.id # id)
    BY <2>1
  <2>7. item # None
    BY <2>5, ClipboardNone
  <2>8. IsFiniteSet(kept) /\ Cardinality(kept) <= MaxHistory
    <3>1. /\ IsFiniteSet(c.history) /\ Cardinality(c.history) \in Nat
          /\ Cardinality(c.history) <= MaxHistory
      BY <2>2, FS_CardinalityType DEF Limited
    <3>2. /\ IsFiniteSet(c.history \ {old})
          /\ Cardinality(c.history \ {old}) = Cardinality(c.history) - 1
      BY <2>1, <3>1, FS_RemoveElement
    <3> HIDE DEF item
    <3> DEFINE rest == c.history \ {old}
    <3>3. Cardinality(rest) \in Nat
      BY <3>2, FS_CardinalityType
    <3>4. /\ IsFiniteSet(rest \cup {item})
          /\ Cardinality(rest \cup {item}) = IF item \in rest THEN Cardinality(rest)
                                                               ELSE Cardinality(rest) + 1
      BY <3>2, FS_AddElement
    <3> QED
      BY <3>1, <3>2, <3>3, <3>4, ClipboardAssumption
  <2>9. \A entry \in kept : entry \in AllItems
    BY <2>2, <2>5, <2>6 DEF Typed
  <2>10. id \in {entry.id : entry \in kept}
    BY <2>5
  <2>11. \A entry \in c.history : entry = old \/ entry \in kept
    OBVIOUS
  <2> HIDE DEF item, kept
  <2>12. Typed(d) /\ Limited(d) /\ Recording(d)
    BY <2>2, <2>3, <2>5, <2>8, <2>9 DEF Typed, Limited, Recording
  <2>13. Numbered(d)
    BY <2>1, <2>2, <2>3, <2>5, <2>6 DEF Numbered
  <2>14. Backed(d)
    <3>1. IsManaged(d) <=> IsManaged(c)
      BY <2>3 DEF IsManaged
    <3>2. IsManaged(d) => /\ d.managed.id = d.current.item
                          /\ \A entry \in d.history : entry.id = d.managed.id => entry = d.managed
      BY <2>2, <2>3, <2>5, <2>6, <3>1 DEF Backed
    <3>3. c.current.item \in Ids(c) => c.current.item \in Ids(d)
      BY <2>1, <2>3, <2>10, <2>11 DEF Ids
    <3>4. IsExternal(d) /\ d.current.item # None => d.current.item \in Ids(d)
      BY <2>2, <2>3, <3>3 DEF Backed, IsExternal
    <3>5. IsManaged(d) <=> d.managed # None
      BY <2>2, <2>3, <2>7, <3>1 DEF Backed
    <3> QED
      BY <3>2, <3>4, <3>5 DEF Backed
  <2> QED
    BY <2>1, <2>3, <2>5, <2>6, <2>12, <2>13, <2>14 DEF Follows, Sound, d
<1> QED
  BY <1>1, <1>2

\* A smaller history that is offered from no more.
LEMMA FewerEntries ==
    ASSUME NEW c, Sound(c), NEW d, Typed(d), NEW kept \in SUBSET c.history, d.history = kept,
           d.nextItem = c.nextItem, d.nextEpoch \in {c.nextEpoch, c.nextEpoch + 1},
           d.managed \in {None, c.managed} \cup kept
    PROVE  /\ Numbered(d) /\ Limited(d)
           /\ \A item \in d.history : item.from \in {0} \cup {old.from : old \in c.history}
<1>1. /\ c.nextEpoch \in Nat
      /\ \A item \in c.history : item.from \in Nat
      /\ c.managed # None => c.managed.from \in Nat
  BY DEF Sound, Typed, AllItems
<1>2. Numbered(d)
  BY <1>1 DEF Sound, Numbered
<1>3. /\ IsFiniteSet(c.history) /\ Cardinality(c.history) \in Nat
      /\ Cardinality(c.history) <= MaxHistory
  BY FS_CardinalityType DEF Sound, Limited
<1>4. IsFiniteSet(kept) /\ Cardinality(kept) <= Cardinality(c.history) /\ Cardinality(kept) \in Nat
  BY <1>3, FS_Subset, FS_CardinalityType
<1> QED
  BY <1>2, <1>3, <1>4, ClipboardAssumption DEF Limited

\* delete: the selection that was offered from the entry ends.
LEMMA DeleteSound ==
    ASSUME NEW c, Sound(c), NEW id
    PROVE  Follows(c, Delete(c, id)) /\ Delete(c, id).locked = c.locked
<1>1. CASE c.locked \/ id \notin Ids(c)
  BY <1>1, Refused DEF Delete
<1>2. CASE ~c.locked /\ id \in Ids(c)
  <2> DEFINE kept == {item \in c.history : item.id # id}
             rest == [c EXCEPT !.history = kept]
             d == Delete(c, id)
  <2>1. Typed(c) /\ Backed(c) /\ Recording(c)
    BY DEF Sound
  <2>2. /\ rest = [field \in Fields |-> rest[field]]
        /\ rest.history = kept /\ rest.current = c.current /\ rest.managed = c.managed
        /\ rest.locked = c.locked /\ rest.pending = c.pending /\ rest.paused = c.paused
        /\ rest.nextItem = c.nextItem /\ rest.nextEpoch = c.nextEpoch
    BY <2>1 DEF Typed, Fields
  <2>3. d = CASE IsManaged(c) /\ c.current.item = id -> Withdraw(rest)
              [] IsExternal(c) /\ c.current.item = id -> [rest EXCEPT !.current.item = None]
              [] OTHER -> rest
    BY <1>2 DEF Delete
  <2>4. kept \in SUBSET c.history /\ \A item \in c.history : item.id # id => item \in kept
    OBVIOUS
  <2>5. c.nextEpoch \in Nat \ {0}
    BY <2>1 DEF Typed
  <2>6. c.pending # None => c.pending.epoch \in Nat
    BY <2>1 DEF Typed, AllCaptures
  <2> HIDE DEF rest, kept
  <2>7. CASE IsManaged(c) /\ c.current.item = id
    <3>1. d = Withdraw(rest)
      BY <2>3, <2>7 DEF IsManaged, IsExternal
    <3>2. /\ d = [field \in Fields |-> d[field]]
          /\ d.history = kept /\ d.current = Nobody /\ d.managed = None
          /\ d.locked = c.locked /\ d.pending = c.pending /\ d.paused = c.paused
          /\ d.nextItem = c.nextItem /\ d.nextEpoch = c.nextEpoch + 1
      BY <2>2, <3>1 DEF Withdraw, Fields
    <3> HIDE DEF d
    <3>3. Typed(d)
      BY <2>1, <2>4, <3>2 DEF Typed
    <3>4. Backed(d) /\ Recording(d)
      BY <2>1, <2>5, <2>6, <3>2 DEF Backed, Recording, IsManaged, IsExternal, Nobody
    <3> QED
      BY <2>4, <3>2, <3>3, <3>4, FewerEntries DEF Follows, Sound, d
  <2>8. CASE ~IsManaged(c) /\ IsExternal(c) /\ c.current.item = id
    <3>1. d = [rest EXCEPT !.current.item = None]
      BY <2>3, <2>8
    <3>2. c.current = [kind |-> "external", epoch |-> c.current.epoch, item |-> c.current.item]
          /\ c.current.epoch \in Nat
      BY <2>1, <2>8 DEF Typed, IsExternal, Nobody
    <3>3. /\ d = [field \in Fields |-> d[field]]
          /\ d.history = kept /\ d.current = [kind |-> "external", epoch |-> c.current.epoch, item |-> None]
          /\ d.managed = c.managed
          /\ d.locked = c.locked /\ d.pending = c.pending /\ d.paused = c.paused
          /\ d.nextItem = c.nextItem /\ d.nextEpoch = c.nextEpoch
      BY <2>2, <3>1, <3>2 DEF Fields
    <3> HIDE DEF d
    <3>4. Typed(d)
      BY <2>1, <2>4, <3>2, <3>3 DEF Typed
    <3>5. Backed(d) /\ Recording(d)
      BY <2>1, <2>8, <3>3 DEF Backed, Recording, IsManaged, IsExternal
    <3> QED
      BY <2>4, <3>3, <3>4, <3>5, FewerEntries DEF Follows, Sound, d
  <2>9. CASE ~(IsManaged(c) /\ c.current.item = id) /\ ~(IsExternal(c) /\ c.current.item = id)
    <3>1. d = rest
      BY <2>3, <2>9
    <3> HIDE DEF d
    <3>2. Typed(d)
      BY <2>1, <2>2, <2>4, <3>1 DEF Typed
    <3>3. Recording(d)
      BY <2>1, <2>2, <3>1 DEF Recording
    <3>4. Backed(d)
      BY <2>1, <2>2, <2>4, <2>9, <3>1 DEF Backed, IsManaged, IsExternal, Ids
    <3> QED
      BY <2>2, <2>4, <3>1, <3>2, <3>3, <3>4, FewerEntries DEF Follows, Sound, d
  <2> QED
    BY <2>7, <2>8, <2>9 DEF IsManaged, IsExternal
<1> QED
  BY <1>1, <1>2

\* clear_history keeps the pinned entries, and ends a capture.
LEMMA ClearHistorySound ==
    ASSUME NEW c, Sound(c)
    PROVE  LET d == ClearHistory(c)
           IN Follows(c, d) /\ d.locked = c.locked /\ (~c.locked => d.pending = None)
<1>1. CASE c.locked
  BY <1>1, Refused DEF ClearHistory
<1>2. CASE ~c.locked
  <2> DEFINE kept == {item \in c.history : item.pinned}
             rest == [c EXCEPT !.history = kept, !.pending = None]
             d == ClearHistory(c)
  <2>1. Typed(c) /\ Backed(c) /\ Numbered(c)
    BY DEF Sound
  <2>2. /\ rest = [field \in Fields |-> rest[field]]
        /\ rest.history = kept /\ rest.current = c.current /\ rest.managed = c.managed
        /\ rest.locked = c.locked /\ rest.pending = None /\ rest.paused = c.paused
        /\ rest.nextItem = c.nextItem /\ rest.nextEpoch = c.nextEpoch
    BY <2>1 DEF Typed, Fields
  <2>3. d = CASE IsManaged(c) /\ c.current.item \in Ids(rest) ->
                     [rest EXCEPT !.managed = HistoryItem(rest, c.current.item)]
              [] IsManaged(c) /\ c.current.item \notin Ids(rest) -> Withdraw(rest)
              [] IsExternal(c) /\ c.current.item \notin Ids(rest) ->
                     [rest EXCEPT !.current.item = None, !.managed = None]
              [] OTHER -> [rest EXCEPT !.managed = None]
    BY <1>2 DEF ClearHistory
  <2>4. kept \in SUBSET c.history
    OBVIOUS
  <2>5. c.nextEpoch \in Nat \ {0} /\ ~(IsManaged(c) /\ IsExternal(c))
    BY <2>1 DEF Typed, IsManaged, IsExternal
  <2> HIDE DEF rest, kept
  <2>6. CASE IsManaged(c) /\ c.current.item \in Ids(rest)
    <3> DEFINE item == HistoryItem(rest, c.current.item)
    <3>1. d = [rest EXCEPT !.managed = item]
      BY <2>3, <2>5, <2>6
    <3>2. item \in kept /\ item.id = c.current.item
      BY <2>2, <2>6 DEF HistoryItem, Ids
    <3> HIDE DEF item
    <3>3. /\ d = [field \in Fields |-> d[field]]
          /\ d.history = kept /\ d.current = c.current /\ d.managed = item
          /\ d.locked = c.locked /\ d.pending = None /\ d.paused = c.paused
          /\ d.nextItem = c.nextItem /\ d.nextEpoch = c.nextEpoch
      BY <2>2, <3>1 DEF Fields
    <3> HIDE DEF d
    <3>4. item \in AllItems /\ item # None
      BY <2>1, <2>4, <3>2, ClipboardNone DEF Typed
    <3>5. Typed(d)
      BY <2>1, <2>4, <3>3, <3>4 DEF Typed
    <3>6. Backed(d) /\ Recording(d)
      BY <2>1, <2>4, <2>5, <2>6, <3>2, <3>3, <3>4 DEF Backed, Recording, Numbered, IsManaged, IsExternal
    <3> QED
      BY <2>4, <3>2, <3>3, <3>5, <3>6, FewerEntries DEF Follows, Sound, d
  <2>7. CASE IsManaged(c) /\ c.current.item \notin Ids(rest)
    <3>1. d = Withdraw(rest)
      BY <2>3, <2>5, <2>7
    <3>2. /\ d = [field \in Fields |-> d[field]]
          /\ d.history = kept /\ d.current = Nobody /\ d.managed = None
          /\ d.locked = c.locked /\ d.pending = None /\ d.paused = c.paused
          /\ d.nextItem = c.nextItem /\ d.nextEpoch = c.nextEpoch + 1
      BY <2>2, <3>1 DEF Withdraw, Fields
    <3> HIDE DEF d
    <3>3. Typed(d)
      BY <2>1, <2>4, <3>2 DEF Typed
    <3>4. Backed(d) /\ Recording(d)
      BY <3>2 DEF Backed, Recording, IsManaged, IsExternal, Nobody
    <3> QED
      BY <2>4, <3>2, <3>3, <3>4, FewerEntries DEF Follows, Sound, d
  <2>8. CASE IsExternal(c) /\ c.current.item \notin Ids(rest)
    <3>1. d = [rest EXCEPT !.current.item = None, !.managed = None]
      BY <2>3, <2>5, <2>8
    <3>2. c.current = [kind |-> "external", epoch |-> c.current.epoch, item |-> c.current.item]
          /\ c.current.epoch \in Nat
      BY <2>1, <2>8 DEF Typed, IsExternal, Nobody
    <3> DEFINE cur == [kind |-> "external", epoch |-> c.current.epoch, item |-> None]
    <3>3. /\ d = [field \in Fields |-> d[field]]
          /\ d.history = kept /\ d.current = cur /\ d.managed = None
          /\ d.locked = c.locked /\ d.pending = None /\ d.paused = c.paused
          /\ d.nextItem = c.nextItem /\ d.nextEpoch = c.nextEpoch
      <4>1. [rest.current EXCEPT !.item = None] = cur
        BY <2>2, <3>2
      <4>2. d = [[rest EXCEPT !.current = [rest.current EXCEPT !.item = None]] EXCEPT !.managed = None]
        BY <2>2, <3>1 DEF Fields
      <4> HIDE DEF cur, d
      <4>3. d = [[rest EXCEPT !.current = cur] EXCEPT !.managed = None]
        BY <4>1, <4>2
      <4> QED
        BY <2>2, <4>3 DEF Fields
    <3> HIDE DEF d
    <3>4. Typed(d)
      BY <2>1, <2>4, <3>2, <3>3 DEF Typed
    <3>5. Backed(d) /\ Recording(d)
      BY <3>3 DEF Backed, Recording, IsManaged, IsExternal
    <3> QED
      BY <2>4, <3>3, <3>4, <3>5, FewerEntries DEF Follows, Sound, d
  <2>9. CASE ~IsManaged(c) /\ ~(IsExternal(c) /\ c.current.item \notin Ids(rest))
    <3>1. d = [rest EXCEPT !.managed = None]
      BY <2>3, <2>9
    <3>2. /\ d = [field \in Fields |-> d[field]]
          /\ d.history = kept /\ d.current = c.current /\ d.managed = None
          /\ d.locked = c.locked /\ d.pending = None /\ d.paused = c.paused
          /\ d.nextItem = c.nextItem /\ d.nextEpoch = c.nextEpoch
      BY <2>2, <3>1 DEF Fields
    <3> HIDE DEF d
    <3>3. Typed(d)
      BY <2>1, <2>4, <3>2 DEF Typed
    <3>4. Backed(d) /\ Recording(d)
      BY <2>2, <2>9, <3>2 DEF Backed, Recording, IsManaged, IsExternal, Ids
    <3> QED
      BY <2>4, <3>2, <3>3, <3>4, FewerEntries DEF Follows, Sound, d
  <2> QED
    BY <2>6, <2>7, <2>8, <2>9
<1> QED
  BY <1>1, <1>2 DEF Sound, Typed

\* set_paused and start_drag leave the history and the selection alone.
LEMMA SetPausedSound ==
    ASSUME NEW c, Sound(c), NEW paused \in BOOLEAN
    PROVE  LET d == SetPaused(c, paused)
           IN Follows(c, d) /\ d.locked = c.locked /\ (~c.locked /\ paused => d.pending = None)
<1>1. CASE c.locked \/ paused = c.paused
  BY <1>1, Refused DEF SetPaused, Sound, Recording
<1>2. CASE ~c.locked /\ paused # c.paused
  <2> DEFINE d == SetPaused(c, paused)
  <2>1. /\ d = [field \in Fields |-> d[field]]
        /\ d.history = c.history /\ d.current = c.current /\ d.managed = c.managed
        /\ d.locked = c.locked /\ d.paused = paused
        /\ d.pending = (IF paused THEN None ELSE c.pending)
        /\ d.nextItem = c.nextItem /\ d.nextEpoch = c.nextEpoch
    BY <1>2 DEF SetPaused, Sound, Typed, Fields
  <2> HIDE DEF d
  <2>2. Typed(d)
    BY <2>1 DEF Sound, Typed
  <2>3. Numbered(d) /\ Limited(d) /\ Recording(d)
    BY <2>1 DEF Sound, Numbered, Limited, Recording
  <2>4. Backed(d)
    BY <2>1 DEF Sound, Backed, IsManaged, IsExternal, Ids
  <2> QED
    BY <2>1, <2>2, <2>3, <2>4 DEF Follows, Sound, d
<1> QED
  BY <1>1, <1>2

\* What is taken from or added to the actions does not matter here.
LEMMA ActionsSound ==
    ASSUME NEW c, Sound(c), NEW actions
    PROVE  LET d == [c EXCEPT !.actions = actions]
           IN /\ Follows(c, d) /\ d.locked = c.locked /\ d.history = c.history
              /\ d.pending = c.pending /\ d.nextItem = c.nextItem /\ d.nextEpoch = c.nextEpoch
<1> DEFINE d == [c EXCEPT !.actions = actions]
<1>1. /\ d = [field \in Fields |-> d[field]]
      /\ d.history = c.history /\ d.current = c.current /\ d.managed = c.managed
      /\ d.locked = c.locked /\ d.paused = c.paused /\ d.pending = c.pending
      /\ d.nextItem = c.nextItem /\ d.nextEpoch = c.nextEpoch
  BY DEF Sound, Typed, Fields
<1> HIDE DEF d
<1>2. Typed(d)
  BY <1>1 DEF Sound, Typed
<1>3. Numbered(d) /\ Limited(d) /\ Recording(d)
  BY <1>1 DEF Sound, Numbered, Limited, Recording
<1>4. Backed(d)
  BY <1>1 DEF Sound, Backed, IsManaged, IsExternal, Ids
<1> QED
  BY <1>1, <1>2, <1>3, <1>4 DEF Follows, Sound, d

\* start_drag.
LEMMA QueueDragSound ==
    ASSUME NEW c, Sound(c), NEW id
    PROVE  Follows(c, QueueDrag(c, id)) /\ QueueDrag(c, id).locked = c.locked
<1>1. CASE c.locked \/ id \notin Ids(c)
  BY <1>1, Refused DEF QueueDrag
<1>2. CASE ~c.locked /\ id \in Ids(c)
  BY <1>2, ActionsSound DEF QueueDrag
<1> QED
  BY <1>1, <1>2

-----------------------------------------------------------------------------
(* Captures. *)

\* observe_external_selection: the capture it begins has the newest epoch.
LEMMA ObserveSound ==
    ASSUME NEW c, Sound(c), NEW offered \in BOOLEAN, NEW mimes \in SUBSET Mimes
    PROVE  LET d == Observe(c, offered, mimes)
           IN /\ Sound(d) /\ d.history = c.history
              /\ d.nextItem = c.nextItem /\ d.nextEpoch = c.nextEpoch + 1
              /\ d.pending # None => d.pending.epoch = c.nextEpoch
<1> DEFINE d == Observe(c, offered, mimes)
           begun == [epoch |-> c.nextEpoch, remaining |-> mimes, got |-> {}, content |-> None]
           cur == IF offered THEN External(c.nextEpoch, None) ELSE Nobody
<1>1. Typed(c) /\ Numbered(c) /\ Limited(c) /\ c.nextEpoch \in Nat \ {0}
  BY DEF Sound, Typed
<1>2. begun \in AllCaptures /\ begun # None /\ begun.epoch = c.nextEpoch /\ begun.got = {}
  BY <1>1, ClipboardNone DEF AllCaptures
<1>3. cur \in {Nobody, External(c.nextEpoch, None)}
  OBVIOUS
<1>4. /\ d = [field \in Fields |-> d[field]]
      /\ d.history = c.history /\ d.current = cur /\ d.managed = None
      /\ d.locked = c.locked /\ d.paused = c.paused
      /\ d.pending = None \/ (d.pending = begun /\ ~c.locked /\ ~c.paused)
      /\ d.nextItem = c.nextItem /\ d.nextEpoch = c.nextEpoch + 1
  BY <1>1 DEF Observe, Typed, Fields
<1> HIDE DEF d, begun, cur
<1>5. Typed(d)
  BY <1>1, <1>2, <1>3, <1>4 DEF Typed, External
<1>6. Numbered(d)
  <2>1. \A item \in c.history : item.from \in Nat
    BY <1>1 DEF Typed, AllItems
  <2> QED
    BY <1>1, <1>4, <2>1 DEF Numbered
<1>7. Limited(d) /\ Recording(d)
  BY <1>1, <1>2, <1>4 DEF Limited, Recording
<1>8. Backed(d)
  BY <1>3, <1>4 DEF Backed, IsManaged, IsExternal, Nobody, External
<1> QED
  BY <1>2, <1>4, <1>5, <1>6, <1>7, <1>8 DEF Sound, d

\* The capture in progress is given up.
LEMMA GivenUp ==
    ASSUME NEW c, Sound(c)
    PROVE  LET d == [c EXCEPT !.pending = None]
           IN /\ Sound(d) /\ d.pending = None /\ d.history = c.history
              /\ d.nextItem = c.nextItem /\ d.nextEpoch = c.nextEpoch
<1> DEFINE d == [c EXCEPT !.pending = None]
<1>1. /\ d = [field \in Fields |-> d[field]]
      /\ d.history = c.history /\ d.current = c.current /\ d.managed = c.managed
      /\ d.locked = c.locked /\ d.paused = c.paused /\ d.pending = None
      /\ d.nextItem = c.nextItem /\ d.nextEpoch = c.nextEpoch
  BY DEF Sound, Typed, Fields
<1> HIDE DEF d
<1>2. Typed(d)
  BY <1>1 DEF Sound, Typed
<1>3. Numbered(d) /\ Limited(d) /\ Recording(d)
  BY <1>1 DEF Sound, Numbered, Limited, Recording
<1>4. Backed(d)
  BY <1>1 DEF Sound, Backed, IsManaged, IsExternal, Ids
<1> QED
  BY <1>1, <1>2, <1>3, <1>4 DEF Sound, d

\* finalize_capture: the entry it inserts claims this capture.
LEMMA FinalizeSound ==
    ASSUME NEW c, Sound(c), c.pending = None, NEW capture \in AllCaptures,
           capture.epoch < c.nextEpoch, capture.got # {} => capture.content # None
    PROVE  LET d == Finalize(c, capture)
           IN /\ Sound(d) /\ d.pending = None
              /\ d.nextItem \in {c.nextItem, c.nextItem + 1} /\ d.nextEpoch = c.nextEpoch
              /\ \A item \in d.history :
                     item.from \in {capture.epoch} \cup {old.from : old \in c.history}
<1> DEFINE ends == c.locked \/ c.paused \/ ~IsExternal(c) \/ c.current.epoch # capture.epoch
                   \/ capture.got = {}
<1>1. CASE ends
  BY <1>1 DEF Finalize
<1>2. CASE ~ends
  <2> DEFINE item == NewItem(c, capture.content, capture.got, capture.epoch)
             kept == Inserted(c, item)
             new == Renewed(c, item)
             retained == \E entry \in kept : entry.id = new.id
             cur == [kind |-> "external", epoch |-> c.current.epoch,
                     item |-> IF retained THEN new.id ELSE None]
             d == Finalize(c, capture)
  <2>1. /\ Typed(c) /\ Numbered(c) /\ Backed(c)
        /\ c.nextItem \in Nat \ {0} /\ c.nextEpoch \in Nat \ {0}
    BY DEF Sound, Typed
  <2>2. item \in AllItems /\ item.id = c.nextItem /\ item.from = capture.epoch
    BY <1>2, <2>1 DEF NewItem, AllItems, AllCaptures
  <2>3. IsExternal(c) /\ ~IsManaged(c) /\ c.managed = None
    BY <1>2, <2>1 DEF Backed, IsExternal, IsManaged
  <2>4. /\ c.current = [kind |-> "external", epoch |-> c.current.epoch, item |-> c.current.item]
        /\ c.current.epoch \in Nat
    BY <2>1, <2>3 DEF Typed, IsExternal, Nobody
  <2>5. d = [c EXCEPT !.nextItem = @ + 1, !.history = kept,
                      !.current.item = IF retained THEN new.id ELSE None]
    BY <1>2 DEF Finalize
  <2> HIDE DEF item
  <2>6. /\ new \in AllItems /\ new.from = capture.epoch /\ 0 < new.id /\ new.id <= c.nextItem
        /\ \A entry \in kept : entry = new \/ (entry \in c.history /\ entry.id # new.id)
        /\ IsFiniteSet(kept) /\ Cardinality(kept) <= MaxHistory
    BY <2>2, InsertedFacts
  <2> HIDE DEF kept, new
  <2>7. new.id \in Nat /\ kept \in SUBSET AllItems
    BY <2>1, <2>6 DEF Typed, AllItems
  <2>8. /\ d = [field \in Fields |-> d[field]]
        /\ d.history = kept /\ d.current = cur /\ d.managed = None
        /\ d.locked = c.locked /\ d.paused = c.paused /\ d.pending = None
        /\ d.nextItem = c.nextItem + 1 /\ d.nextEpoch = c.nextEpoch
    <3> DEFINE mine == IF retained THEN new.id ELSE None
    <3>1. d = [c EXCEPT !.nextItem = c.nextItem + 1, !.history = kept, !.current.item = mine]
      BY <2>5
    <3>2. [c.current EXCEPT !.item = mine] = cur
      BY <2>4
    <3> HIDE DEF mine, cur, d
    <3>3. d = [[[c EXCEPT !.nextItem = c.nextItem + 1] EXCEPT !.history = kept]
                  EXCEPT !.current = [c.current EXCEPT !.item = mine]]
      BY <2>1, <3>1 DEF Typed, Fields
    <3>4. d = [[[c EXCEPT !.nextItem = c.nextItem + 1] EXCEPT !.history = kept]
                  EXCEPT !.current = cur]
      BY <3>2, <3>3
    <3> QED
      BY <2>1, <2>3, <3>4 DEF Typed, Fields
  <2>9. cur \in [kind : {"external"}, epoch : Nat, item : Nat \cup {None}] /\ cur.kind = "external"
    BY <2>4, <2>7
  <2>10. cur.item # None => \E entry \in kept : entry.id = cur.item
    OBVIOUS
  <2> HIDE DEF d, cur
  <2>11. Typed(d) /\ Limited(d) /\ Recording(d)
    BY <2>1, <2>6, <2>7, <2>8, <2>9 DEF Typed, Limited, Recording
  <2>12. Numbered(d)
    <3>1. \A entry \in c.history : entry.id \in Nat /\ entry.from \in Nat
      BY <2>1 DEF Typed, AllItems
    <3>2. capture.epoch \in Nat
      BY DEF AllCaptures
    <3> QED
      BY <2>1, <2>6, <2>7, <2>8, <3>1, <3>2 DEF Numbered
  <2>13. Backed(d)
    BY <2>8, <2>9, <2>10 DEF Backed, IsManaged, IsExternal, Ids
  <2>14. \A entry \in d.history : entry.from \in {capture.epoch} \cup {old.from : old \in c.history}
    BY <2>6, <2>8
  <2> QED
    BY <2>8, <2>11, <2>12, <2>13, <2>14 DEF Sound, d
<1> QED
  BY <1>1, <1>2

\* What the end of a reader makes of c: the capture goes on, or it ends and
\* gives out at most one id, for an entry that claims it.
Captured(c, d) ==
    /\ Sound(d) /\ d.nextEpoch = c.nextEpoch
    /\ \/ d.pending = c.pending /\ d.nextItem = c.nextItem
       \/ /\ c.pending # None /\ d.pending # None /\ d.pending.epoch = c.pending.epoch
          /\ d.nextItem = c.nextItem
       \/ c.pending # None /\ d.pending = None /\ d.nextItem \in {c.nextItem, c.nextItem + 1}
    /\ \A item \in d.history : \/ item.from \in {old.from : old \in c.history}
                               \/ c.pending # None /\ item.from = c.pending.epoch

\* finish_capture.
LEMMA FinishCaptureSound ==
    ASSUME NEW c, Sound(c), NEW epoch, NEW mime, NEW content \in Contents \cup {None}
    PROVE  Captured(c, FinishCapture(c, epoch, mime, content))
<1> DEFINE ignored == ~CaptureIsCurrent(c, epoch) \/ mime \notin c.pending.remaining
<1>1. CASE ignored
  BY <1>1 DEF FinishCapture, Captured
<1>2. CASE ~ignored
  <2> DEFINE read == content # None
             capture == [c.pending EXCEPT !.remaining = @ \ {mime},
                                          !.got = IF read THEN @ \cup {mime} ELSE @,
                                          !.content = IF read THEN content ELSE @]
             d == FinishCapture(c, epoch, mime, content)
  <2>1. c.pending # None /\ c.pending \in AllCaptures /\ mime \in c.pending.remaining
    BY <1>2 DEF CaptureIsCurrent, Sound, Typed
  <2>2. /\ ~c.locked /\ ~c.paused /\ c.pending.epoch < c.nextEpoch
        /\ c.pending.got # {} => c.pending.content # None
    BY <2>1 DEF Sound, Recording
  <2>3. /\ capture \in AllCaptures /\ capture.epoch = c.pending.epoch
        /\ capture.got # {} => capture.content # None
    BY <2>1, <2>2 DEF AllCaptures
  <2>4. d = IF capture.remaining # {} THEN [c EXCEPT !.pending = capture]
            ELSE Finalize([c EXCEPT !.pending = None], capture)
    BY <1>2 DEF FinishCapture
  <2> HIDE DEF capture
  <2>5. CASE capture.remaining # {}
    <3>1. /\ d = [field \in Fields |-> d[field]]
          /\ d.history = c.history /\ d.current = c.current /\ d.managed = c.managed
          /\ d.locked = c.locked /\ d.paused = c.paused /\ d.pending = capture
          /\ d.nextItem = c.nextItem /\ d.nextEpoch = c.nextEpoch
      BY <2>4, <2>5 DEF Sound, Typed, Fields
    <3> HIDE DEF d
    <3>2. Typed(d)
      BY <2>3, <3>1 DEF Sound, Typed
    <3>3. Numbered(d) /\ Limited(d) /\ Recording(d)
      BY <2>2, <2>3, <3>1 DEF Sound, Numbered, Limited, Recording
    <3>4. Backed(d)
      BY <3>1 DEF Sound, Backed, IsManaged, IsExternal, Ids
    <3>5. capture # None
      BY <2>3, ClipboardNone
    <3> QED
      BY <2>1, <2>3, <3>1, <3>2, <3>3, <3>4, <3>5 DEF Captured, Sound, d
  <2>6. CASE capture.remaining = {}
    <3> DEFINE rest == [c EXCEPT !.pending = None]
    <3>1. /\ Sound(rest) /\ rest.pending = None /\ rest.history = c.history
          /\ rest.nextItem = c.nextItem /\ rest.nextEpoch = c.nextEpoch
      BY GivenUp
    <3>2. d = Finalize(rest, capture)
      BY <2>4, <2>6
    <3> HIDE DEF rest, d
    <3> QED
      BY <2>1, <2>2, <2>3, <3>1, <3>2, FinalizeSound DEF Captured, d
  <2> QED
    BY <2>5, <2>6
<1> QED
  BY <1>1, <1>2

-----------------------------------------------------------------------------
(* The clipboard at work. *)

\* Every epoch and every id was paid for with an event; a capture in progress
\* may still take one id.
Counted ==
    /\ clip.nextItem + (IF clip.pending # None THEN 1 ELSE 0) <= events + 1
    /\ clip.nextEpoch <= events + 1

\* Nothing has overtaken the capture in progress.
Untouched ==
    /\ recordable \in Nat \ {0} /\ recordable <= clip.nextEpoch
    /\ clip.pending # None => recordable <= clip.pending.epoch

Surroundings ==
    /\ secure \in BOOLEAN
    /\ seat \in Sources \cup {Unowned} \cup {Retained(item) : item \in ItemIds}
    /\ scheduled \subseteq Epochs /\ deferred \in Epochs \cup {None}
    /\ readers \subseteq [epoch : Epochs, mime : Mimes, content : Contents]
    /\ unstarted \in Epochs \cup {0}
    /\ events \in 0..MaxEvents /\ locks \in 0..MaxLocks

ClipboardInv == Sound(clip) /\ Counted /\ Untouched /\ Surroundings

\* What OvertakenIsNotRecorded says of a step.
StaysOut ==
    \A item \in clip'.history :
        item.from \in {0} \cup {old.from : old \in clip.history} \cup {e \in Epochs : e >= recordable}

\* It starts empty, with nothing given out.
LEMMA InitClipboard == Init => ClipboardInv
<1> SUFFICES ASSUME Init PROVE ClipboardInv
  OBVIOUS
<1>0. /\ clip = [field \in Fields |-> clip[field]]
      /\ clip.history = {} /\ clip.current = Nobody /\ clip.managed = None /\ clip.pending = None
      /\ clip.paused \in BOOLEAN /\ clip.locked \in BOOLEAN
      /\ clip.nextItem = 1 /\ clip.nextEpoch = 1
  BY DEF Init, Empty, Fields
<1>1. Typed(clip)
  BY <1>0 DEF Typed
<1>2. Numbered(clip) /\ Backed(clip) /\ Recording(clip)
  BY <1>0 DEF Numbered, Backed, Recording, IsManaged, IsExternal, Nobody
<1>3. Limited(clip)
  BY <1>0, FS_EmptySet, ClipboardAssumption DEF Limited
<1>4. Counted /\ Untouched
  BY <1>0 DEF Init, Counted, Untouched
<1>5. Surroundings
  <2>1. secure \in BOOLEAN
    BY Zenon DEF Init
  <2> QED
    BY <2>1, EventsAssumption DEF Init, Surroundings
<1> QED
  BY <1>1, <1>2, <1>3, <1>4, <1>5 DEF ClipboardInv, Sound

\* A message of the shell: the clipboard is told of the lock, and then does
\* what it is asked.  One that overtakes a capture ends it.
LEMMA CommandKeeps ==
    ASSUME ClipboardInv, NEW after, NEW overtakes \in BOOLEAN, Command(after, overtakes),
           Follows(Told, after), overtakes /\ ~secure => after.pending = None
    PROVE  ClipboardInv' /\ StaysOut
<1>1. /\ Sound(clip) /\ secure \in BOOLEAN
      /\ clip.nextItem \in Nat \ {0} /\ clip.nextEpoch \in Nat \ {0}
      /\ clip.pending # None => clip.pending.epoch \in Nat
  BY DEF ClipboardInv, Sound, Surroundings, Typed, AllCaptures
<1>2. /\ Told.history = clip.history /\ Told.nextItem = clip.nextItem
      /\ Told.nextEpoch = clip.nextEpoch
      /\ Told.pending = (IF secure = clip.locked THEN clip.pending ELSE None)
  BY <1>1, SetLockedSound DEF Told
<1>3. /\ \/ after.pending = None /\ after.nextItem \in {clip.nextItem, clip.nextItem + 1}
         \/ after.pending = clip.pending /\ after.nextItem = clip.nextItem
      /\ after.nextEpoch \in {clip.nextEpoch, clip.nextEpoch + 1}
      /\ Sound(after)
      /\ clip.locked # secure => after.pending = None
      /\ \A item \in after.history : item.from \in {0} \cup {old.from : old \in clip.history}
  BY <1>2 DEF Follows
<1>4. /\ clip' = after /\ events' = events + 1 /\ events < MaxEvents
      /\ recordable' = IF (overtakes /\ ~secure) \/ clip.locked # secure
                       THEN after.nextEpoch ELSE recordable
      /\ UNCHANGED <<seat, scheduled, deferred, readers, unstarted, taken, secure, locks>>
  BY DEF Command, Event, captureVars
<1>5. events \in Nat /\ MaxEvents \in Nat
  BY EventsAssumption DEF ClipboardInv, Surroundings
<1>6. Counted'
  BY <1>1, <1>3, <1>4, <1>5 DEF ClipboardInv, Counted
<1>7. Untouched'
  BY <1>1, <1>3, <1>4 DEF ClipboardInv, Untouched
<1>8. Surroundings'
  BY <1>4, <1>5 DEF ClipboardInv, Surroundings
<1>9. StaysOut
  BY <1>3, <1>4 DEF StaysOut
<1> QED
  BY <1>3, <1>4, <1>6, <1>7, <1>8, <1>9 DEF ClipboardInv

\* A new selection: the capture it begins is the first that may be recorded.
LEMMA ObservesKeeps ==
    ASSUME ClipboardInv, Event, NEW offered \in BOOLEAN, NEW mimes \in SUBSET Mimes,
           Observes(offered, mimes), seat' \in Sources \cup {Unowned}, UNCHANGED <<secure, locks>>
    PROVE  ClipboardInv' /\ StaysOut
<1>1. /\ Sound(clip) /\ clip.nextItem \in Nat \ {0} /\ clip.nextEpoch \in Nat \ {0}
      /\ clip.nextEpoch <= events + 1 /\ clip.nextItem <= events + 1
  <2>1. /\ Sound(clip) /\ clip.nextItem \in Nat \ {0} /\ clip.nextEpoch \in Nat \ {0}
        /\ events \in Nat
    BY DEF ClipboardInv, Sound, Typed, Surroundings
  <2> QED
    BY <2>1 DEF ClipboardInv, Counted
<1>2. /\ Sound(clip') /\ clip'.history = clip.history
      /\ clip'.nextItem = clip.nextItem /\ clip'.nextEpoch = clip.nextEpoch + 1
      /\ clip'.pending # None => clip'.pending.epoch = clip.nextEpoch
  BY <1>1, ObserveSound DEF Observes
<1>3. events \in Nat /\ MaxEvents \in Nat /\ events' = events + 1 /\ events < MaxEvents
  BY EventsAssumption DEF ClipboardInv, Surroundings, Event
<1>4. clip.nextEpoch \in Epochs
  BY <1>1, <1>3 DEF Epochs
<1>5. Counted'
  BY <1>1, <1>2, <1>3 DEF Counted
<1>6. Untouched'
  BY <1>1, <1>2 DEF Untouched, Observes, Overtakes
<1>7. Surroundings'
  <2>1. scheduled' \subseteq Epochs /\ deferred' \in Epochs \cup {None} /\ readers' = {}
        /\ unstarted' = unstarted
    BY <1>4 DEF Observes, ClipboardInv, Surroundings
  <2> QED
    BY <1>3, <2>1 DEF ClipboardInv, Surroundings
<1>8. StaysOut
  BY <1>2 DEF StaysOut
<1> QED
  BY <1>2, <1>5, <1>6, <1>7, <1>8 DEF ClipboardInv

\* A step that leaves the clipboard alone.
LEMMA AloneKeeps ==
    ASSUME ClipboardInv, clip' = clip, recordable' = recordable,
           events' \in {events, events + 1}, Surroundings'
    PROVE  ClipboardInv' /\ StaysOut
<1>1. events \in Nat /\ clip.nextItem \in Nat /\ clip.nextEpoch \in Nat
  BY DEF ClipboardInv, Surroundings, Sound, Typed
<1>2. Counted'
  BY <1>1 DEF ClipboardInv, Counted
<1>3. Untouched' /\ Sound(clip)'
  BY DEF ClipboardInv, Untouched
<1>4. StaysOut
  BY DEF StaysOut
<1> QED
  BY <1>2, <1>3, <1>4 DEF ClipboardInv

\* Every step keeps the invariant, and what has been overtaken out.
LEMMA NextClipboard ==
    ASSUME ClipboardInv, [Next]_vars
    PROVE  ClipboardInv' /\ StaysOut
<1>0. /\ Sound(clip) /\ secure \in BOOLEAN /\ Sound(Told) /\ Told.locked = secure
      /\ Told.history = clip.history
  <2>1. Sound(clip) /\ secure \in BOOLEAN
    BY DEF ClipboardInv, Surroundings
  <2> QED
    BY <2>1, SetLockedSound DEF Told, Follows
<1>t. /\ events \in 0..MaxEvents /\ MaxEvents \in Nat /\ locks \in 0..MaxLocks /\ MaxLocks \in Nat
      /\ clip.nextItem \in Nat \ {0} /\ clip.nextEpoch \in Nat \ {0}
      /\ clip.pending # None => clip.pending \in AllCaptures /\ clip.pending.epoch \in Nat
  BY EventsAssumption DEF ClipboardInv, Surroundings, Sound, Typed, AllCaptures
<1>1. CASE WaylandSelects
  <2>1. PICK new \in {source \in Sources : source.by = "wayland"} \cup {Unowned},
             mimes \in SUBSET Mimes :
               /\ seat' = new
               /\ IF secure THEN UNCHANGED <<clip, captureVars, recordable>>
                  ELSE Observes(new # Unowned, mimes)
    BY <1>1 DEF WaylandSelects
  <2>2. Event /\ UNCHANGED <<secure, locks>> /\ seat' \in Sources \cup {Unowned}
    BY <1>1, <2>1 DEF WaylandSelects
  <2>3. CASE ~secure
    <3>1. Observes(new # Unowned, mimes) /\ (new # Unowned) \in BOOLEAN
      BY <2>1, <2>3
    <3> QED
      BY <2>2, <3>1, ObservesKeeps
  <2>4. CASE secure
    <3>1. UNCHANGED <<clip, scheduled, deferred, readers, unstarted, recordable>>
      BY <2>1, <2>4 DEF captureVars
    <3>2. events' = events + 1 /\ events < MaxEvents
      BY <2>2 DEF Event
    <3>3. Surroundings'
      BY <1>t, <2>2, <3>1, <3>2 DEF ClipboardInv, Surroundings
    <3> QED
      BY <3>1, <3>2, <3>3, AloneKeeps
  <2> QED
    BY <1>0, <2>3, <2>4
<1>2. CASE X11Selects
  <2>1. PICK content \in Contents, mimes \in SUBSET Mimes \ {{}} :
               Observes(TRUE, mimes) /\ seat' = [by |-> "x11", content |-> content]
    BY <1>2 DEF X11Selects
  <2>2. Event /\ UNCHANGED <<secure, locks>> /\ seat' \in Sources \cup {Unowned}
    BY <1>2, <2>1 DEF X11Selects, Sources
  <2> QED
    BY <2>1, <2>2, ObservesKeeps
<1>3. CASE X11Clears
  <2>1. /\ Event /\ UNCHANGED <<secure, locks>> /\ seat' \in Sources \cup {Unowned}
        /\ Observes(FALSE, {})
    BY <1>3 DEF X11Clears
  <2> QED
    BY <2>1, ObservesKeeps
<1>4. CASE ReleaseDeferred
  <2>1. Surroundings'
    BY <1>4 DEF ReleaseDeferred, ClipboardInv, Surroundings
  <2> QED
    BY <1>4, <2>1, AloneKeeps DEF ReleaseDeferred
<1>5. CASE StartCapture
  <2>1. PICK epoch \in scheduled :
           /\ scheduled' = scheduled \ {epoch}
           /\ IF ~CaptureIsCurrent(clip, epoch)
              THEN UNCHANGED <<clip, readers, unstarted, events>>
              ELSE IF seat \notin Sources
              THEN /\ clip' = [clip EXCEPT !.pending = None]
                   /\ UNCHANGED <<readers, unstarted, events>>
              ELSE \E failing \in SUBSET clip.pending.remaining :
                      /\ readers' = readers \cup
                             [epoch : {epoch}, mime : clip.pending.remaining \ failing,
                              content : {seat.content}]
                      /\ IF failing = {} THEN UNCHANGED <<unstarted, events>>
                         ELSE unstarted' = epoch /\ Event
                      /\ UNCHANGED clip
    BY <1>5 DEF StartCapture
  <2>2. UNCHANGED <<seat, deferred, secure, recordable, locks>> /\ epoch \in Epochs
        /\ scheduled' \subseteq Epochs
    BY <1>5, <2>1 DEF StartCapture, ClipboardInv, Surroundings
  <2>3. CASE ~CaptureIsCurrent(clip, epoch)
    <3>1. Surroundings'
      BY <2>1, <2>2, <2>3 DEF ClipboardInv, Surroundings
    <3> QED
      BY <2>1, <2>2, <2>3, <3>1, AloneKeeps
  <2>4. CASE CaptureIsCurrent(clip, epoch) /\ seat \notin Sources
    <3>1. clip' = [clip EXCEPT !.pending = None] /\ UNCHANGED <<readers, unstarted, events>>
      BY <2>1, <2>4
    <3>2. Surroundings'
      BY <2>2, <3>1 DEF ClipboardInv, Surroundings
    <3>3. /\ Sound(clip') /\ clip'.pending = None /\ clip'.history = clip.history
          /\ clip'.nextItem = clip.nextItem /\ clip'.nextEpoch = clip.nextEpoch
      BY <1>0, <3>1, GivenUp
    <3>4. Counted' /\ Untouched' /\ StaysOut
      BY <1>t, <2>2, <3>1, <3>3 DEF ClipboardInv, Counted, Untouched, StaysOut
    <3> QED
      BY <3>2, <3>3, <3>4 DEF ClipboardInv
  <2>5. CASE CaptureIsCurrent(clip, epoch) /\ seat \in Sources
    <3>1. PICK failing \in SUBSET clip.pending.remaining :
                      /\ readers' = readers \cup
                             [epoch : {epoch}, mime : clip.pending.remaining \ failing,
                              content : {seat.content}]
                      /\ IF failing = {} THEN UNCHANGED <<unstarted, events>>
                         ELSE unstarted' = epoch /\ Event
                      /\ UNCHANGED clip
      BY <2>1, <2>5
    <3>2. clip.pending.remaining \in SUBSET Mimes /\ seat.content \in Contents
      BY <1>t, <2>5 DEF CaptureIsCurrent, AllCaptures, Sources
    <3>3. readers' \subseteq [epoch : Epochs, mime : Mimes, content : Contents]
      BY <2>2, <3>1, <3>2 DEF ClipboardInv, Surroundings
    <3>4. events' \in {events, events + 1} /\ events' \in 0..MaxEvents
          /\ unstarted' \in Epochs \cup {0}
      BY <1>t, <2>2, <3>1 DEF Event, ClipboardInv, Surroundings
    <3>5. Surroundings'
      BY <2>2, <3>3, <3>4 DEF ClipboardInv, Surroundings
    <3> QED
      BY <2>2, <3>1, <3>4, <3>5, AloneKeeps
  <2> QED
    BY <2>3, <2>4, <2>5
<1>6. CASE ReaderEnds
  <2>1. PICK reader \in readers :
           /\ readers' = readers \ {reader}
           /\ \E content \in {reader.content, None} : clip' = Finished(reader, content)
    BY <1>6 DEF ReaderEnds
  <2>2. PICK content \in {reader.content, None} : clip' = Finished(reader, content)
    BY <2>1
  <2>3. content \in Contents \cup {None}
    BY <2>2 DEF ClipboardInv, Surroundings
  <2>4. Captured(clip, clip')
    BY <1>0, <2>2, <2>3, FinishCaptureSound DEF Finished
  <2>5. UNCHANGED <<seat, scheduled, deferred, unstarted, secure, recordable, events, locks>>
    BY <1>6 DEF ReaderEnds
  <2>6. Surroundings'
    BY <2>1, <2>5 DEF ClipboardInv, Surroundings
  <2>7. Counted'
    BY <1>t, <2>4, <2>5 DEF ClipboardInv, Counted, Captured
  <2>8. Untouched'
    BY <1>t, <2>4, <2>5 DEF ClipboardInv, Untouched, Captured
  <2>9. StaysOut
    <3>1. clip.pending # None => clip.pending.epoch \in {e \in Epochs : e >= recordable}
      <4> SUFFICES ASSUME clip.pending # None
                   PROVE  clip.pending.epoch \in Epochs /\ clip.pending.epoch >= recordable
        OBVIOUS
      <4>1. /\ recordable \in Nat \ {0} /\ recordable <= clip.pending.epoch
            /\ clip.pending.epoch < clip.nextEpoch /\ clip.nextEpoch <= events + 1
            /\ clip.pending.epoch \in Nat
        BY <1>t DEF ClipboardInv, Untouched, Counted, Sound, Recording
      <4> QED
        BY <1>t, <4>1 DEF Epochs
    <3> QED
      BY <2>4, <3>1 DEF Captured, StaysOut
  <2> QED
    BY <2>4, <2>6, <2>7, <2>8, <2>9 DEF ClipboardInv, Captured
<1>7. CASE ShellSetsText
  <2>1. PICK content \in Contents : Command(SetManaged(Told, content, "text"), TRUE)
    BY <1>7 DEF ShellSetsText
  <2>2. /\ Follows(Told, SetManaged(Told, content, "text"))
        /\ ~secure => SetManaged(Told, content, "text").pending = None
    BY <1>0, SetManagedSound DEF Mimes
  <2> QED
    BY <2>1, <2>2, CommandKeeps
<1>8. CASE ShellActivates
  <2>1. PICK id \in Ids(clip) : Command(Activate(Told, id), TRUE)
    BY <1>8 DEF ShellActivates
  <2>2. id \in Ids(Told)
    BY <1>0 DEF Ids
  <2>3. Follows(Told, Activate(Told, id)) /\ (~secure => Activate(Told, id).pending = None)
    BY <1>0, <2>2, ActivateSound
  <2> QED
    BY <2>1, <2>3, CommandKeeps
<1>9. CASE ShellPins
  <2>1. PICK id \in Ids(clip), pinned \in BOOLEAN : Command(SetPinned(Told, id, pinned), FALSE)
    BY <1>9 DEF ShellPins
  <2> QED
    BY <1>0, <2>1, SetPinnedSound, CommandKeeps
<1>10. CASE ShellDeletes
  <2>1. PICK id \in Ids(clip) : Command(Delete(Told, id), FALSE)
    BY <1>10 DEF ShellDeletes
  <2> QED
    BY <1>0, <2>1, DeleteSound, CommandKeeps
<1>11. CASE ShellClears
  <2>1. Command(ClearHistory(Told), TRUE)
    BY <1>11 DEF ShellClears
  <2>2. Follows(Told, ClearHistory(Told)) /\ (~secure => ClearHistory(Told).pending = None)
    BY <1>0, ClearHistorySound
  <2> QED
    BY <2>1, <2>2, CommandKeeps
<1>12. CASE ShellPauses
  <2>1. PICK paused \in BOOLEAN : Command(SetPaused(Told, paused), paused)
    BY <1>12 DEF ShellPauses
  <2>2. /\ Follows(Told, SetPaused(Told, paused))
        /\ paused /\ ~secure => SetPaused(Told, paused).pending = None
    BY <1>0, SetPausedSound
  <2> QED
    BY <2>1, <2>2, CommandKeeps
<1>13. CASE ShellDrags
  <2>1. PICK id \in Ids(clip) : Command(QueueDrag(Told, id), FALSE)
    BY <1>13 DEF ShellDrags
  <2> QED
    BY <1>0, <2>1, QueueDragSound, CommandKeeps
<1>14. CASE WorkerSetsImage
  <2>1. PICK content \in Contents : clip' = SetManaged(clip, content, "image")
    BY <1>14 DEF WorkerSetsImage
  <2>2. Follows(clip, clip') /\ (~clip.locked => clip'.pending = None)
    BY <1>0, <2>1, SetManagedSound DEF Mimes
  <2>3. /\ events' = events + 1 /\ events < MaxEvents
        /\ recordable' = IF clip.locked THEN recordable ELSE clip'.nextEpoch
        /\ UNCHANGED <<seat, scheduled, deferred, readers, unstarted, secure, locks>>
    BY <1>14 DEF WorkerSetsImage, Event, captureVars
  <2>4. Surroundings'
    BY <1>t, <2>3 DEF ClipboardInv, Surroundings
  <2>5. Counted'
    BY <1>t, <2>2, <2>3 DEF ClipboardInv, Counted, Follows
  <2>6. Untouched'
    BY <1>t, <2>2, <2>3 DEF ClipboardInv, Untouched, Follows
  <2>7. StaysOut
    BY <2>2 DEF StaysOut, Follows
  <2> QED
    BY <2>2, <2>4, <2>5, <2>6, <2>7 DEF ClipboardInv, Follows
<1>15. CASE Locks
  <2>1. Surroundings'
    BY <1>t, <1>15 DEF Locks, ClipboardInv, Surroundings, captureVars
  <2> QED
    BY <1>15, <2>1, AloneKeeps DEF Locks
<1>16. CASE Synchronize
  <2>1. /\ clip' = [Told EXCEPT !.actions = <<>>]
        /\ recordable' = IF clip.locked # secure THEN clip.nextEpoch ELSE recordable
        /\ readers' \subseteq readers /\ deferred' \in {deferred, None}
        /\ UNCHANGED <<seat, scheduled, unstarted, secure, events, locks>>
    BY <1>16 DEF Synchronize
  <2>2. /\ Sound(clip') /\ clip'.history = clip.history
        /\ clip'.nextItem = clip.nextItem /\ clip'.nextEpoch = clip.nextEpoch
        /\ clip'.pending = (IF secure = clip.locked THEN clip.pending ELSE None)
    <3>1. /\ Told.nextItem = clip.nextItem /\ Told.nextEpoch = clip.nextEpoch
          /\ Told.pending = (IF secure = clip.locked THEN clip.pending ELSE None)
      BY <1>0, SetLockedSound DEF Told
    <3> QED
      BY <1>0, <2>1, <3>1, ActionsSound DEF Follows
  <2>3. Surroundings'
    BY <2>1 DEF ClipboardInv, Surroundings
  <2>4. Counted' /\ Untouched'
    BY <1>t, <2>1, <2>2 DEF ClipboardInv, Counted, Untouched
  <2>5. StaysOut
    BY <2>2 DEF StaysOut
  <2> QED
    BY <2>2, <2>3, <2>4, <2>5 DEF ClipboardInv
<1>17. CASE ApplyAction
  <2> DEFINE action == Head(taken)
  <2>1. /\ seat' = CASE action.do = "publish" /\ MayPublish(clip, action) -> Retained(action.item)
                     [] action.do = "clear" /\ seat.by = "history" -> Unowned
                     [] OTHER -> seat
        /\ UNCHANGED <<clip, scheduled, deferred, readers, unstarted, secure, recordable, events, locks>>
    BY <1>17 DEF ApplyAction, captureVars
  <2> HIDE DEF action
  <2>2. MayPublish(clip, action) => action.item \in ItemIds
    <3> SUFFICES ASSUME MayPublish(clip, action) PROVE action.item \in ItemIds
      OBVIOUS
    <3>1. IsManaged(clip) /\ clip.current.item = action.item
      BY DEF MayPublish, Managed, IsManaged
    <3>2. clip.managed \in AllItems /\ clip.managed.id = action.item /\ clip.managed # None
      BY <1>0, <3>1 DEF Sound, Backed, Typed
    <3>3. 0 < action.item /\ action.item < clip.nextItem /\ action.item \in Nat
      BY <1>0, <3>2 DEF Sound, Numbered, AllItems
    <3>4. clip.nextItem <= events + 1
      BY <1>t DEF ClipboardInv, Counted
    <3> QED
      BY <1>t, <3>3, <3>4 DEF ItemIds
  <2>3. \/ seat' = Retained(action.item) /\ action.item \in ItemIds
        \/ seat' \in {Unowned, seat}
    BY <2>1, <2>2
  <2>4. Surroundings'
    BY <2>1, <2>3 DEF ClipboardInv, Surroundings
  <2> QED
    BY <2>1, <2>4, AloneKeeps
<1>18. CASE UNCHANGED vars
  <2>1. Surroundings'
    BY <1>18 DEF vars, captureVars, ClipboardInv, Surroundings
  <2> QED
    BY <1>18, <2>1, AloneKeeps DEF vars
<1> QED
  BY <1>1, <1>2, <1>3, <1>4, <1>5, <1>6, <1>7, <1>8, <1>9, <1>10, <1>11, <1>12, <1>13, <1>14,
     <1>15, <1>16, <1>17, <1>18 DEF Next

\* The invariant holds throughout.
LEMMA ClipboardIsSound == Spec => []ClipboardInv
<1>1. ClipboardInv /\ [Next]_vars => ClipboardInv'
  BY NextClipboard
<1> QED
  BY InitClipboard, <1>1, PTL DEF Spec

\* The invariant gives the types and the limit of the history.
LEMMA InvTypeOK == ClipboardInv => TypeOK
<1> SUFFICES ASSUME ClipboardInv PROVE TypeOK
  OBVIOUS
<1>1. /\ Typed(clip) /\ Numbered(clip) /\ Limited(clip)
      /\ clip.nextItem \in Nat /\ clip.nextEpoch \in Nat /\ events \in 0..MaxEvents
      /\ MaxEvents \in Nat
  BY EventsAssumption DEF ClipboardInv, Sound, Typed, Surroundings
<1>2. clip.nextItem <= MaxEvents + 1 /\ clip.nextEpoch <= MaxEvents + 1
  BY <1>1 DEF ClipboardInv, Counted
<1>3. ASSUME NEW item \in AllItems, 0 < item.id, item.id < clip.nextItem, item.from < clip.nextEpoch
      PROVE  item \in Entries
  <2>1. item.id \in ItemIds /\ item.from \in 0..(MaxEvents + 1)
    BY <1>1, <1>2, <1>3 DEF AllItems, ItemIds
  <2> QED
    BY <2>1 DEF AllItems, Entries
<1>4. clip.history \subseteq Entries /\ clip.managed \in Entries \cup {None}
  BY <1>1, <1>3 DEF Typed, Numbered
<1>5. recordable \in Epochs
  BY <1>1, <1>2 DEF ClipboardInv, Untouched, Epochs
<1> QED
  BY <1>1, <1>4, <1>5 DEF TypeOK, ClipboardInv, Surroundings, Limited, Numbered, Typed

\* Types; the history keeps to its limit (enforce_limits) and its ids differ,
\* whatever is captured, set, pinned, deleted or cleared.
THEOREM ClipboardTypes == Spec => []TypeOK
BY ClipboardIsSound, InvTypeOK, PTL

\* The current selection is backed by what is retained, for any number of
\* contents, entries, events and locks.
THEOREM SelectionIsRetained == Spec => []CurrentIsRetained
<1>1. ClipboardInv => CurrentIsRetained
  <2> SUFFICES ASSUME ClipboardInv PROVE CurrentIsRetained
    OBVIOUS
  <2>1. Sound(clip) /\ Backed(clip)
    BY DEF ClipboardInv, Sound
  <2>2. \A id \in Ids(clip) : HistoryItem(clip, id) \in clip.history /\ HistoryItem(clip, id).id = id
    BY <2>1, HistoryItemFacts
  <2> QED
    BY <2>1, <2>2 DEF Backed, CurrentIsRetained
<1> QED
  BY ClipboardIsSound, <1>1, PTL

\* A capture that a lock, a pause, a clear, a newer selection or an item of the
\* clipboard's own has overtaken is not recorded (finish_capture).
THEOREM OvertakenStaysOut == Spec => OvertakenIsNotRecorded
<1>1. ClipboardInv /\ [Next]_vars =>
         [\A item \in clip'.history :
             item.from \in {0} \cup {old.from : old \in clip.history}
                          \cup {e \in Epochs : e >= recordable}]_vars
  BY NextClipboard DEF StaysOut
<1> QED
  BY ClipboardIsSound, <1>1, PTL DEF Spec, OvertakenIsNotRecorded
=============================================================================
