----------------------------- MODULE LinkedList -----------------------------
(***************************************************************************)
(* The intrusive circular list of crates/linked_list: the links of its     *)
(* nodes, the pointer to the first one, and a cursor that walks the list   *)
(* while nothing changes it. content and pos are histories: what the calls *)
(* should have made of the list, and where the cursor should be (0: None). *)
(***************************************************************************)
EXTENDS Naturals, Sequences, SequencesExt

CONSTANTS Node, NIL,
          PushTwice       \* whether push_back is called with an entry of the list

VARIABLES first,          \* List::first
          next, prev,     \* LinksInner of each node; NIL: uninitialised
          cur, walking,   \* CommonCursor::cur, and whether there is a cursor
          content, pos

vars == <<first, next, prev, cur, walking, content, pos>>

Init ==
    /\ first = NIL /\ next = [n \in Node |-> NIL] /\ prev = [n \in Node |-> NIL]
    /\ cur = NIL /\ walking = FALSE /\ content = << >> /\ pos = 0

Listed == ToSet(content)
Index(n) == CHOOSE i \in DOMAIN content : content[i] = n

insert_only_entry(n) ==
    next' = [next EXCEPT ![n] = n] /\ prev' = [prev EXCEPT ![n] = n] /\ first' = n

\* Variant: the entry after the new one keeps its old back link.
InsertAfterHalf(existing, n) ==
    /\ next' = [next EXCEPT ![n] = next[existing], ![existing] = n]
    /\ prev' = [prev EXCEPT ![n] = existing]

\* The assignments in the order of the code: next of existing is read first.
insert_after(existing, n) ==
    /\ next' = [next EXCEPT ![n] = next[existing], ![existing] = n]
    /\ prev' = [prev EXCEPT ![n] = existing, ![next[existing]] = n]

\* Both take the entry before existing as the one to insert after; only
\* insert_before moves first.
insert_before(existing, n) ==
    /\ insert_after(prev[existing], n)
    /\ first' = IF first = existing THEN n ELSE first

MayInsert(n) == ~walking /\ (PushTwice \/ n \notin Listed)

\* What push_back should make of the list: an entry of the list is dropped.
Pushed(n) == IF n \in Listed THEN content ELSE Append(content, n)

push_back(n) ==
    /\ MayInsert(n) /\ content' = Pushed(n)
    /\ IF first = NIL THEN insert_only_entry(n)
       ELSE insert_after(prev[first], n) /\ UNCHANGED first
    /\ UNCHANGED <<cur, walking, pos>>

push_front(n) ==
    /\ MayInsert(n) /\ n \notin Listed /\ content' = <<n>> \o content
    /\ IF first = NIL THEN insert_only_entry(n) ELSE insert_before(first, n)
    /\ UNCHANGED <<cur, walking, pos>>

InsertAfter(existing, n) ==
    /\ MayInsert(n) /\ existing \in Listed /\ n \notin Listed
    /\ insert_after(existing, n) /\ UNCHANGED first
    /\ content' = InsertAt(content, Index(existing) + 1, n)
    /\ UNCHANGED <<cur, walking, pos>>

InsertBefore(existing, n) ==
    /\ MayInsert(n) /\ existing \in Listed /\ n \notin Listed
    /\ insert_before(existing, n)
    /\ content' = InsertAt(content, Index(existing), n)
    /\ UNCHANGED <<cur, walking, pos>>

\* The links of the removed entry are dropped.
remove(n) ==
    /\ ~walking /\ n \in Listed /\ content' = RemoveAt(content, Index(n))
    /\ IF next[n] = n
       THEN first' = NIL /\ next' = [next EXCEPT ![n] = NIL] /\ prev' = [prev EXCEPT ![n] = NIL]
       ELSE /\ next' = [next EXCEPT ![prev[n]] = next[n], ![n] = NIL]
            /\ prev' = [prev EXCEPT ![next[n]] = prev[n], ![n] = NIL]
            /\ first' = IF first = n THEN next[n] ELSE first
    /\ UNCHANGED <<cur, walking, pos>>

\* Also what drop does until the list is empty.
pop_front == first # NIL /\ first \in Listed /\ remove(first)

back == IF first = NIL THEN NIL ELSE prev[first]

\* cursor_front and cursor_back; dropping the cursor.
Cursor ==
    /\ walking' = ~walking
    /\ \/ walking /\ cur' = NIL /\ pos' = 0
       \/ ~walking /\ cur' = first /\ pos' = IF content = << >> THEN 0 ELSE 1
       \/ ~walking /\ cur' = back /\ pos' = Len(content)
    /\ UNCHANGED <<first, next, prev, content>>

move_next ==
    /\ walking /\ pos' = (pos + 1) % (Len(content) + 1)
    /\ cur' = CASE cur = NIL -> first
                [] cur # NIL /\ next[cur] # first -> next[cur]
                [] OTHER -> NIL
    /\ UNCHANGED <<first, next, prev, walking, content>>

move_prev ==
    /\ walking /\ pos' = (pos + Len(content)) % (Len(content) + 1)
    /\ cur' = CASE first = NIL -> NIL
                [] first # NIL /\ cur = NIL -> prev[first]
                [] first # NIL /\ cur = first -> NIL
                [] OTHER -> prev[cur]
    /\ UNCHANGED <<first, next, prev, walking, content>>

Next ==
    \/ \E n \in Node : \/ push_back(n) \/ push_front(n) \/ remove(n)
                       \/ \E e \in Node : InsertAfter(e, n) \/ InsertBefore(e, n)
    \/ pop_front \/ Cursor \/ move_next \/ move_prev

-----------------------------------------------------------------------------
\* As long as only entries that are on no list are inserted, the links form one
\* ring through exactly the entries of the list, in order, from first; and a
\* cursor visits them in that order, forwards and backwards, with None between
\* the last and the first. An entry inserted twice (PushTwice), which push_back
\* should drop by its doc (linked_list.rs:148), is linked again and breaks it.
ListIsRing ==
    LET n == Len(content)
    IN  /\ first = IF n = 0 THEN NIL ELSE content[1]
        /\ \A i \in 1..n : /\ next[content[i]] = content[(i % n) + 1]
                           /\ prev[content[(i % n) + 1]] = content[i]
        /\ cur = IF pos = 0 THEN NIL ELSE content[pos]
=============================================================================
