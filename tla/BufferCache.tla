---------------------------- MODULE BufferCache ------------------------------
(***************************************************************************)
(* The per-thread cache of messages and connections (init_cache,           *)
(* cache_alloc, cache_free of tcp_echo.c): a singly linked list from which *)
(* entries are taken at the head and to which they return at the tail.     *)
(* cache_free does not clear entry->next; it relies on cache_alloc having  *)
(* done so.                                                                *)
(***************************************************************************)
EXTENDS Integers, Sequences

CONSTANTS Block,        \* the memory blocks calloc can return
          NULL

ASSUME CacheAssumption == NULL \notin Block

VARIABLES head, tail,   \* cache->head, cache->tail
          next,         \* entry->next of every block
          used,         \* blocks that cache_alloc returned and the caller has
          raw,          \* blocks never calloc'd
          order         \* history: the free entries, oldest first

vars == <<head, tail, next, used, raw, order>>

\* The cache before init_cache fills it (which it does with cache_free).
Init ==
    /\ head = NULL /\ tail = NULL
    /\ next = [b \in Block |-> NULL]
    /\ used = {} /\ raw = Block
    /\ order = <<>>

\* A block that is not calloc'd yet is zeroed: its next is NULL.
Link(b) ==
    /\ next' = IF tail # NULL THEN [next EXCEPT ![tail] = b] ELSE next
    /\ head' = IF tail # NULL THEN head ELSE b
    /\ tail' = b
    /\ order' = Append(order, b)

\* One turn of the loop of init_cache
init_cache(b) ==
    /\ used = {}
    /\ b \in raw
    /\ raw' = raw \ {b}
    /\ Link(b)
    /\ UNCHANGED used

\* The caller gives back an entry it has.
cache_free(b) ==
    /\ b \in used
    /\ used' = used \ {b}
    /\ Link(b)
    /\ UNCHANGED raw

\* The variants leave the old tail of a list that became empty, and the next
\* pointer of the entry that was taken.
Take_KeepTail ==
    /\ used' = used \cup {head}
    /\ head' = next[head]
    /\ tail' = tail
    /\ next' = [next EXCEPT ![head] = NULL]
    /\ order' = SubSeq(order, 2, Len(order))
    /\ UNCHANGED raw
Take_KeepNext ==
    /\ used' = used \cup {head}
    /\ head' = next[head]
    /\ tail' = IF next[head] = NULL THEN NULL ELSE tail
    /\ order' = SubSeq(order, 2, Len(order))
    /\ UNCHANGED <<next, raw>>
Take ==
    /\ used' = used \cup {head}
    /\ head' = next[head]
    /\ tail' = IF next[head] = NULL THEN NULL ELSE tail
    /\ next' = [next EXCEPT ![head] = NULL]
    /\ order' = Tail(order)
    /\ UNCHANGED raw

\* Take the head, or calloc a new entry when the list is empty.
cache_alloc ==
    \/ head # NULL /\ Take
    \/ /\ head = NULL
       /\ \E b \in raw : raw' = raw \ {b} /\ used' = used \cup {b}
       /\ UNCHANGED <<head, tail, next, order>>

Next ==
    \/ \E b \in Block : init_cache(b) \/ cache_free(b)
    \/ cache_alloc

Spec == Init /\ [][Next]_vars

-----------------------------------------------------------------------------
(* Properties *)

TypeOK ==
    /\ head \in Block \cup {NULL} /\ tail \in Block \cup {NULL}
    /\ next \in [Block -> Block \cup {NULL}]
    /\ used \subseteq Block /\ raw \subseteq Block
    /\ order \in Seq(Block)

\* An entry is in the list once, or with one caller, or not calloc'd: no two
\* connections ever share their memory.
Exclusive ==
    /\ \A i, j \in 1 .. Len(order) : i # j => order[i] # order[j]
    /\ \A i \in 1 .. Len(order) : order[i] \notin used \cup raw
    /\ used \cap raw = {}
    /\ \A b \in Block : b \in used \cup raw \/ \E i \in 1 .. Len(order) : order[i] = b

\* The pointers are the queue: from head, next leads through every free entry
\* from the oldest to the newest, which is tail; so no entry is unreachable, no
\* entry in use is reachable, and the list has no cycle.
CacheIsQueue ==
    /\ order = <<>> => head = NULL /\ tail = NULL
    /\ order # <<>> => head = order[1] /\ tail = order[Len(order)]
    /\ \A i \in 1 .. Len(order) :
         next[order[i]] = IF i = Len(order) THEN NULL ELSE order[i + 1]
    /\ \A b \in used \cup raw : next[b] = NULL

=============================================================================
