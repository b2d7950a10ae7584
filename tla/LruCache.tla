------------------------------- MODULE LruCache -------------------------------
(***************************************************************************)
(* The SDK's in-memory cache, as the authentication policies use it: a     *)
(* sequence of entries, each with a key of its own, the least recently     *)
(* used first.                                                             *)
(***************************************************************************)
EXTENDS Integers, Sequences, SequencesExt

Place(cache, key) == CHOOSE i \in DOMAIN cache : cache[i].key = key
Holds(cache, key) == \E i \in DOMAIN cache : cache[i].key = key

\* Delete.
LruDelete(cache, key) == IF Holds(cache, key) THEN RemoveAt(cache, Place(cache, key)) ELSE cache

\* Get: the entry becomes the newest.
LruTouch(cache, key) ==
    IF Holds(cache, key) THEN Append(LruDelete(cache, key), cache[Place(cache, key)]) ELSE cache

\* Set: the entry replaces the one with its key; a full cache drops its oldest.
LruPut(cache, size, entry) ==
    LET others == LruDelete(cache, entry.key)
    IN  Append(IF Len(others) = size THEN Tail(others) ELSE others, entry)
=============================================================================
