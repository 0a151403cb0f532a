----------------------------- MODULE Economizer -----------------------------
(***************************************************************************)
(* The token economizer (infrastructure/ai/economizer) under embed,        *)
(* embedBatch and synthesize of ExecuteService: results are looked up in   *)
(* an LRU of the process (l0), in Redis (l1) and in Mongo (l2) before the  *)
(* provider is asked, and written back to the faster layers.  Calls        *)
(* interleave at every await; the two slow layers may fail, expire, or be  *)
(* written by other instances.  The counters are those of metrics.ts.      *)
(*                                                                         *)
(* A result is named by the text it was computed from; a text to be spoken *)
(* stands for its voice too, and is not one to be embedded.                *)
(***************************************************************************)
EXTENDS Naturals, FiniteSets, SequencesExt

CONSTANTS
    Texts,
    Spoken,         \* the texts for synthesize; the others are for embed
    Key,            \* Key[t]: cacheKey(t), the same for texts that differ in case or blanks
    Calls,          \* the calls the process ever receives
    Elsewhere,      \* the texts that were answered before, or by other instances
    Batches,        \* the sequences of texts that embedBatch is called with
    Slice,          \* batchMaxSize
    Capacity,       \* Capacity[kind]: of its LRU
    Circumstances,  \* sets of "redis", "mongo", "provider", "expiry", "others",
                    \* "restart", "reset", "unbatched": what may happen
    None            \* null

Keys == Range(Key)

Kinds == {"embed", "synth"}
Kind(t) == IF t \in Spoken THEN "synth" ELSE "embed"

ASSUME KeyAssumption ==
    /\ DOMAIN Key = Texts /\ None \notin Texts /\ Spoken \subseteq Texts
    /\ \A t, u \in Texts : Key[t] = Key[u] => Kind(t) = Kind(u)
ASSUME ElsewhereAssumption == Elsewhere \subseteq Texts
ASSUME BatchAssumption ==
    Batches \subseteq Seq(Texts \ Spoken) /\ <<>> \notin Batches /\ Slice \in Nat \ {0}
ASSUME CapacityAssumption == Capacity \in [Kinds -> Nat \ {0}]

VARIABLES
    faults,   \* what may happen in this behaviour; it never changes
    lru,      \* lru[kind]: embedLRU and synthLRU
    store,    \* store[l][k]: what layer l keeps under k
    writes,   \* the puts that were not awaited
    call,     \* call[c]: what a call holds
    count     \* count[kind]: economizerMetrics

vars == <<faults, lru, store, writes, call, count>>

Slow == {"l1", "l2"}
Found == {"l0", "l1", "l2"}

Entry == [key : Keys, val : Texts]
Write == [layer : Slow, key : Keys, val : Texts]

\* An LRU: its entries, oldest first, and (history) the keys touched since it
\* was empty, latest last.
LRU == [map : Seq(Entry), used : Seq(Keys)]

Empty == [map |-> <<>>, used |-> <<>>]

Call ==
    [pc    : {"idle",
              "lookup",   \* next: FromRedis, FromMongo, Gather
              "ask",      \* waits for the provider
              "next",     \* a slice is done
              "raw",      \* asks the provider for all, past the caches
              "ok", "failed",
              "lost"},    \* the process ended
     batch : BOOLEAN,
     texts : Seq(Texts),
     from  : Nat,   \* where its slice begins
     \* of each text: where its lookup is, and its result
     at    : Seq(Found \union {"later", "redis", "mongo", "miss", "new"}),
     got   : Seq(Texts \union {None})]

Idle == [pc |-> "idle", batch |-> FALSE, texts |-> <<>>, from |-> 0, at |-> <<>>, got |-> <<>>]

\* owed (history): lookups the counters will be told of whose requests a reset has wiped out.
NoCount == [requests |-> 0, hits |-> [l \in Found |-> 0], misses |-> 0, owed |-> 0]

\* Types; each LRU keeps to its capacity.
TypeOK ==
    /\ faults \in Circumstances
    /\ lru \in [Kinds -> LRU]
    /\ \A kind \in Kinds : Len(lru[kind].map) <= Capacity[kind]
    /\ store \in [Slow -> [Keys -> Texts \union {None}]]
    /\ writes \subseteq Write
    /\ call \in [Calls -> Call]
    /\ count \in [Kinds -> [requests : Nat, hits : [Found -> Nat], misses : Nat, owed : Nat]]

\* What a slow layer keeps was written by this code, before now or elsewhere.
Kept == {kept \in [Keys -> Elsewhere \union {None}] :
            \A k \in Keys : kept[k] # None => Key[kept[k]] = k}

Init ==
    /\ faults \in Circumstances
    /\ lru = [kind \in Kinds |-> Empty] /\ writes = {}
    /\ store \in [Slow -> Kept]
    /\ call = [c \in Calls |-> Idle]
    /\ count = [kind \in Kinds |-> NoCount]

----------------------------------------------------------------------------
(***************************************************************************)
(* LRUCache: a Map, whose order is that of insertion.                      *)
(***************************************************************************)

Holds(map, k) == \E n \in DOMAIN map : map[n].key = k
Held(map, k) == map[CHOOSE n \in DOMAIN map : map[n].key = k].val
Delete(map, k) == RemoveFirstMatch(map, LAMBDA e : e.key = k)

\* A slip: get() does not move the key to the end.
LruPeek(map, k) == map

LruGet(map, k) ==
    IF Holds(map, k) THEN Append(Delete(map, k), [key |-> k, val |-> Held(map, k)]) ELSE map

LruSet(kind, map, k, v) ==
    LET grown == Append(Delete(map, k), [key |-> k, val |-> v]) IN
    IF Len(grown) > Capacity[kind] THEN Tail(grown) ELSE grown

Touch(keys, k) == Append(RemoveFirst(keys, k), k)

Gets(cache, k) ==
    IF Holds(cache.map, k)
      THEN [map |-> LruGet(cache.map, k), used |-> Touch(cache.used, k)] ELSE cache

Sets(kind, cache, k, v) ==
    [map |-> LruSet(kind, cache.map, k, v), used |-> Touch(cache.used, k)]

GetsAll(cache, keys) == FoldLeft(Gets, cache, keys)

\* The result of a text is set under its key.
Persists(kind, cache, t) == Sets(kind, cache, Key[t], t)

PersistsAll(kind, cache, texts) ==
    FoldLeft(LAMBDA held, t : Persists(kind, held, t), cache, texts)

----------------------------------------------------------------------------
(***************************************************************************)
(* A call: the LRU is asked for all texts of a slice at once, then each    *)
(* goes its own way through the slow layers.                               *)
(***************************************************************************)
KindOf(c) == Kind(call[c].texts[1])

SliceEnd(x) == IF x.from + Slice < Len(x.texts) THEN x.from + Slice ELSE Len(x.texts)
SliceOf(x) == (x.from + 1)..SliceEnd(x)

\* The lookups of a slice begin.
LookUp(c, new) ==
    LET kind == Kind(new.texts[1])
        keys == [n \in DOMAIN new.texts |-> Key[new.texts[n]]]
        map  == lru[kind].map
    IN
    /\ call' = [call EXCEPT ![c] =
           [pc    |-> "lookup",
            batch |-> new.batch,
            texts |-> new.texts,
            from  |-> new.from,
            at    |-> [n \in DOMAIN new.texts |->
                          IF n \notin SliceOf(new) THEN new.at[n]
                          ELSE IF Holds(map, keys[n]) THEN "l0" ELSE "redis"],
            got   |-> [n \in DOMAIN new.texts |->
                          IF n \in SliceOf(new) /\ Holds(map, keys[n])
                            THEN Held(map, keys[n]) ELSE new.got[n]]]]
    /\ lru' = [lru EXCEPT ![kind] = GetsAll(@, SubSeq(keys, new.from + 1, SliceEnd(new)))]

New(pc, batch, texts) ==
    [pc |-> pc, batch |-> batch, texts |-> texts, from |-> 0,
     at |-> [n \in DOMAIN texts |-> "later"], got |-> [n \in DOMAIN texts |-> None]]

\* embed and synthesize: one text, counted at once.
Single(c, t) ==
    /\ call[c].pc = "idle"
    /\ LookUp(c, New("next", FALSE, <<t>>))
    /\ count' = [count EXCEPT ![Kind(t)].requests = @ + 1]
    /\ UNCHANGED <<faults, store, writes>>

EmbedBatch(c, texts) ==
    /\ call[c].pc = "idle"
    /\ IF "unbatched" \in faults
         THEN /\ call' = [call EXCEPT ![c] = New("raw", TRUE, texts)]
              /\ UNCHANGED lru
         ELSE LookUp(c, New("next", TRUE, texts))
    /\ UNCHANGED <<faults, store, writes, count>>

NextSlice(c) ==
    /\ call[c].pc = "next"
    /\ LookUp(c, [call[c] EXCEPT !.from = @ + Slice])
    /\ UNCHANGED <<faults, store, writes, count>>

\* The n-th lookup finds v in layer l: the LRU is given it.
Finds(c, n, l, v) ==
    LET k == Key[call[c].texts[n]] IN
    /\ call' = [call EXCEPT ![c] = [@ EXCEPT !.at[n] = l, !.got[n] = v]]
    /\ lru' = [lru EXCEPT ![KindOf(c)] = Sets(KindOf(c), @, k, v)]

Goes(c, n, where) ==
    /\ call' = [call EXCEPT ![c].at[n] = where]
    /\ UNCHANGED lru

\* What a layer answers: an error counts as nothing found.
Answer(name, l, k) == {store[l][k]} \union (IF name \in faults THEN {None} ELSE {})

FromRedis(c, n) ==
    LET k == Key[call[c].texts[n]] IN
    /\ call[c].pc = "lookup" /\ call[c].at[n] = "redis"
    /\ \E v \in Answer("redis", "l1", k) :
          IF v = None THEN Goes(c, n, "mongo") ELSE Finds(c, n, "l1", v)
    /\ UNCHANGED <<faults, store, writes, count>>

\* A slip: what Mongo had stays in Mongo.
FromMongoOnly(c, n) ==
    LET k == Key[call[c].texts[n]] IN
    /\ call[c].pc = "lookup" /\ call[c].at[n] = "mongo"
    /\ \E v \in Answer("mongo", "l2", k) :
          IF v = None THEN Goes(c, n, "miss") ELSE Finds(c, n, "l2", v)
    /\ UNCHANGED <<faults, store, writes, count>>

FromMongo(c, n) ==
    LET k == Key[call[c].texts[n]] IN
    /\ call[c].pc = "lookup" /\ call[c].at[n] = "mongo"
    /\ \E v \in Answer("mongo", "l2", k) :
          IF v = None
            THEN Goes(c, n, "miss") /\ UNCHANGED writes
            ELSE /\ Finds(c, n, "l2", v)
                 /\ writes' = writes \union {[layer |-> "l1", key |-> k, val |-> v]}
    /\ UNCHANGED <<faults, store, count>>

\* The indices of the texts not found, in order.
Misses(c) ==
    FoldLeft(LAMBDA misses, n : IF call[c].at[n] = "miss" THEN Append(misses, n) ELSE misses,
             <<>>, [n \in DOMAIN call[c].at |-> n])

\* Where a call goes when the texts of its slice have their results.
Onwards(c) == IF SliceEnd(call[c]) < Len(call[c].texts) THEN "next" ELSE "ok"

Ended(c, place) == Cardinality({n \in SliceOf(call[c]) : call[c].at[n] = place})

\* A single call was counted when it began.
Count(c) ==
    count' = [count EXCEPT ![KindOf(c)] =
        [requests |-> @.requests + IF call[c].batch THEN Cardinality(SliceOf(call[c])) ELSE 0,
         hits     |-> [l \in Found |-> @.hits[l] + Ended(c, l)],
         misses   |-> @.misses + Ended(c, "miss"),
         owed     |-> @.owed]]

\* All lookups are back: they are counted; answer, or ask the provider for the rest.
Gather(c) ==
    /\ call[c].pc = "lookup"
    /\ \A n \in SliceOf(call[c]) : call[c].at[n] \in Found \union {"miss"}
    /\ call' = [call EXCEPT ![c].pc = IF Ended(c, "miss") = 0 THEN Onwards(c) ELSE "ask"]
    /\ Count(c)
    /\ UNCHANGED <<faults, lru, store, writes>>

\* A slip: the n-th answer goes to the n-th text.
Placed(c, answers) ==
    [n \in DOMAIN call[c].got |-> IF n <= Len(answers) THEN answers[n] ELSE call[c].got[n]]

\* vectors[missIndices[i]] = out.vectors[i].
Filled(c, answers) ==
    [n \in DOMAIN call[c].got |->
        IF call[c].at[n] = "miss"
          THEN answers[Cardinality({m \in 1..n : call[c].at[m] = "miss"})] ELSE call[c].got[n]]

\* persistEmbed of each answer; the slow layers are not waited for.
ProviderAnswers(c) ==
    LET asked == [n \in DOMAIN Misses(c) |-> call[c].texts[Misses(c)[n]]] IN
    /\ call[c].pc = "ask"
    /\ call' = [call EXCEPT ![c] =
           [call[c] EXCEPT !.pc = Onwards(c), !.got = Filled(c, asked),
                     !.at = [n \in DOMAIN @ |-> IF @[n] = "miss" THEN "new" ELSE @[n]]]]
    /\ lru' = [lru EXCEPT ![KindOf(c)] = PersistsAll(KindOf(c), @, asked)]
    /\ writes' = writes \union {[layer |-> l, key |-> Key[t], val |-> t] :
                                   l \in Slow, t \in ToSet(asked)}
    /\ UNCHANGED <<faults, store, count>>

\* fallbackBatch: each text by itself, nothing looked up, kept or counted.
RawAnswers(c) ==
    /\ call[c].pc = "raw"
    /\ call' = [call EXCEPT ![c] = [@ EXCEPT !.pc = "ok", !.got = call[c].texts]]
    /\ UNCHANGED <<faults, lru, store, writes, count>>

\* An error, or fewer vectors than texts: the call fails, the slices before it stay kept.
ProviderFails(c) ==
    /\ call[c].pc \in {"ask", "raw"}
    /\ "provider" \in faults
    /\ call' = [call EXCEPT ![c].pc = "failed"]
    /\ UNCHANGED <<faults, lru, store, writes, count>>

\* A slip: the two layers are written under one another's names.
PutUnder(w) == CHOOSE k \in Keys : Cardinality(Keys) > 1 => k # w.key

WriteKey(w) == w.key

Put(w) ==
    /\ w \in writes
    /\ writes' = writes \ {w}
    /\ store' = [store EXCEPT ![w.layer][WriteKey(w)] = w.val]
    /\ UNCHANGED <<faults, lru, call, count>>

PutFails(w) ==
    /\ w \in writes
    /\ (IF w.layer = "l1" THEN "redis" ELSE "mongo") \in faults
    /\ writes' = writes \ {w}
    /\ UNCHANGED <<faults, lru, store, call, count>>

----------------------------------------------------------------------------
Restart ==
    /\ "restart" \in faults
    /\ lru' = [kind \in Kinds |-> Empty] /\ writes' = {}
    /\ count' = [kind \in Kinds |-> NoCount]
    /\ call' = [c \in Calls |->
           IF call[c].pc \in {"lookup", "ask", "next", "raw"} THEN [call[c] EXCEPT !.pc = "lost"] ELSE call[c]]
    /\ UNCHANGED <<faults, store>>

\* Single calls that are counted as a request, and not yet as a hit or a miss.
Open(kind) == {c \in Calls : call[c].pc = "lookup" /\ ~call[c].batch /\ KindOf(c) = kind}

\* A slip: the misses are left standing.
ResetButMisses ==
    /\ "reset" \in faults
    /\ count' = [kind \in Kinds |->
           [NoCount EXCEPT !.misses = count[kind].misses, !.owed = Cardinality(Open(kind))]]
    /\ UNCHANGED <<faults, lru, store, writes, call>>

\* POST /admin/economizer/reset: the calls under way are not asked.
Reset ==
    /\ "reset" \in faults
    /\ count' = [kind \in Kinds |-> [NoCount EXCEPT !.owed = Cardinality(Open(kind))]]
    /\ UNCHANGED <<faults, lru, store, writes, call>>

\* The time to live of a key is over; another instance has answered the same text.
Expire(l, k) ==
    /\ "expiry" \in faults
    /\ store' = [store EXCEPT ![l][k] = None]
    /\ UNCHANGED <<faults, lru, writes, call, count>>

OtherInstance(l, t) ==
    /\ "others" \in faults
    /\ store' = [store EXCEPT ![l][Key[t]] = t]
    /\ UNCHANGED <<faults, lru, writes, call, count>>

Proceed(c) ==
    \/ \E n \in DOMAIN call[c].texts : FromRedis(c, n) \/ FromMongo(c, n)
    \/ Gather(c) \/ NextSlice(c) \/ ProviderAnswers(c) \/ RawAnswers(c) \/ ProviderFails(c)

Next ==
    \/ \E c \in Calls : Proceed(c)
    \/ \E c \in Calls, t \in Texts : Single(c, t)
    \/ \E c \in Calls, texts \in Batches : EmbedBatch(c, texts)
    \/ \E w \in writes : Put(w) \/ PutFails(w)
    \/ \E l \in Slow, k \in Keys : Expire(l, k)
    \/ \E l \in Slow, t \in Elsewhere : OtherInstance(l, t)
    \/ Restart \/ Reset

Spec == Init /\ [][Next]_vars

----------------------------------------------------------------------------
(***************************************************************************)
(* Properties.                                                             *)
(***************************************************************************)

\* Every text of an answer has a vector of that text, or of one that differs from
\* it in case or blanks only, at its own place, whatever came from which layer.
AnswersTrue ==
    \A c \in Calls : call[c].pc = "ok" =>
        /\ Len(call[c].got) = Len(call[c].texts)
        /\ \A n \in DOMAIN call[c].texts :
              call[c].got[n] # None /\ Key[call[c].got[n]] = Key[call[c].texts[n]]

\* Two calls that miss together, late puts and other instances never leave a vector
\* under a key that is not its own, in any layer or on its way there.
CachesTrue ==
    /\ \A kind \in Kinds : \A n \in DOMAIN lru[kind].map :
           LET e == lru[kind].map[n] IN Key[e.val] = e.key /\ Kind(e.val) = kind
    /\ \A l \in Slow, k \in Keys : store[l][k] # None => Key[store[l][k]] = k
    /\ \A w \in writes : Key[w.val] = w.key

\* What was evicted was the least recently used: each LRU is the end of the list of
\* the keys touched, and shorter than its capacity only when fewer were.
LruExact ==
    \A kind \in Kinds :
        LET held == [n \in DOMAIN lru[kind].map |-> lru[kind].map[n].key]
            used == lru[kind].used
            size == IF Len(used) < Capacity[kind] THEN Len(used) ELSE Capacity[kind]
        IN held = SubSeq(used, Len(used) - size + 1, Len(used))

\* What was found in Mongo or computed has gone to Redis, for the other instances,
\* as soon as the puts nobody waits for are through, also the slices of a batch that
\* failed later.
WrittenBack ==
    (faults \subseteq {"provider"} /\ writes = {}) =>
        \A c \in Calls : \A n \in DOMAIN call[c].texts :
            call[c].at[n] \in Found \union {"new"} => store["l1"][Key[call[c].texts[n]]] # None

\* Every text looked up is counted as one request and as one hit of one layer or one
\* miss, however calls overlap and fail: the rates of /admin/economizer/metrics add up,
\* but for the single calls whose lookups are under way.  A reset puts them out, until
\* the next, by the single calls it meets under way and by no more.
CountsAdd ==
    \A kind \in Kinds :
        count[kind].requests + count[kind].owed =
            count[kind].hits["l0"] + count[kind].hits["l1"] + count[kind].hits["l2"]
            + count[kind].misses + Cardinality(Open(kind))

=============================================================================
