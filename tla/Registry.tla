------------------------------ MODULE Registry ------------------------------
(***************************************************************************)
(* One pool of the membership registry (crates/tinyray-registry/src,       *)
(* state.rs and delta.rs).  The registry keeps a map from pool names to    *)
(* pools behind one lock; a beat changes only the pool it names, so one    *)
(* pool is modelled.  The operators are functions from a pool to a pool,   *)
(* one per function or branch of the source; an action is one critical     *)
(* section under the registry's write lock.                                *)
(*                                                                         *)
(* Abstractions.  The XOR of member hashes is the symmetric difference of  *)
(* sets of <<id, incarnation>> (distinct pairs never collide).  url, state *)
(* and ready, which change together with a publication, are one value.     *)
(* An instant is kept as the time left until it.  The bytes of a delta     *)
(* are one for its head, one for an id removed and three for a member      *)
(* changed, in the order of the 256, 21 and 256 or more of build_delta().  *)
(***************************************************************************)
EXTENDS Integers, Sequences, FiniteSets

CONSTANTS
  Seats,            \* ids of slotted members (the id is the slot number)
  Fungible,         \* ids of members without a slot
  Policies, Methods,
  NoPolicy,         \* the empty string, the policy of Default
  Values,           \* what a member publishes: url, state and ready
  Beats,            \* the beats that can arrive
  None,             \* Rust's None
  TTL,              \* ticks of a lease
  LOG_CAP, CACHE_ENTRIES, CACHE_BYTES, MAX_INCARNATION,
  MaxVersion        \* bound on a pool's version

Id == Seats \cup Fungible

Shape == [policy : Policies, size : Nat \cup {None}, methods : SUBSET Methods]

Record ==
  [incarnation : Nat, publication : Nat \cup {None}, value : Values,
   lease : 0..TTL]

Goodbye == [tenure : Nat, left : 0..TTL]

Member == [id : Id, incarnation : Nat, value : Values]

PoolDelta ==
  [version : Nat, roster : SUBSET (Id \X Nat), shape : Shape,
   changed : SUBSET Member, removed : SUBSET Id, full : BOOLEAN]

Cached == [since : Nat \cup {None}, delta : PoolDelta]

Pool ==
  [version : Nat, roster : SUBSET (Id \X Nat), shape : Shape,
   members : [Id -> Record \cup {None}],
   high : [Id -> Nat],
   gone : [Id -> Goodbye \cup {None}],
   log : Seq(Nat \X Id),
   cache : Seq(Cached)]

Beat ==
  [id : Id, incarnation : Nat, publication : Nat \cup {None}, value : Values,
   shape : Shape, leaving : BOOLEAN, exclusive : BOOLEAN, fits : BOOLEAN,
   watch : BOOLEAN, seen : Nat \cup {None}]

ASSUME ConstantsAssumption ==
  /\ Seats \cap Fungible = {}
  /\ IsFiniteSet(Id)
  /\ NoPolicy \in Policies
  /\ Beats \subseteq Beat
  /\ TTL \in Nat \ {0}
  /\ LOG_CAP \in Nat \ {0}
  /\ CACHE_ENTRIES \in Nat \ {0}
  /\ CACHE_BYTES \in Nat
  /\ MAX_INCARNATION \in Nat
  /\ MaxVersion \in Nat

ASSUME NoneAssumption ==
  /\ None \notin Nat
  /\ None \notin Record
  /\ None \notin Goodbye
  /\ None \notin PoolDelta

VARIABLES
  pool,
  taken             \* history: every <<id, incarnation>> ever admitted

vars == <<pool, taken>>

-----------------------------------------------------------------------------
(* Members of a pool.                                                      *)

Present(p) == {id \in Id : p.members[id] # None}

Xor(a, b) == (a \ b) \cup (b \ a)

roster_hash(p, S) == {<<id, p.members[id].incarnation>> : id \in S}

MemberOf(p, id) ==
  [id |-> id, incarnation |-> p.members[id].incarnation,
   value |-> p.members[id].value]

DefaultPool ==
  [version |-> 0, roster |-> {},
   shape |-> [policy |-> NoPolicy, size |-> None, methods |-> {}],
   members |-> [id \in Id |-> None],
   high |-> [id \in Id |-> 0],
   gone |-> [id \in Id |-> None],
   log |-> <<>>,
   cache |-> <<>>]

-----------------------------------------------------------------------------
(* The change log and the deltas read from it.                             *)

invalidate_cache(p) == [p EXCEPT !.cache = <<>>]

Trim(log) ==
  IF Len(log) > LOG_CAP
  THEN SubSeq(log, Len(log) - LOG_CAP + 1, Len(log))
  ELSE log

\* Mutant of bump: an entry is pushed before the version is raised.
bump_pushes_first(p, ids) ==
  [invalidate_cache(p) EXCEPT
     !.version = @ + Len(ids),
     !.log = Trim(@ \o [i \in 1..Len(ids) |-> <<p.version + i - 1, ids[i]>>])]

\* bump() once for each of ids, in order.
bump(p, ids) ==
  [invalidate_cache(p) EXCEPT
     !.version = @ + Len(ids),
     !.log = Trim(@ \o [i \in 1..Len(ids) |-> <<p.version + i, ids[i]>>])]

oldest(p) == IF p.log = <<>> THEN 0 ELSE p.log[1][1]

\* The cursor a delta is built from: None asks for the whole roster.
since(p, seen) ==
  IF seen # None /\ seen < p.version /\ seen + 1 >= oldest(p)
  THEN seen
  ELSE None

LoggedAfter(p, v) ==
  {p.log[i][2] : i \in ((v + 1 - oldest(p)) + 1)..Len(p.log)}

build_delta(p, from) ==
  LET ids == IF from = None THEN Present(p) ELSE LoggedAfter(p, from)
  IN [version |-> p.version, roster |-> p.roster, shape |-> p.shape,
      changed |-> {MemberOf(p, id) : id \in ids \cap Present(p)},
      removed |-> ids \ Present(p),
      full |-> from = None]

Bytes(d) == 1 + 3 * Cardinality(d.changed) + Cardinality(d.removed)

\* The bytes of cache entries i..Len(cache).
BytesFrom(cache, i) ==
  LET sum[k \in 0..Len(cache)] ==
        IF k < i THEN 0 ELSE sum[k - 1] + Bytes(cache[k].delta)
  IN sum[Len(cache)]

\* How many entries leave from the front to make room for n more bytes.
Evicted(cache, n) ==
  Cardinality({i \in 1..Len(cache) :
                 \/ Len(cache) - i + 1 >= CACHE_ENTRIES
                 \/ BytesFrom(cache, i) + n > CACHE_BYTES})

\* Mutant of insert: a delta over the whole budget clears the cache and goes in.
insert_oversized(cache, from, d) ==
  Append(SubSeq(cache, Evicted(cache, Bytes(d)) + 1, Len(cache)),
         [since |-> from, delta |-> d])

insert(cache, from, d) ==
  IF Bytes(d) > CACHE_BYTES
  THEN cache
  ELSE Append(SubSeq(cache, Evicted(cache, Bytes(d)) + 1, Len(cache)),
              [since |-> from, delta |-> d])

get(cache, from) == {cache[i].delta : i \in {j \in 1..Len(cache) : cache[j].since = from}}

\* What delta(seen) returns, and the pool it leaves behind.
delta(p, seen) ==
  LET hit == get(p.cache, since(p, seen))
  IN CASE seen = p.version -> None
       [] seen # p.version /\ hit # {} -> CHOOSE d \in hit : TRUE
       [] OTHER -> build_delta(p, since(p, seen))

after_delta(p, seen) ==
  LET from == since(p, seen)
  IN IF seen = p.version \/ get(p.cache, from) # {}
     THEN p
     ELSE [p EXCEPT !.cache = insert(@, from, build_delta(p, from))]

-----------------------------------------------------------------------------
(* A beat.                                                                 *)

admissible(b) == b.fits /\ b.incarnation <= MAX_INCARNATION

\* An occupied pool refuses a member that declares another policy or size.
disagreement(p, b) ==
  /\ Present(p) # {}
  /\ \/ p.shape.policy # b.shape.policy
     \/ b.shape.size # None /\ p.shape.size # b.shape.size

\* Mutant of reshape: the cached deltas keep the old shape.
reshape_without_invalidation(p, b) ==
  CASE Present(p) = {} -> [p EXCEPT !.shape = b.shape]
    [] Present(p) # {} /\ p.shape.methods = {} ->
         [p EXCEPT !.shape.methods = b.shape.methods]
    [] OTHER -> p

\* An empty pool takes the shape of the beat; the first methods win.
reshape(p, b) ==
  CASE Present(p) = {} /\ p.shape # b.shape ->
         [invalidate_cache(p) EXCEPT !.shape = b.shape]
    [] Present(p) # {} /\ p.shape.methods = {} /\ b.shape.methods # {} ->
         [invalidate_cache(p) EXCEPT !.shape.methods = b.shape.methods]
    [] OTHER -> p

\* Mutant of straggler: only tenures before the one that left are late.
straggler_strict(p, b) ==
  /\ ~b.leaving
  /\ p.gone[b.id] # None
  /\ b.incarnation < p.gone[b.id].tenure

straggler(p, b) ==
  /\ ~b.leaving
  /\ p.gone[b.id] # None
  /\ b.incarnation <= p.gone[b.id].tenure

occupied(p, b) ==
  /\ b.exclusive
  /\ p.members[b.id] # None
  /\ p.members[b.id].incarnation # b.incarnation

\* Mutant of superseded: a vacated seat has no memory of its tenures.
superseded_without_watermark(p, b) ==
  \/ occupied(p, b)
  \/ straggler(p, b)
  \/ p.members[b.id] # None /\ p.members[b.id].incarnation > b.incarnation

superseded(p, b) ==
  \/ occupied(p, b)
  \/ straggler(p, b)
  \/ b.incarnation < p.high[b.id]
  \/ p.members[b.id] # None /\ p.members[b.id].incarnation > b.incarnation

\* Take a record out, and its hash out of the fingerprint.
vacate(p, id) ==
  [p EXCEPT !.roster = Xor(@, roster_hash(p, {id})),
            !.members[id] = None]

\* Mutant of leave: the beat's tenure is XORed out, not the stored one.
leave_by_beat_tenure(p, b) ==
  LET q == IF p.members[b.id] # None
           THEN bump([p EXCEPT !.roster = Xor(@, {<<b.id, b.incarnation>>}),
                               !.members[b.id] = None], <<b.id>>)
           ELSE p
  IN [q EXCEPT !.gone[b.id] = [tenure |-> b.incarnation, left |-> TTL]]

\* Mutant of leave: a goodbye is remembered for two leases.
leave_for_two_leases(p, b) ==
  LET q == IF p.members[b.id] # None
           THEN bump(vacate(p, b.id), <<b.id>>)
           ELSE p
  IN [q EXCEPT !.gone[b.id] = [tenure |-> b.incarnation, left |-> 2 * TTL]]

leave(p, b) ==
  LET q == IF p.members[b.id] # None
           THEN bump(vacate(p, b.id), <<b.id>>)
           ELSE p
  IN [q EXCEPT !.gone[b.id] = [tenure |-> b.incarnation, left |-> TTL]]

\* Mutant of newer: whatever arrives last is what the member shows.
newer_any(held, incoming) == TRUE

newer(held, incoming) ==
  \/ held = None
  \/ incoming # None /\ incoming > held

\* Mutant of renew: a publication is stored and nobody is told.
renew_without_bump(p, b) ==
  LET r == p.members[b.id]
  IN IF newer(r.publication, b.publication)
     THEN [p EXCEPT !.members[b.id] =
             [r EXCEPT !.lease = TTL, !.publication = b.publication,
                       !.value = b.value]]
     ELSE [p EXCEPT !.members[b.id] = [r EXCEPT !.lease = TTL]]

renew(p, b) ==
  LET r == p.members[b.id]
      kept == [p EXCEPT !.members[b.id] = [r EXCEPT !.lease = TTL]]
      said == [p EXCEPT !.members[b.id] =
                 [r EXCEPT !.lease = TTL, !.publication = b.publication,
                           !.value = b.value]]
  IN CASE ~newer(r.publication, b.publication) -> kept
       [] newer(r.publication, b.publication) /\ r.value = b.value -> said
       [] OTHER -> bump(said, <<b.id>>)

arrive(p, b) ==
  LET q == IF p.members[b.id] # None THEN vacate(p, b.id) ELSE p
  IN bump([q EXCEPT
             !.roster = Xor(@, {<<b.id, b.incarnation>>}),
             !.members[b.id] = [incarnation |-> b.incarnation,
                                publication |-> b.publication,
                                value |-> b.value, lease |-> TTL]],
          <<b.id>>)

raise_watermark(p, b) ==
  IF b.id \in Seats /\ b.incarnation > p.high[b.id]
  THEN [p EXCEPT !.high[b.id] = b.incarnation]
  ELSE p

holds(p, b) ==
  p.members[b.id] # None /\ p.members[b.id].incarnation = b.incarnation

\* The pool after the seat has been decided.
settle(p, b) ==
  CASE superseded(p, b) -> p
    [] ~superseded(p, b) /\ b.leaving -> raise_watermark(leave(p, b), b)
    [] ~superseded(p, b) /\ ~b.leaving /\ holds(p, b) ->
         raise_watermark(renew(p, b), b)
    [] OTHER -> raise_watermark(arrive(p, b), b)

refused(p, b) == ~admissible(b) \/ disagreement(p, b)

accepts(p, b) == ~refused(p, b) /\ ~superseded(p, b)

decided(p, b) == IF refused(p, b) THEN p ELSE settle(reshape(p, b), b)

watching(p, b) == b.watch /\ ~refused(p, b)

\* The whole of beat_shared(): the pool it leaves and the answer it gives.
beat_shared(p, b) ==
  IF watching(p, b) THEN after_delta(decided(p, b), b.seen) ELSE decided(p, b)

ack(p, b) ==
  [accepted |-> accepts(p, b),
   delta |-> IF watching(p, b) THEN delta(decided(p, b), b.seen) ELSE None]

-----------------------------------------------------------------------------
(* Leases run out, and the sweeper collects what has.                      *)

Left(n) == IF n = 0 THEN 0 ELSE n - 1

elapse(p) ==
  [p EXCEPT
     !.members = [id \in Id |->
        IF p.members[id] = None THEN None
        ELSE [p.members[id] EXCEPT !.lease = Left(p.members[id].lease)]],
     !.gone = [id \in Id |->
        IF p.gone[id] = None THEN None
        ELSE [p.gone[id] EXCEPT !.left = Left(p.gone[id].left)]]]

Dead(p) == {id \in Present(p) : p.members[id].lease = 0}

\* The order in which the sweeper's hash map yields the dead is arbitrary.
Orders(S) ==
  UNION {{o \in [1..n -> S] : {o[i] : i \in 1..n} = S /\
                              \A i, j \in 1..n : o[i] = o[j] => i = j} :
         n \in 0..Cardinality(S)}

sweep(p, order) ==
  LET dead == {order[i] : i \in 1..Len(order)}
      q == [p EXCEPT !.gone = [id \in Id |->
              IF @[id] = None \/ @[id].left = 0 THEN None ELSE @[id]]]
      r == [q EXCEPT !.roster = Xor(@, roster_hash(q, dead)),
                     !.members = [id \in Id |->
                        IF id \in dead THEN None ELSE @[id]]]
  IN IF order = <<>> THEN q ELSE bump(r, order)

-----------------------------------------------------------------------------
Init ==
  /\ pool = DefaultPool
  /\ taken = {}

HandleBeat(b) ==
  /\ decided(pool, b).version <= MaxVersion
  /\ pool' = beat_shared(pool, b)
  /\ taken' = IF accepts(pool, b) /\ ~b.leaving
              THEN taken \cup {<<b.id, b.incarnation>>}
              ELSE taken

Tick ==
  /\ pool' = elapse(pool)
  /\ UNCHANGED taken

Sweep ==
  /\ pool.version + Cardinality(Dead(pool)) <= MaxVersion
  /\ \E order \in Orders(Dead(pool)) : pool' = sweep(pool, order)
  /\ UNCHANGED taken

\* deltas_shared_for(): a parked caller looks again.
Look(b) ==
  /\ b.watch
  /\ pool' = after_delta(pool, b.seen)
  /\ UNCHANGED taken

Next ==
  \/ \E b \in Beats : HandleBeat(b)
  \/ \E b \in Beats : Look(b)
  \/ Tick
  \/ Sweep

Spec == Init /\ [][Next]_vars

-----------------------------------------------------------------------------
(* Properties.                                                             *)

\* The state of Pool (state.rs) keeps its shape.
TypeOK ==
  /\ pool \in Pool
  /\ taken \in SUBSET (Id \X Nat)

\* A process whose seat was given to a later tenure never gets it back from
\* this registry process: not after the later tenure left, not after its
\* lease lapsed, however late an old beat arrives (the high map of Pool).
SeatIsFenced ==
  \A e \in taken :
    e[1] \in Seats /\ pool.members[e[1]] # None
      => e[2] <= pool.members[e[1]].incarnation

\* The fingerprint an epoch is frozen on is that of the members now present,
\* whatever sequence of arrivals, takeovers, goodbyes and sweeps XORed it
\* together (roster in beat_shared and sweep).
RosterIsMembership == pool.roster = roster_hash(pool, Present(pool))

\* While a goodbye is remembered, no tenure up to the one that said it is
\* present (gone and straggler in beat_shared).
GoodbyeIsHeld ==
  \A id \in Id :
    pool.members[id] # None /\ pool.gone[id] # None
      => pool.members[id].incarnation > pool.gone[id].tenure

\* The log holds the last versions without a gap and ends at the current
\* one, which is what build_delta's index arithmetic relies on.
LogIsContiguous ==
  /\ Len(pool.log) <= LOG_CAP
  /\ \A i \in 1..Len(pool.log) :
       pool.log[i][1] = pool.version - Len(pool.log) + i

\* A cached delta is the delta that would be built now: every change of what
\* a delta carries went through invalidate_cache.
CacheIsFresh ==
  \A i \in 1..Len(pool.cache) :
    pool.cache[i].delta = build_delta(pool, pool.cache[i].since)

\* No more entries and bytes are cached than delta.rs allows, and no cursor
\* twice.
CacheWithinBudget ==
  /\ Len(pool.cache) <= CACHE_ENTRIES
  /\ BytesFrom(pool.cache, 1) <= CACHE_BYTES
  /\ \A i, j \in 1..Len(pool.cache) :
       pool.cache[i].since = pool.cache[j].since => i = j

Roster(p) == {MemberOf(p, id) : id \in Present(p)}

\* A member that appears, disappears or says something else moves the
\* version, so no watcher at the current version can miss it (bump).
MemberChangeIsVersioned ==
  [][Roster(pool') # Roster(pool) => pool'.version > pool.version]_vars

\* state.rs:95 of version: "Bumped by any change a client should learn about."
\* A delta tells a client the members and the shape of the pool, so a beat that
\* is refused and still changes either, in a pool of which clients hold a
\* version (beat_shared reshapes before it decides who holds the seat), has to
\* move the version.
RefusedBeatIsVersioned ==
  [][\A b \in Beats :
       (/\ pool.version > 0
        /\ ~accepts(pool, b) /\ pool' = beat_shared(pool, b)
        /\ Roster(pool') # Roster(pool) \/ pool'.shape # pool.shape)
       => pool'.version > pool.version]_vars

=============================================================================
