--------------------------- MODULE RegistryProofs ---------------------------
(***************************************************************************)
(* What a pool of the registry guarantees for any number of seats, tenures *)
(* and beats, and any limits.                                              *)
(***************************************************************************)
EXTENDS Registry, SequenceTheorems, FiniteSetTheorems, TLAPS

-----------------------------------------------------------------------------
(* What the operators do to the fields of a pool.                          *)

\* Trim returns a suffix of the log (the pop_front loop of bump).
LEMMA TrimType ==
  ASSUME NEW log \in Seq(Nat \X Id)
  PROVE  Trim(log) \in Seq(Nat \X Id)
<1>1. CASE Len(log) > LOG_CAP
  <2> DEFINE m == Len(log) - LOG_CAP + 1
  <2>1. m \in Int /\ Len(log) \in Int /\ m >= 1
    BY <1>1, LenProperties, ConstantsAssumption DEF ConstantsAssumption
  <2>2. \A i \in m..Len(log) : log[i] \in Nat \X Id
    BY <2>1, ElementOfSeq
  <2>3. Trim(log) = SubSeq(log, m, Len(log))
    BY <1>1 DEF Trim
  <2> HIDE DEF m
  <2>4. SubSeq(log, m, Len(log)) \in Seq(Nat \X Id)
    BY <2>1, <2>2, SubSeqProperties
  <2> QED BY <2>3, <2>4
<1>2. CASE ~(Len(log) > LOG_CAP)
  BY <1>2 DEF Trim
<1> QED BY <1>1, <1>2

\* A pool keeps its type when fields are replaced by others of their type.
LEMMA PoolUpdates ==
  ASSUME NEW p \in Pool
  PROVE  /\ \A v \in Nat, log \in Seq(Nat \X Id), cache \in Seq(Cached) :
              [p EXCEPT !.cache = cache, !.version = v, !.log = log] \in Pool
         /\ \A cache \in Seq(Cached) : [p EXCEPT !.cache = cache] \in Pool
         /\ \A id \in Id, r \in Record \cup {None}, h \in SUBSET (Id \X Nat) :
              [p EXCEPT !.roster = h, !.members[id] = r] \in Pool
         /\ \A id \in Id, r \in Record \cup {None} :
              [p EXCEPT !.members[id] = r] \in Pool
         /\ \A id \in Id, g \in Goodbye \cup {None} :
              [p EXCEPT !.gone[id] = g] \in Pool
         /\ \A id \in Id, n \in Nat : [p EXCEPT !.high[id] = n] \in Pool
         /\ \A h \in Shape, cache \in Seq(Cached) :
              [p EXCEPT !.cache = cache, !.shape = h] \in Pool
         /\ \A m \in [Id -> Record \cup {None}], g \in [Id -> Goodbye \cup {None}] :
              [p EXCEPT !.members = m, !.gone = g] \in Pool
         /\ \A g \in [Id -> Goodbye \cup {None}] : [p EXCEPT !.gone = g] \in Pool
         /\ \A h \in SUBSET (Id \X Nat), m \in [Id -> Record \cup {None}] :
              [p EXCEPT !.roster = h, !.members = m] \in Pool
BY DEF Pool

\* bump() moves the version and the log and drops the cache; nothing else.
LEMMA BumpEffect ==
  ASSUME NEW p \in Pool, NEW ids \in Seq(Id)
  PROVE  /\ bump(p, ids) \in Pool
         /\ bump(p, ids).members = p.members
         /\ bump(p, ids).roster = p.roster
         /\ bump(p, ids).high = p.high
         /\ bump(p, ids).gone = p.gone
         /\ bump(p, ids).shape = p.shape
         /\ bump(p, ids).version = p.version + Len(ids)
         /\ bump(p, ids).log =
              Trim(p.log \o [i \in 1..Len(ids) |-> <<p.version + i, ids[i]>>])
<1> DEFINE new == [i \in 1..Len(ids) |-> <<p.version + i, ids[i]>>]
<1>1. p.version \in Nat /\ p.log \in Seq(Nat \X Id)
  BY DEF Pool
<1>2. Len(ids) \in Nat /\ \A i \in 1..Len(ids) : ids[i] \in Id
  BY LenProperties, ElementOfSeq
<1>3. new \in Seq(Nat \X Id)
  <2>1. \A i \in 1..Len(ids) : <<p.version + i, ids[i]>> \in Nat \X Id
    BY <1>1, <1>2
  <2> QED BY <1>2, <2>1, IsASeq
<1>4. p.log \o new \in Seq(Nat \X Id)
  BY <1>1, <1>3, ConcatProperties
<1>5. Trim(p.log \o new) \in Seq(Nat \X Id)
  BY <1>4, TrimType
<1>6. <<>> \in Seq(Cached)
  BY EmptySeq
<1>7. bump(p, ids) = [p EXCEPT !.cache = <<>>, !.version = p.version + Len(ids), !.log = Trim(p.log \o new)]
  BY DEF bump, invalidate_cache, Pool
<1> HIDE DEF new
<1>8. bump(p, ids) \in Pool
  <2>1. p.version + Len(ids) \in Nat
    BY <1>1, <1>2
  <2>2. [p EXCEPT !.cache = <<>>, !.version = p.version + Len(ids), !.log = Trim(p.log \o new)] \in Pool
    BY <2>1, <1>5, <1>6, PoolUpdates
  <2> QED BY <2>2, <1>7
<1>9. /\ bump(p, ids).members = p.members
      /\ bump(p, ids).roster = p.roster
      /\ bump(p, ids).high = p.high
      /\ bump(p, ids).gone = p.gone
      /\ bump(p, ids).shape = p.shape
      /\ bump(p, ids).version = p.version + Len(ids)
      /\ bump(p, ids).log = Trim(p.log \o new)
  BY <1>7 DEF Pool
<1> QED BY <1>8, <1>9 DEF new

\* The cursor since() picks is one that the log still reaches back to, so
\* that build_delta's index v + 1 - oldest is not negative.
LEMMA SinceReaches ==
  ASSUME NEW p \in Pool, NEW seen \in Nat \cup {None}
  PROVE  /\ oldest(p) \in Nat
         /\ since(p, seen) \in Nat \cup {None}
         /\ since(p, seen) # None => since(p, seen) + 1 - oldest(p) >= 0
<1>1. p.log \in Seq(Nat \X Id) /\ p.version \in Nat
  BY DEF Pool
<1>2. oldest(p) \in Nat
  <2>1. CASE p.log = <<>>
    BY <2>1 DEF oldest
  <2>2. CASE p.log # <<>>
    <3>1. p.log[1] \in Nat \X Id
      BY <1>1, <2>2, EmptySeq, ElementOfSeq, LenProperties
    <3> QED BY <3>1, <2>2 DEF oldest
  <2> QED BY <2>1, <2>2
<1> QED BY <1>1, <1>2 DEF since

\* A delta built from such a cursor is a delta.
LEMMA BuildDeltaType ==
  ASSUME NEW p \in Pool, NEW from \in Nat \cup {None},
         oldest(p) \in Nat, from # None => from + 1 - oldest(p) >= 0
  PROVE  build_delta(p, from) \in PoolDelta
<1> DEFINE ids == IF from = None THEN Present(p) ELSE LoggedAfter(p, from)
<1>1. p.members \in [Id -> Record \cup {None}] /\ p.version \in Nat
      /\ p.roster \in SUBSET (Id \X Nat) /\ p.shape \in Shape
      /\ p.log \in Seq(Nat \X Id)
  BY DEF Pool
<1>2. ids \ Present(p) \in SUBSET Id
  <2>1. CASE from = None
    BY <2>1
  <2>2. CASE from # None
    <3>1. from \in Nat /\ Len(p.log) \in Nat
      BY <2>2, <1>1, LenProperties
    <3>2. ASSUME NEW i \in ((from + 1 - oldest(p)) + 1)..Len(p.log)
          PROVE  p.log[i][2] \in Id
      <4>1. i \in 1..Len(p.log)
        BY <3>1, <2>2
      <4>2. p.log[i] \in Nat \X Id
        BY <4>1, <1>1, ElementOfSeq
      <4> QED BY <4>2
    <3> QED BY <3>2, <2>2 DEF LoggedAfter
  <2> QED BY <2>1, <2>2
<1>3. \A id \in ids \cap Present(p) : MemberOf(p, id) \in Member
  BY <1>1 DEF Present, MemberOf, Member, Record
<1> HIDE DEF ids
<1> QED BY <1>1, <1>2, <1>3 DEF build_delta, PoolDelta, ids

\* insert() keeps a cache of deltas; at most the whole cache is evicted.
LEMMA InsertType ==
  ASSUME NEW cache \in Seq(Cached), NEW from \in Nat \cup {None},
         NEW d \in PoolDelta
  PROVE  insert(cache, from, d) \in Seq(Cached)
<1> DEFINE n == Evicted(cache, Bytes(d))
           kept == SubSeq(cache, n + 1, Len(cache))
           new == [since |-> from, delta |-> d]
<1>1. Len(cache) \in Nat /\ \A i \in 1..Len(cache) : cache[i] \in Cached
  BY LenProperties, ElementOfSeq
<1>2. n \in Nat
  <2>1. IsFiniteSet(1..Len(cache))
    BY <1>1, FS_Interval
  <2>2. \A T \in SUBSET (1..Len(cache)) : Cardinality(T) \in Nat
    BY <2>1, FS_Subset, FS_CardinalityType
  <2> QED BY <2>2 DEF Evicted
<1>3. new \in Cached
  BY DEF Cached
<1> HIDE DEF n
<1>4. kept \in Seq(Cached)
  <2>1. \A i \in (n + 1)..Len(cache) : cache[i] \in Cached
    BY <1>1, <1>2
  <2>2. n + 1 \in Int /\ Len(cache) \in Int
    BY <1>1, <1>2
  <2> QED BY <2>1, <2>2, SubSeqProperties
<1> HIDE DEF kept, new
<1>5. Append(kept, new) \in Seq(Cached)
  BY <1>3, <1>4, AppendProperties
<1> QED BY <1>5 DEF insert, n, kept, new

\* Asking for a delta changes nothing but the cache.
LEMMA AfterDeltaEffect ==
  ASSUME NEW p \in Pool, NEW seen \in Nat \cup {None}
  PROVE  \E cache \in Seq(Cached) :
           after_delta(p, seen) = [p EXCEPT !.cache = cache]
<1> DEFINE from == since(p, seen)
           d == build_delta(p, from)
<1>1. p.cache \in Seq(Cached) /\ p = [p EXCEPT !.cache = p.cache]
  BY DEF Pool
<1>2. d \in PoolDelta /\ from \in Nat \cup {None}
  BY SinceReaches, BuildDeltaType
<1> HIDE DEF from, d
<1>3. insert(p.cache, from, d) \in Seq(Cached)
  BY <1>1, <1>2, InsertType
<1>4. CASE seen = p.version \/ get(p.cache, from) # {}
  <2>1. after_delta(p, seen) = p
    BY <1>4 DEF after_delta, from
  <2> QED BY <2>1, <1>1
<1>5. CASE ~(seen = p.version \/ get(p.cache, from) # {})
  <2>1. after_delta(p, seen) = [p EXCEPT !.cache = insert(p.cache, from, d)]
    BY <1>5 DEF after_delta, from, d, Pool
  <2> QED BY <2>1, <1>3
<1> QED BY <1>4, <1>5

-----------------------------------------------------------------------------
(* The inductive invariant, as predicates of a pool p and a history T.     *)

\* The watermark of a seat is at least every tenure it was ever given to,
\* and whoever sits there now is of exactly that tenure.
Guarded(p, T) ==
  /\ \A e \in T : e[1] \in Seats => e[2] <= p.high[e[1]]
  /\ \A s \in Seats : p.members[s] # None => p.members[s].incarnation = p.high[s]

Printed(p) == p.roster = roster_hash(p, Present(p))

Departed(p) ==
  \A id \in Id :
    p.members[id] # None /\ p.gone[id] # None
      => p.members[id].incarnation > p.gone[id].tenure

Logged(p) ==
  /\ Len(p.log) <= LOG_CAP
  /\ \A i \in 1..Len(p.log) : p.log[i][1] = p.version - Len(p.log) + i

PoolInv(p, T) ==
  p \in Pool /\ Guarded(p, T) /\ Printed(p) /\ Departed(p) /\ Logged(p)

\* bump() keeps the log contiguous, also when it drops the oldest entries.
LEMMA BumpLogged ==
  ASSUME NEW p \in Pool, NEW ids \in Seq(Id), Logged(p)
  PROVE  Logged(bump(p, ids))
<1> DEFINE new == [i \in 1..Len(ids) |-> <<p.version + i, ids[i]>>]
           long == p.log \o new
           n == p.version + Len(ids)
<1>1. p.version \in Nat /\ p.log \in Seq(Nat \X Id) /\ Len(p.log) \in Nat
  BY LenProperties DEF Pool
<1>2. Len(ids) \in Nat /\ \A i \in 1..Len(ids) : ids[i] \in Id
  BY LenProperties, ElementOfSeq
<1>3. new \in Seq(Nat \X Id) /\ Len(new) = Len(ids)
  <2>1. \A i \in 1..Len(ids) : <<p.version + i, ids[i]>> \in Nat \X Id
    BY <1>1, <1>2
  <2> QED BY <1>2, <2>1, IsASeq
<1>4. \A i \in 1..Len(ids) : new[i][1] = p.version + i
  <2>1. \A i \in 1..Len(ids) : new[i] = <<p.version + i, ids[i]>>
    OBVIOUS
  <2> HIDE DEF new
  <2> QED BY <2>1
<1> HIDE DEF new
<1>5. long \in Seq(Nat \X Id) /\ Len(long) = Len(p.log) + Len(ids)
  <2>1. new \in Seq(Nat \X Id)
    BY <1>3
  <2>2. long \in Seq(Nat \X Id) /\ Len(long) = Len(p.log) + Len(new)
    BY <1>1, <2>1, ConcatProperties
  <2> QED BY <2>2, <1>3
<1>6. \A i \in 1..Len(long) :
        long[i] = IF i <= Len(p.log) THEN p.log[i] ELSE new[i - Len(p.log)]
  BY <1>1, <1>3, <1>5, ConcatProperties
<1> HIDE DEF long
<1>7. \A i \in 1..Len(long) : long[i][1] = n - Len(long) + i
  <2> SUFFICES ASSUME NEW i \in 1..Len(long)
               PROVE  long[i][1] = n - Len(long) + i
    OBVIOUS
  <2>1. CASE i <= Len(p.log)
    <3>1. i \in 1..Len(p.log)
      BY <2>1, <1>1, <1>2, <1>5
    <3>2. p.log[i][1] = p.version - Len(p.log) + i
      BY <3>1 DEF Logged
    <3>3. long[i] = p.log[i]
      BY <2>1, <1>6
    <3> QED BY <3>2, <3>3, <1>1, <1>2, <1>5
  <2>2. CASE ~(i <= Len(p.log))
    <3>1. i - Len(p.log) \in 1..Len(ids)
      BY <2>2, <1>1, <1>2, <1>5
    <3>2. long[i] = new[i - Len(p.log)]
      BY <2>2, <1>6
    <3>3. new[i - Len(p.log)][1] = p.version + (i - Len(p.log))
      BY <3>1, <1>4
    <3> QED BY <3>2, <3>3, <1>1, <1>2, <1>5
  <2> QED BY <2>1, <2>2
<1>8. bump(p, ids).version = n /\ bump(p, ids).log = Trim(long)
  BY BumpEffect DEF long, new
<1> DEFINE cut == Trim(long)
<1>9. /\ Len(cut) \in Nat
      /\ Len(cut) <= LOG_CAP
      /\ \A i \in 1..Len(cut) : cut[i][1] = n - Len(cut) + i
  <2>1. CASE Len(long) > LOG_CAP
    <3> DEFINE m == Len(long) - LOG_CAP + 1
    <3>1. m \in Int /\ Len(long) \in Int /\ m <= Len(long) /\ m > 1
      BY <2>1, <1>5, LenProperties, ConstantsAssumption DEF ConstantsAssumption
    <3>2. \A i \in m..Len(long) : long[i] \in Nat \X Id
      BY <3>1, <1>5, ElementOfSeq
    <3>3. cut = SubSeq(long, m, Len(long))
      BY <2>1 DEF Trim
    <3> HIDE DEF m
    <3>4. /\ Len(cut) = Len(long) - m + 1
          /\ \A i \in 1..Len(long) - m + 1 : cut[i] = long[m + i - 1]
      BY <3>1, <3>2, <3>3, SubSeqProperties
    <3>5. Len(cut) = LOG_CAP
      BY <3>1, <3>4, ConstantsAssumption DEF m, ConstantsAssumption
    <3>6. ASSUME NEW i \in 1..Len(cut)
          PROVE  cut[i][1] = n - Len(cut) + i
      <4>1. m + i - 1 \in 1..Len(long)
        BY <3>1, <3>4
      <4>2. cut[i][1] = n - Len(long) + (m + i - 1)
        BY <3>4, <4>1, <1>7
      <4> QED BY <4>2, <3>1, <3>4, <1>1, <1>2
    <3> QED BY <3>5, <3>6, ConstantsAssumption DEF ConstantsAssumption
  <2>2. CASE ~(Len(long) > LOG_CAP)
    <3>1. cut = long
      BY <2>2 DEF Trim
    <3> HIDE DEF cut
    <3> QED BY <2>2, <3>1, <1>5, <1>7, LenProperties, ConstantsAssumption
            DEF ConstantsAssumption
  <2> QED BY <2>1, <2>2
<1> HIDE DEF cut
<1> QED BY <1>8, <1>9 DEF Logged, cut

-----------------------------------------------------------------------------
(* One beat.                                                               *)

\* The invariant does not look at the shape or the cache.
LEMMA InvIgnores ==
  ASSUME NEW p \in Pool, NEW q \in Pool, NEW T, PoolInv(p, T),
         q.members = p.members, q.roster = p.roster, q.high = p.high,
         q.gone = p.gone, q.version = p.version, q.log = p.log
  PROVE  PoolInv(q, T)
<1>1. Guarded(q, T)
  BY DEF PoolInv, Guarded
<1>2. Printed(q)
  BY DEF PoolInv, Printed, Present, roster_hash
<1>3. Departed(q) /\ Logged(q)
  BY DEF PoolInv, Departed, Logged
<1> QED BY <1>1, <1>2, <1>3 DEF PoolInv

\* reshape() touches the shape and the cache only.
LEMMA ReshapeEffect ==
  ASSUME NEW p \in Pool, NEW b \in Beat
  PROVE  /\ reshape(p, b) \in Pool
         /\ reshape(p, b).members = p.members
         /\ reshape(p, b).roster = p.roster
         /\ reshape(p, b).high = p.high
         /\ reshape(p, b).gone = p.gone
         /\ reshape(p, b).version = p.version
         /\ reshape(p, b).log = p.log
<1>1. b.shape \in Shape /\ p.shape \in Shape /\ <<>> \in Seq(Cached)
  BY EmptySeq DEF Beat, Pool
<1> DEFINE mixed == [p.shape EXCEPT !.methods = b.shape.methods]
<1>2. mixed \in Shape
  BY <1>1 DEF Shape
<1>3. \A h \in Shape : [p EXCEPT !.cache = <<>>, !.shape = h] \in Pool
  BY <1>1, PoolUpdates
<1>4. reshape(p, b) \in {p, [p EXCEPT !.cache = <<>>, !.shape = b.shape],
                         [p EXCEPT !.cache = <<>>, !.shape = mixed]}
  BY DEF reshape, invalidate_cache, Pool
<1> HIDE DEF mixed
<1>5. reshape(p, b) \in Pool
  BY <1>1, <1>2, <1>3, <1>4
<1> QED BY <1>4, <1>5 DEF Pool

\* Taking a present member out keeps the fingerprint right: what is XORed
\* out is what was XORed in.
LEMMA VacateEffect ==
  ASSUME NEW p \in Pool, NEW id \in Id, p.members[id] # None
  PROVE  /\ vacate(p, id) \in Pool
         /\ vacate(p, id).members = [p.members EXCEPT ![id] = None]
         /\ vacate(p, id).high = p.high
         /\ vacate(p, id).gone = p.gone
         /\ vacate(p, id).version = p.version
         /\ vacate(p, id).log = p.log
         /\ Printed(p) => Printed(vacate(p, id))
<1> DEFINE h == Xor(p.roster, roster_hash(p, {id}))
           q == vacate(p, id)
<1>1. p.members \in [Id -> Record \cup {None}] /\ p.roster \in SUBSET (Id \X Nat)
  BY DEF Pool
<1>2. h \in SUBSET (Id \X Nat)
  BY <1>1 DEF Xor, roster_hash, Record
<1>3. q = [p EXCEPT !.roster = h, !.members[id] = None]
  BY DEF vacate, Pool
<1> HIDE DEF h, q
<1>4. q \in Pool
  BY <1>2, <1>3, PoolUpdates
<1>5. /\ q.members = [p.members EXCEPT ![id] = None] /\ q.roster = h
      /\ q.high = p.high /\ q.gone = p.gone
      /\ q.version = p.version /\ q.log = p.log
  BY <1>3 DEF Pool
<1>6. ASSUME Printed(p) PROVE Printed(q)
  <2>1. Present(q) = Present(p) \ {id}
    BY <1>1, <1>5 DEF Present
  <2>2. \A i \in Present(q) : q.members[i] = p.members[i]
    BY <2>1, <1>1, <1>5 DEF Present
  <2>3. roster_hash(q, Present(q)) = roster_hash(p, Present(p) \ {id})
    BY <2>1, <2>2 DEF roster_hash
  <2>4. id \in Present(p)
    BY DEF Present
  <2>5. Xor(roster_hash(p, Present(p)), roster_hash(p, {id}))
          = roster_hash(p, Present(p) \ {id})
    BY <2>4 DEF Xor, roster_hash
  <2> QED BY <1>5, <1>6, <2>3, <2>5 DEF Printed, h
<1> QED BY <1>4, <1>5, <1>6 DEF q

\* The fields of a beat.
LEMMA BeatFields ==
  ASSUME NEW b \in Beat
  PROVE  /\ b.id \in Id /\ b.incarnation \in Nat /\ b.value \in Values
         /\ b.publication \in Nat \cup {None} /\ b.seen \in Nat \cup {None}
BY DEF Beat

\* leave(): the member is out, its goodbye is remembered.
LEMMA LeaveEffect ==
  ASSUME NEW p \in Pool, NEW b \in Beat, Printed(p), Logged(p)
  PROVE  /\ leave(p, b) \in Pool
         /\ leave(p, b).members = [p.members EXCEPT ![b.id] = None]
         /\ leave(p, b).high = p.high
         /\ leave(p, b).gone =
              [p.gone EXCEPT ![b.id] = [tenure |-> b.incarnation, left |-> TTL]]
         /\ Printed(leave(p, b))
         /\ Logged(leave(p, b))
<1> DEFINE q == IF p.members[b.id] # None
                THEN bump(vacate(p, b.id), <<b.id>>) ELSE p
           g == [tenure |-> b.incarnation, left |-> TTL]
<1>1. b.id \in Id /\ b.incarnation \in Nat /\ <<b.id>> \in Seq(Id)
  BY BeatFields
<1>2. p.members \in [Id -> Record \cup {None}]
  BY DEF Pool
<1>3. /\ q \in Pool /\ q.members = [p.members EXCEPT ![b.id] = None]
      /\ q.high = p.high /\ q.gone = p.gone /\ Printed(q) /\ Logged(q)
  <2>1. CASE p.members[b.id] # None
    <3> DEFINE v == vacate(p, b.id)
    <3>1. /\ v \in Pool /\ v.members = [p.members EXCEPT ![b.id] = None]
          /\ v.high = p.high /\ v.gone = p.gone /\ Printed(v)
          /\ v.version = p.version /\ v.log = p.log
      BY <1>1, <2>1, VacateEffect
    <3> HIDE DEF v
    <3>2. Logged(v)
      BY <3>1 DEF Logged
    <3>3. q = bump(v, <<b.id>>)
      BY <2>1 DEF v
    <3> HIDE DEF q
    <3>4. /\ q \in Pool /\ q.members = v.members /\ q.roster = v.roster
          /\ q.high = v.high /\ q.gone = v.gone /\ Logged(q)
      <4>1. /\ bump(v, <<b.id>>) \in Pool
            /\ bump(v, <<b.id>>).members = v.members
            /\ bump(v, <<b.id>>).roster = v.roster
            /\ bump(v, <<b.id>>).high = v.high
            /\ bump(v, <<b.id>>).gone = v.gone
        BY <3>1, <1>1, BumpEffect
      <4>2. Logged(bump(v, <<b.id>>))
        BY <3>1, <3>2, <1>1, BumpLogged
      <4> QED BY <3>3, <4>1, <4>2
    <3>5. Printed(q)
      BY <3>1, <3>4 DEF Printed, Present, roster_hash
    <3> QED BY <3>1, <3>4, <3>5
  <2>2. CASE p.members[b.id] = None
    BY <2>2, <1>1, <1>2
  <2> QED BY <2>1, <2>2
<1>4. g \in Goodbye
  BY <1>1, ConstantsAssumption DEF Goodbye, ConstantsAssumption
<1>5. leave(p, b) = [q EXCEPT !.gone[b.id] = g]
  BY DEF leave
<1> HIDE DEF q, g
<1>6. leave(p, b) \in Pool
  <2>1. [q EXCEPT !.gone[b.id] = g] \in Pool
    BY <1>1, <1>3, <1>4, PoolUpdates
  <2> QED BY <2>1, <1>5
<1>7. /\ leave(p, b).members = q.members /\ leave(p, b).high = q.high
      /\ leave(p, b).gone = [q.gone EXCEPT ![b.id] = g]
      /\ leave(p, b).roster = q.roster
      /\ leave(p, b).version = q.version /\ leave(p, b).log = q.log
  BY <1>3, <1>5 DEF Pool
<1>8. Printed(leave(p, b)) /\ Logged(leave(p, b))
  BY <1>3, <1>7 DEF Printed, Logged, Present, roster_hash
<1> QED BY <1>3, <1>6, <1>7, <1>8 DEF g

\* renew(): the record of the same tenure stays, with its lease renewed.
LEMMA RenewEffect ==
  ASSUME NEW p \in Pool, NEW b \in Beat, holds(p, b), Printed(p), Logged(p)
  PROVE  /\ renew(p, b) \in Pool
         /\ renew(p, b).high = p.high
         /\ renew(p, b).gone = p.gone
         /\ \A id \in Id :
              IF id = b.id
              THEN /\ renew(p, b).members[id] # None
                   /\ renew(p, b).members[id].incarnation = b.incarnation
              ELSE renew(p, b).members[id] = p.members[id]
         /\ Printed(renew(p, b))
         /\ Logged(renew(p, b))
<1> DEFINE r == p.members[b.id]
           r1 == [r EXCEPT !.lease = TTL]
           r2 == [r EXCEPT !.lease = TTL, !.publication = b.publication,
                           !.value = b.value]
<1>1. /\ b.id \in Id /\ b.incarnation \in Nat /\ <<b.id>> \in Seq(Id)
      /\ b.publication \in Nat \cup {None} /\ b.value \in Values
  BY BeatFields
<1>2. r \in Record /\ r.incarnation = b.incarnation
  BY <1>1 DEF holds, Pool
<1>3. \A x \in {r1, r2} : x \in Record /\ x # None /\ x.incarnation = b.incarnation
  <2>1. TTL \in 0..TTL
    BY ConstantsAssumption DEF ConstantsAssumption
  <2> HIDE DEF r
  <2>2. r1 \in Record /\ r1.incarnation = b.incarnation
    BY <1>1, <1>2, <2>1 DEF Record
  <2>3. r2 \in Record /\ r2.incarnation = b.incarnation
    BY <1>1, <1>2, <2>1 DEF Record
  <2> HIDE DEF r1, r2
  <2> QED BY <2>2, <2>3, NoneAssumption DEF NoneAssumption
<1>4. \A x \in {r1, r2} :
        LET q == [p EXCEPT !.members[b.id] = x] IN
          /\ q \in Pool /\ q.high = p.high /\ q.gone = p.gone
          /\ q.members = [p.members EXCEPT ![b.id] = x]
          /\ q.roster = p.roster /\ q.version = p.version /\ q.log = p.log
  <2> SUFFICES ASSUME NEW x \in {r1, r2}
               PROVE LET q == [p EXCEPT !.members[b.id] = x] IN
                       /\ q \in Pool /\ q.high = p.high /\ q.gone = p.gone
                       /\ q.members = [p.members EXCEPT ![b.id] = x]
                       /\ q.roster = p.roster /\ q.version = p.version
                       /\ q.log = p.log
    OBVIOUS
  <2>1. x \in Record
    BY <1>3
  <2> HIDE DEF r1, r2
  <2>2. [p EXCEPT !.members[b.id] = x] \in Pool
    BY <1>1, <2>1, PoolUpdates
  <2> QED BY <2>2 DEF Pool
<1>5. \E x \in {r1, r2} :
        \/ renew(p, b) = [p EXCEPT !.members[b.id] = x]
        \/ renew(p, b) = bump([p EXCEPT !.members[b.id] = x], <<b.id>>)
  BY DEF renew
<1> HIDE DEF r, r1, r2
<1>6. PICK x \in {r1, r2} :
        \/ renew(p, b) = [p EXCEPT !.members[b.id] = x]
        \/ renew(p, b) = bump([p EXCEPT !.members[b.id] = x], <<b.id>>)
  BY <1>5
<1> DEFINE q == [p EXCEPT !.members[b.id] = x]
<1>7. /\ q \in Pool /\ q.high = p.high /\ q.gone = p.gone
      /\ q.members = [p.members EXCEPT ![b.id] = x]
      /\ q.roster = p.roster /\ q.version = p.version /\ q.log = p.log
  BY <1>4
<1>8. x \in Record /\ x # None /\ x.incarnation = b.incarnation
  BY <1>3
<1>9. renew(p, b) \in {q, bump(q, <<b.id>>)}
  BY <1>6
<1> HIDE DEF q
<1>10. Printed(q) /\ Logged(q)
  <2>1. p.members \in [Id -> Record \cup {None}] /\ p.members[b.id] # None
    BY DEF Pool, holds
  <2>2. Present(q) = Present(p)
    BY <2>1, <1>1, <1>7, <1>8 DEF Present
  <2>3. \A id \in Id : q.members[id].incarnation = p.members[id].incarnation
    BY <2>1, <1>1, <1>2, <1>7, <1>8 DEF r
  <2>4. roster_hash(q, Present(q)) = roster_hash(p, Present(p))
    BY <2>2, <2>3 DEF roster_hash, Present
  <2> QED BY <2>4, <1>7 DEF Printed, Logged
<1>11. bump(q, <<b.id>>) \in Pool /\ Logged(bump(q, <<b.id>>))
       /\ bump(q, <<b.id>>).members = q.members
       /\ bump(q, <<b.id>>).roster = q.roster
       /\ bump(q, <<b.id>>).high = q.high
       /\ bump(q, <<b.id>>).gone = q.gone
  BY <1>1, <1>7, <1>10, BumpEffect, BumpLogged
<1>12. Printed(bump(q, <<b.id>>))
  BY <1>10, <1>11 DEF Printed, Present, roster_hash
<1>13. \A id \in Id : q.members[id] = IF id = b.id THEN x ELSE p.members[id]
  BY <1>1, <1>7 DEF Pool
<1>14. CASE renew(p, b) = q
  BY <1>7, <1>8, <1>10, <1>13, <1>14
<1>15. CASE renew(p, b) = bump(q, <<b.id>>)
  <2>1. \A id \in Id :
          bump(q, <<b.id>>).members[id] = IF id = b.id THEN x ELSE p.members[id]
    BY <1>11, <1>13
  <2> QED BY <1>7, <1>8, <1>11, <1>12, <1>15, <2>1
<1> QED BY <1>9, <1>14, <1>15

\* Writing an absent member in keeps the fingerprint right.
LEMMA EnterPrinted ==
  ASSUME NEW p \in Pool, NEW id \in Id, NEW r \in Record, Printed(p),
         p.members[id] = None,
         NEW q \in Pool, q.members = [p.members EXCEPT ![id] = r],
         q.roster = Xor(p.roster, {<<id, r.incarnation>>})
  PROVE  Printed(q)
<1>1. p.members \in [Id -> Record \cup {None}] /\ r # None
  BY NoneAssumption DEF Pool, NoneAssumption
<1>2. Present(q) = Present(p) \cup {id} /\ id \notin Present(p)
  BY <1>1 DEF Present
<1>3. \A i \in Present(p) : q.members[i] = p.members[i]
  BY <1>1, <1>2 DEF Present
<1>4. q.members[id] = r
  BY <1>1
<1>5. roster_hash(q, Present(q))
        = roster_hash(p, Present(p)) \cup {<<id, r.incarnation>>}
  BY <1>2, <1>3, <1>4 DEF roster_hash
<1>6. <<id, r.incarnation>> \notin roster_hash(p, Present(p))
  BY <1>2 DEF roster_hash
<1> QED BY <1>5, <1>6 DEF Printed, Xor

\* arrive(): the beat's tenure holds the id, whoever held it before.
LEMMA ArriveEffect ==
  ASSUME NEW p \in Pool, NEW b \in Beat, Printed(p), Logged(p)
  PROVE  /\ arrive(p, b) \in Pool
         /\ arrive(p, b).high = p.high
         /\ arrive(p, b).gone = p.gone
         /\ \A id \in Id :
              IF id = b.id
              THEN /\ arrive(p, b).members[id] # None
                   /\ arrive(p, b).members[id].incarnation = b.incarnation
              ELSE arrive(p, b).members[id] = p.members[id]
         /\ Printed(arrive(p, b))
         /\ Logged(arrive(p, b))
<1> DEFINE q == IF p.members[b.id] # None THEN vacate(p, b.id) ELSE p
           r == [incarnation |-> b.incarnation, publication |-> b.publication,
                 value |-> b.value, lease |-> TTL]
           h == Xor(q.roster, {<<b.id, b.incarnation>>})
           w == [q EXCEPT !.roster = h, !.members[b.id] = r]
<1>1. /\ b.id \in Id /\ b.incarnation \in Nat /\ <<b.id>> \in Seq(Id)
      /\ b.publication \in Nat \cup {None} /\ b.value \in Values
  BY BeatFields
<1>2. p.members \in [Id -> Record \cup {None}]
  BY DEF Pool
<1>3. /\ q \in Pool /\ q.members = [p.members EXCEPT ![b.id] = None]
      /\ q.high = p.high /\ q.gone = p.gone
      /\ q.version = p.version /\ q.log = p.log /\ Printed(q)
  <2>1. CASE p.members[b.id] # None
    BY <2>1, <1>1, VacateEffect
  <2>2. CASE p.members[b.id] = None
    BY <2>2, <1>1, <1>2
  <2> QED BY <2>1, <2>2
<1>4. r \in Record /\ r # None /\ r.incarnation = b.incarnation
  <2>1. TTL \in 0..TTL
    BY ConstantsAssumption DEF ConstantsAssumption
  <2>2. r \in Record
    BY <1>1, <2>1 DEF Record
  <2> QED BY <2>2, NoneAssumption DEF NoneAssumption
<1>5. arrive(p, b) = bump(w, <<b.id>>)
  BY <1>3 DEF arrive, Pool
<1> HIDE DEF q, r
<1>6. h \in SUBSET (Id \X Nat)
  BY <1>1, <1>3 DEF Pool, Xor
<1> HIDE DEF h
<1>7. w \in Pool
  BY <1>1, <1>3, <1>4, <1>6, PoolUpdates
<1>8. /\ w.members = [q.members EXCEPT ![b.id] = r] /\ w.roster = h
      /\ w.high = q.high /\ w.gone = q.gone
      /\ w.version = q.version /\ w.log = q.log
  BY <1>3 DEF Pool
<1> HIDE DEF w
<1>9. q.members[b.id] = None
  BY <1>1, <1>2, <1>3
<1>10. h = Xor(q.roster, {<<b.id, r.incarnation>>})
  BY <1>4 DEF h
<1>11. Printed(w)
  <2>1. q \in Pool /\ Printed(q) /\ b.id \in Id /\ r \in Record
    BY <1>1, <1>3, <1>4
  <2>2. /\ w.members = [q.members EXCEPT ![b.id] = r]
        /\ w.roster = Xor(q.roster, {<<b.id, r.incarnation>>})
    BY <1>8, <1>10
  <2> QED BY <2>1, <2>2, <1>7, <1>9, EnterPrinted
<1>12. Logged(w)
  BY <1>3, <1>8 DEF Logged
<1>13. /\ arrive(p, b) \in Pool
       /\ arrive(p, b).members = w.members /\ arrive(p, b).roster = w.roster
       /\ arrive(p, b).high = w.high /\ arrive(p, b).gone = w.gone
  <2>1. /\ bump(w, <<b.id>>) \in Pool
        /\ bump(w, <<b.id>>).members = w.members
        /\ bump(w, <<b.id>>).roster = w.roster
        /\ bump(w, <<b.id>>).high = w.high /\ bump(w, <<b.id>>).gone = w.gone
    BY <1>1, <1>7, BumpEffect
  <2> QED BY <2>1, <1>5
<1>14. Logged(arrive(p, b))
  <2>1. Logged(bump(w, <<b.id>>))
    BY <1>1, <1>7, <1>12, BumpLogged
  <2> QED BY <2>1, <1>5
<1>15. Printed(arrive(p, b))
  BY <1>11, <1>13 DEF Printed, Present, roster_hash
<1>16. \A id \in Id : w.members[id] = IF id = b.id THEN r ELSE p.members[id]
  BY <1>1, <1>2, <1>3, <1>8
<1> QED BY <1>3, <1>4, <1>8, <1>13, <1>14, <1>15, <1>16

\* raise_watermark() moves the watermark of a seat up to the beat's tenure.
LEMMA WatermarkEffect ==
  ASSUME NEW p \in Pool, NEW b \in Beat
  PROVE  /\ raise_watermark(p, b) \in Pool
         /\ raise_watermark(p, b).members = p.members
         /\ raise_watermark(p, b).roster = p.roster
         /\ raise_watermark(p, b).gone = p.gone
         /\ raise_watermark(p, b).version = p.version
         /\ raise_watermark(p, b).log = p.log
         /\ raise_watermark(p, b).high =
              [p.high EXCEPT ![b.id] =
                 IF b.id \in Seats /\ b.incarnation > @ THEN b.incarnation ELSE @]
<1>1. b.id \in Id /\ b.incarnation \in Nat /\ p.high \in [Id -> Nat]
  BY BeatFields DEF Pool
<1>2. CASE b.id \in Seats /\ b.incarnation > p.high[b.id]
  <2>1. raise_watermark(p, b) = [p EXCEPT !.high[b.id] = b.incarnation]
    BY <1>2 DEF raise_watermark
  <2>2. [p EXCEPT !.high[b.id] = b.incarnation] \in Pool
    BY <1>1, PoolUpdates
  <2> QED BY <1>1, <1>2, <2>1, <2>2 DEF Pool
<1>3. CASE ~(b.id \in Seats /\ b.incarnation > p.high[b.id])
  <2>1. raise_watermark(p, b) = p
    BY <1>3 DEF raise_watermark
  <2> QED BY <1>1, <1>3, <2>1
<1> QED BY <1>2, <1>3

\* The history after a beat.
Took(p, b, T) ==
  IF ~superseded(p, b) /\ ~b.leaving THEN T \cup {<<b.id, b.incarnation>>} ELSE T

\* A seat is settled without breaking the invariant, whoever asks for it.
LEMMA SettleInv ==
  ASSUME NEW p \in Pool, NEW b \in Beat, NEW T \in SUBSET (Id \X Nat),
         PoolInv(p, T)
  PROVE  PoolInv(settle(p, b), Took(p, b, T))
<1> DEFINE q == settle(p, b)
<1>1. b.id \in Id /\ b.incarnation \in Nat
  BY BeatFields
<1>2. p.high \in [Id -> Nat] /\ p.members \in [Id -> Record \cup {None}]
      /\ p.gone \in [Id -> Goodbye \cup {None}]
  BY DEF Pool
<1>3. Guarded(p, T) /\ Printed(p) /\ Departed(p) /\ Logged(p)
  BY DEF PoolInv
<1>4. \A e \in T : e[1] \in Id /\ e[2] \in Nat
  OBVIOUS
<1>5. CASE superseded(p, b)
  BY <1>5 DEF settle, Took
<1>6. CASE ~superseded(p, b) /\ b.leaving
  <2> DEFINE l == leave(p, b)
  <2>1. q = raise_watermark(l, b) /\ Took(p, b, T) = T
    BY <1>6 DEF settle, Took
  <2>2. /\ l \in Pool /\ l.members = [p.members EXCEPT ![b.id] = None]
        /\ l.high = p.high
        /\ l.gone = [p.gone EXCEPT ![b.id] =
                       [tenure |-> b.incarnation, left |-> TTL]]
        /\ Printed(l) /\ Logged(l)
    BY <1>3, LeaveEffect
  <2> HIDE DEF q, l
  <2>3. /\ q \in Pool /\ q.members = l.members /\ q.roster = l.roster
        /\ q.gone = l.gone /\ q.version = l.version /\ q.log = l.log
        /\ q.high = [l.high EXCEPT ![b.id] =
             IF b.id \in Seats /\ b.incarnation > @ THEN b.incarnation ELSE @]
    BY <2>1, <2>2, WatermarkEffect
  <2>4. Printed(q) /\ Logged(q)
    BY <2>2, <2>3 DEF Printed, Logged, Present, roster_hash
  <2>5. \A id \in Id : q.members[id] = IF id = b.id THEN None ELSE p.members[id]
    BY <1>1, <1>2, <2>2, <2>3
  <2>6. \A id \in Id : /\ q.high[id] \in Nat
                       /\ q.high[id] >= p.high[id]
                       /\ id # b.id => q.high[id] = p.high[id]
    BY <1>1, <1>2, <2>2, <2>3
  <2>7. Guarded(q, T)
    BY <1>2, <1>3, <1>4, <2>5, <2>6 DEF Guarded, Id
  <2>8. Departed(q)
    BY <1>1, <1>2, <1>3, <2>2, <2>3, <2>5 DEF Departed
  <2> QED BY <2>1, <2>3, <2>4, <2>7, <2>8 DEF PoolInv, q
<1>7. CASE ~superseded(p, b) /\ ~b.leaving
  <2> DEFINE w == IF holds(p, b) THEN renew(p, b) ELSE arrive(p, b)
  <2>1. q = raise_watermark(w, b) /\ Took(p, b, T) = T \cup {<<b.id, b.incarnation>>}
    BY <1>7 DEF settle, Took
  <2>2. /\ w \in Pool /\ w.high = p.high /\ w.gone = p.gone
        /\ \A id \in Id :
             IF id = b.id
             THEN w.members[id] # None /\ w.members[id].incarnation = b.incarnation
             ELSE w.members[id] = p.members[id]
        /\ Printed(w) /\ Logged(w)
    <3>1. CASE holds(p, b)
      BY <3>1, <1>3, RenewEffect
    <3>2. CASE ~holds(p, b)
      BY <3>2, <1>3, ArriveEffect
    <3> QED BY <3>1, <3>2
  <2> HIDE DEF q, w
  <2>3. /\ q \in Pool /\ q.members = w.members /\ q.roster = w.roster
        /\ q.gone = w.gone /\ q.version = w.version /\ q.log = w.log
        /\ q.high = [w.high EXCEPT ![b.id] =
             IF b.id \in Seats /\ b.incarnation > @ THEN b.incarnation ELSE @]
    BY <2>1, <2>2, WatermarkEffect
  <2>4. Printed(q) /\ Logged(q)
    BY <2>2, <2>3 DEF Printed, Logged, Present, roster_hash
  <2>5. \A id \in Id :
          IF id = b.id
          THEN q.members[id] # None /\ q.members[id].incarnation = b.incarnation
          ELSE q.members[id] = p.members[id]
    BY <2>2, <2>3
  <2>6. \A id \in Id : /\ q.high[id] \in Nat
                       /\ q.high[id] >= p.high[id]
                       /\ id # b.id => q.high[id] = p.high[id]
    BY <1>1, <1>2, <2>2, <2>3
  <2>7. b.id \in Seats => q.high[b.id] = b.incarnation
    <3>1. ~(b.incarnation < p.high[b.id])
      BY <1>7 DEF superseded
    <3> QED BY <3>1, <1>1, <1>2, <2>2, <2>3
  <2>8. Guarded(q, T \cup {<<b.id, b.incarnation>>})
    BY <1>1, <1>2, <1>3, <1>4, <2>5, <2>6, <2>7 DEF Guarded, Id
  <2>9. Departed(q)
    <3>1. p.gone[b.id] # None => b.incarnation > p.gone[b.id].tenure
      BY <1>1, <1>2, <1>7 DEF superseded, straggler, Goodbye
    <3> QED BY <3>1, <1>1, <1>3, <2>2, <2>3, <2>5 DEF Departed
  <2> QED BY <2>1, <2>3, <2>4, <2>8, <2>9 DEF PoolInv, q
<1> QED BY <1>5, <1>6, <1>7

\* The whole of beat_shared() preserves the invariant.
LEMMA BeatInv ==
  ASSUME NEW p \in Pool, NEW b \in Beat, NEW T \in SUBSET (Id \X Nat),
         PoolInv(p, T)
  PROVE  PoolInv(beat_shared(p, b),
                 IF accepts(p, b) /\ ~b.leaving
                 THEN T \cup {<<b.id, b.incarnation>>} ELSE T)
<1> DEFINE d == decided(p, b)
           U == IF accepts(p, b) /\ ~b.leaving
                THEN T \cup {<<b.id, b.incarnation>>} ELSE T
<1>1. PoolInv(d, U)
  <2>1. CASE refused(p, b)
    BY <2>1 DEF decided, accepts
  <2>2. CASE ~refused(p, b)
    <3> DEFINE r == reshape(p, b)
    <3>1. /\ r \in Pool /\ r.members = p.members /\ r.roster = p.roster
          /\ r.high = p.high /\ r.gone = p.gone
          /\ r.version = p.version /\ r.log = p.log
      BY ReshapeEffect
    <3> HIDE DEF r
    <3>2. PoolInv(r, T)
      BY <3>1, InvIgnores
    <3>3. PoolInv(settle(r, b), Took(r, b, T))
      BY <3>1, <3>2, SettleInv
    <3>4. superseded(r, b) = superseded(p, b)
      BY <3>1 DEF superseded, occupied, straggler
    <3>5. Took(r, b, T) = U
      BY <3>4, <2>2 DEF Took, accepts
    <3> QED BY <3>3, <3>5, <2>2 DEF decided, r
  <2> QED BY <2>1, <2>2
<1>2. d \in Pool
  BY <1>1 DEF PoolInv
<1> HIDE DEF d, U
<1>3. PICK cache \in Seq(Cached) : after_delta(d, b.seen) = [d EXCEPT !.cache = cache]
  BY <1>2, BeatFields, AfterDeltaEffect
<1> DEFINE a == [d EXCEPT !.cache = cache]
<1>4. /\ a \in Pool /\ a.members = d.members /\ a.roster = d.roster
      /\ a.high = d.high /\ a.gone = d.gone
      /\ a.version = d.version /\ a.log = d.log
  <2>1. a \in Pool
    BY <1>2, PoolUpdates
  <2> QED BY <2>1, <1>2 DEF Pool
<1> HIDE DEF a
<1>5. PoolInv(a, U)
  BY <1>1, <1>2, <1>4, InvIgnores
<1>6. beat_shared(p, b) \in {d, a}
  BY <1>3 DEF beat_shared, d, a
<1> QED BY <1>1, <1>5, <1>6 DEF U

-----------------------------------------------------------------------------
(* Time and the sweeper.                                                   *)

\* Time passing moves no member, tenure or version.
LEMMA ElapseInv ==
  ASSUME NEW p \in Pool, NEW T, PoolInv(p, T)
  PROVE  PoolInv(elapse(p), T)
<1> DEFINE m == [id \in Id |-> IF p.members[id] = None THEN None
                   ELSE [p.members[id] EXCEPT !.lease = Left(@)]]
           g == [id \in Id |-> IF p.gone[id] = None THEN None
                   ELSE [p.gone[id] EXCEPT !.left = Left(@)]]
           q == [p EXCEPT !.members = m, !.gone = g]
<1>1. p.members \in [Id -> Record \cup {None}]
      /\ p.gone \in [Id -> Goodbye \cup {None}]
  BY DEF Pool
<1>2. \A n \in 0..TTL : Left(n) \in 0..TTL
  BY ConstantsAssumption DEF Left, ConstantsAssumption
<1>3. \A id \in Id :
        IF p.members[id] = None THEN m[id] = None
        ELSE /\ m[id] \in Record
             /\ m[id].incarnation = p.members[id].incarnation
  BY <1>1, <1>2 DEF Record
<1>4. \A id \in Id :
        IF p.gone[id] = None THEN g[id] = None
        ELSE g[id] \in Goodbye /\ g[id].tenure = p.gone[id].tenure
  BY <1>1, <1>2 DEF Goodbye
<1>5. elapse(p) = q
  BY DEF elapse, Pool
<1>6. m \in [Id -> Record \cup {None}] /\ g \in [Id -> Goodbye \cup {None}]
  BY <1>3, <1>4
<1> HIDE DEF m, g
<1>7. q \in Pool
  BY <1>6, PoolUpdates
<1>8. /\ q.members = m /\ q.gone = g /\ q.high = p.high /\ q.roster = p.roster
      /\ q.version = p.version /\ q.log = p.log
  BY DEF Pool
<1> HIDE DEF q
<1>9. \A id \in Id : /\ q.members[id] = None <=> p.members[id] = None
                     /\ q.members[id] # None =>
                          q.members[id].incarnation = p.members[id].incarnation
  BY <1>3, <1>8, NoneAssumption DEF NoneAssumption
<1>10. Guarded(q, T)
  BY <1>8, <1>9 DEF PoolInv, Guarded, Id
<1>11. Printed(q)
  <2>1. Present(q) = Present(p)
    BY <1>9 DEF Present
  <2>2. \A id \in Present(p) : q.members[id].incarnation = p.members[id].incarnation
    BY <1>9 DEF Present
  <2>3. roster_hash(q, Present(q)) = roster_hash(p, Present(p))
    BY <2>1, <2>2 DEF roster_hash
  <2> QED BY <2>3, <1>8 DEF Printed, PoolInv
<1>12. Departed(q)
  BY <1>4, <1>8, <1>9 DEF PoolInv, Departed
<1>13. Logged(q)
  BY <1>8 DEF PoolInv, Logged
<1> QED BY <1>5, <1>7, <1>10, <1>11, <1>12, <1>13 DEF PoolInv

\* The sweeper takes out exactly what it XORs out, in whatever order.
LEMMA SweepInv ==
  ASSUME NEW p \in Pool, NEW T, PoolInv(p, T), NEW order \in Orders(Dead(p))
  PROVE  PoolInv(sweep(p, order), T)
<1> DEFINE dead == {order[i] : i \in 1..Len(order)}
           g == [id \in Id |->
                  IF p.gone[id] = None \/ p.gone[id].left = 0
                  THEN None ELSE p.gone[id]]
           q == [p EXCEPT !.gone = g]
           h == Xor(q.roster, roster_hash(q, dead))
           m == [id \in Id |-> IF id \in dead THEN None ELSE q.members[id]]
           r == [q EXCEPT !.roster = h, !.members = m]
<1>1. order \in Seq(Id) /\ dead \in SUBSET Present(p)
  <2>1. PICK n \in 0..Cardinality(Dead(p)) : order \in [1..n -> Dead(p)]
    BY DEF Orders
  <2>2. Dead(p) \subseteq Present(p) /\ Present(p) \subseteq Id
    BY DEF Dead, Present
  <2>3. n \in Nat
    <3>1. IsFiniteSet(Dead(p))
      BY <2>2, ConstantsAssumption, FS_Subset DEF ConstantsAssumption
    <3>2. Cardinality(Dead(p)) \in Nat
      BY <3>1, FS_CardinalityType
    <3> QED BY <3>2
  <2>4. order \in Seq(Dead(p)) /\ Len(order) = n
    BY <2>1, <2>3
  <2> QED BY <2>1, <2>2, <2>3, <2>4
<1>2. p.members \in [Id -> Record \cup {None}] /\ p.high \in [Id -> Nat]
      /\ p.gone \in [Id -> Goodbye \cup {None}]
      /\ p.roster \in SUBSET (Id \X Nat)
  BY DEF Pool
<1>3. g \in [Id -> Goodbye \cup {None}] /\ \A id \in Id : g[id] \in {None, p.gone[id]}
  BY <1>2
<1>4. sweep(p, order) = IF order = <<>> THEN q ELSE bump(r, order)
  BY DEF sweep, Pool
<1> HIDE DEF g
<1>5. q \in Pool
  BY <1>3, PoolUpdates
<1>6. /\ q.members = p.members /\ q.gone = g /\ q.high = p.high
      /\ q.roster = p.roster /\ q.version = p.version /\ q.log = p.log
  BY DEF Pool
<1> HIDE DEF q, dead
<1>7. Guarded(q, T) /\ Departed(q) /\ Logged(q)
  BY <1>3, <1>6 DEF PoolInv, Guarded, Departed, Logged
<1>8. Printed(q)
  BY <1>6 DEF PoolInv, Printed, Present, roster_hash
<1>9. h \in SUBSET (Id \X Nat)
  <2>1. \A id \in dead : id \in Id /\ q.members[id].incarnation \in Nat
    BY <1>1, <1>2, <1>6 DEF Present, Record
  <2>2. roster_hash(q, dead) \in SUBSET (Id \X Nat)
    BY <2>1 DEF roster_hash
  <2> QED BY <1>2, <1>6, <2>2 DEF Xor
<1>10. m \in [Id -> Record \cup {None}]
       /\ \A id \in Id : m[id] = IF id \in dead THEN None ELSE p.members[id]
  BY <1>2, <1>6
<1> HIDE DEF h, m
<1>11. r \in Pool
  BY <1>5, <1>9, <1>10, PoolUpdates
<1>12. /\ r.members = m /\ r.gone = q.gone /\ r.high = q.high
       /\ r.roster = h /\ r.version = q.version /\ r.log = q.log
  BY <1>5 DEF Pool
<1> HIDE DEF r
<1>13. Guarded(r, T) /\ Departed(r) /\ Logged(r)
  BY <1>6, <1>7, <1>10, <1>12 DEF Guarded, Departed, Logged, Id
<1>14. Printed(r)
  <2>1. Present(r) = Present(q) \ dead
    BY <1>6, <1>10, <1>12 DEF Present
  <2>2. \A id \in Present(q) \ dead : r.members[id] = q.members[id]
    BY <1>6, <1>10, <1>12 DEF Present
  <2>3. roster_hash(r, Present(r)) = roster_hash(q, Present(q) \ dead)
    BY <2>1, <2>2 DEF roster_hash
  <2>4. dead \subseteq Present(q)
    BY <1>1, <1>6 DEF Present
  <2>5. Xor(roster_hash(q, Present(q)), roster_hash(q, dead))
          = roster_hash(q, Present(q) \ dead)
    BY <2>4 DEF Xor, roster_hash
  <2> QED BY <1>8, <1>12, <2>3, <2>5 DEF Printed, h
<1>15. /\ bump(r, order) \in Pool
       /\ bump(r, order).members = r.members /\ bump(r, order).roster = r.roster
       /\ bump(r, order).high = r.high /\ bump(r, order).gone = r.gone
  BY <1>1, <1>11, BumpEffect
<1>16. Logged(bump(r, order))
  BY <1>1, <1>11, <1>13, BumpLogged
<1>17. Guarded(bump(r, order), T) /\ Departed(bump(r, order))
       /\ Printed(bump(r, order))
  BY <1>13, <1>14, <1>15
     DEF Guarded, Departed, Printed, Present, roster_hash
<1> QED BY <1>4, <1>5, <1>7, <1>8, <1>15, <1>16, <1>17 DEF PoolInv

-----------------------------------------------------------------------------
(* The theorems.                                                           *)

Inv == taken \in SUBSET (Id \X Nat) /\ PoolInv(pool, taken)

\* The empty pool satisfies the invariant.
LEMMA InitInv == Init => Inv
<1> SUFFICES ASSUME Init PROVE Inv
  OBVIOUS
<1>1. pool = DefaultPool /\ taken = {}
  BY DEF Init
<1>2. <<>> \in Seq(Nat \X Id) /\ <<>> \in Seq(Cached)
  BY EmptySeq
<1>3. pool \in Pool
  <2>1. [policy |-> NoPolicy, size |-> None, methods |-> {}] \in Shape
    BY ConstantsAssumption DEF Shape, ConstantsAssumption
  <2>2. /\ [id \in Id |-> None] \in [Id -> Record \cup {None}]
        /\ [id \in Id |-> 0] \in [Id -> Nat]
        /\ [id \in Id |-> None] \in [Id -> Goodbye \cup {None}]
    OBVIOUS
  <2> QED BY <1>1, <1>2, <2>1, <2>2 DEF DefaultPool, Pool
<1>4. /\ pool.members = [id \in Id |-> None] /\ pool.roster = {}
      /\ pool.log = <<>>
  BY <1>1 DEF DefaultPool
<1>5. Printed(pool)
  BY <1>4 DEF Printed, Present, roster_hash
<1>6. Guarded(pool, taken) /\ Departed(pool)
  BY <1>1, <1>4 DEF Guarded, Departed, Id
<1>7. Logged(pool)
  BY <1>4, ConstantsAssumption DEF Logged, ConstantsAssumption
<1> QED BY <1>1, <1>3, <1>5, <1>6, <1>7 DEF Inv, PoolInv

\* Every critical section of the registry preserves it.
LEMMA NextInv == Inv /\ [Next]_vars => Inv'
<1> SUFFICES ASSUME Inv, [Next]_vars PROVE Inv'
  OBVIOUS
<1>1. pool \in Pool /\ taken \in SUBSET (Id \X Nat) /\ PoolInv(pool, taken)
  BY DEF Inv, PoolInv
<1>2. Beats \subseteq Beat
  BY ConstantsAssumption DEF ConstantsAssumption
<1>3. ASSUME NEW b \in Beats, HandleBeat(b) PROVE Inv'
  <2>1. b \in Beat
    BY <1>2
  <2>2. PoolInv(pool', taken')
    BY <1>1, <1>3, <2>1, BeatInv DEF HandleBeat
  <2>3. taken' \in SUBSET (Id \X Nat)
    BY <1>1, <1>3, <2>1, BeatFields DEF HandleBeat
  <2> QED BY <2>2, <2>3 DEF Inv
<1>4. ASSUME NEW b \in Beats, Look(b) PROVE Inv'
  <2>1. b.seen \in Nat \cup {None}
    BY <1>2, BeatFields
  <2>2. PICK cache \in Seq(Cached) : pool' = [pool EXCEPT !.cache = cache]
    BY <1>1, <1>4, <2>1, AfterDeltaEffect DEF Look
  <2>3. pool' \in Pool
    <3>1. [pool EXCEPT !.cache = cache] \in Pool
      BY <1>1, PoolUpdates
    <3> QED BY <3>1, <2>2
  <2>4. /\ pool'.members = pool.members /\ pool'.roster = pool.roster
        /\ pool'.high = pool.high /\ pool'.gone = pool.gone
        /\ pool'.version = pool.version /\ pool'.log = pool.log
    BY <1>1, <2>2 DEF Pool
  <2>5. PoolInv(pool', taken)
    BY <1>1, <2>3, <2>4, InvIgnores
  <2> QED BY <1>1, <1>4, <2>5 DEF Look, Inv
<1>5. CASE Tick
  <2>1. PoolInv(pool', taken)
    BY <1>1, <1>5, ElapseInv DEF Tick
  <2> QED BY <1>1, <1>5, <2>1 DEF Tick, Inv
<1>6. CASE Sweep
  <2>1. PoolInv(pool', taken)
    BY <1>1, <1>6, SweepInv DEF Sweep
  <2> QED BY <1>1, <1>6, <2>1 DEF Sweep, Inv
<1>7. CASE UNCHANGED vars
  BY <1>1, <1>7 DEF vars, Inv
<1> QED BY <1>3, <1>4, <1>5, <1>6, <1>7 DEF Next

\* The inductive invariant holds of every pool the registry can reach.
THEOREM Invariance == Spec => []Inv
BY InitInv, NextInv, PTL DEF Spec

\* Records, watermarks, goodbyes, log and delta cache of Pool keep their
\* types for any constants.
THEOREM TypeCorrect == Spec => []TypeOK
<1>1. Inv => TypeOK
  BY DEF Inv, PoolInv, TypeOK
<1> QED BY <1>1, Invariance, PTL

\* No tenure outlives its successor: beat_shared never gives a seat back to a
\* tenure lower than one it was ever given to, for any number of processes,
\* beats, goodbyes, lapses and sweeps in any order.
THEOREM SeatFencing == Spec => []SeatIsFenced
<1>1. Inv => SeatIsFenced
  <2> SUFFICES ASSUME Inv, NEW e \in taken, e[1] \in Seats,
                      pool.members[e[1]] # None
               PROVE  e[2] <= pool.members[e[1]].incarnation
    BY DEF SeatIsFenced
  <2> QED BY DEF Inv, PoolInv, Guarded
<1> QED BY <1>1, Invariance, PTL

\* The incrementally XORed fingerprint is always that of the present members.
THEOREM RosterFingerprint == Spec => []RosterIsMembership
<1>1. Inv => RosterIsMembership
  BY DEF Inv, PoolInv, Printed, RosterIsMembership
<1> QED BY <1>1, Invariance, PTL

\* A remembered goodbye keeps its tenure and all earlier ones out.
THEOREM GoodbyeHeld == Spec => []GoodbyeIsHeld
<1>1. Inv => GoodbyeIsHeld
  BY DEF Inv, PoolInv, Departed, GoodbyeIsHeld
<1> QED BY <1>1, Invariance, PTL

\* The change log is a gapless window that ends at the current version.
THEOREM LogContiguous == Spec => []LogIsContiguous
<1>1. Inv => LogIsContiguous
  BY DEF Inv, PoolInv, Logged, LogIsContiguous
<1> QED BY <1>1, Invariance, PTL

=============================================================================
