----------------------------- MODULE Membership -----------------------------
(***************************************************************************)
(* One member and the registry: the heartbeat loop, the one-shot beats of  *)
(* join() and leave(), and the local copy of the pool they keep            *)
(* (crates/tinyray-membership/src/heartbeat.rs and shared.rs, and join and *)
(* leave_inner of crates/tinyray/src/member.rs), against a registry that   *)
(* also hears other members (the CONSTANT Beats of Registry), holds        *)
(* answers back, and may restart with nothing remembered.                  *)
(*                                                                         *)
(* A request that its sender gave up on may still arrive.  It does so      *)
(* within MaxDelay ticks or never; the registry's memory of goodbyes       *)
(* counts on that being less than a lease (state.rs:345-347).              *)
(***************************************************************************)
EXTENDS Registry

CONSTANTS
  Me, Tenure, MyShape,  \* this member
  MaxPublication,       \* bound on what it publishes
  MaxDelay,             \* ticks a request may be on its way
  MaxOrphans,           \* bound on abandoned requests still on their way
  MaxEpoch,             \* bound on registry processes
  OneShots              \* whether join() and leave() send beats of their own

Sender == {"loop", "once"}

CachedPool == [version : Nat, roster : SUBSET (Id \X Nat), members : SUBSET Member]

Ack == [epoch : Nat, accepted : BOOLEAN, delta : PoolDelta \cup {None}]

Exchange ==
  [beat : Beat, hold : BOOLEAN, age : 0..MaxDelay,
   phase : {"out", "held", "back", "clearing", "applying", "lost"},
   ack : Ack \cup {None}, restarted : BOOLEAN]

ASSUME MemberAssumption ==
  /\ Me \in Id /\ Tenure \in Nat /\ MyShape \in Shape
  /\ MaxPublication \in Nat /\ 0..MaxPublication \subseteq Values
  /\ MaxDelay \in Nat /\ MaxDelay < TTL
  /\ MaxOrphans \in Nat /\ MaxEpoch \in Nat
  /\ OneShots \in BOOLEAN

VARIABLES
  epoch,            \* the registry process now running
  published,        \* Published.version, and what it stands for
  wake,             \* a permit in Shared.wake
  leaving, accepted, beats_ok, confirmed, parks, seen_epoch, cache,
  loop,             \* where the beat loop is
  cancelled_last,
  once,             \* where the thread of join() and leave() is
  sent,             \* the exchange each sender waits for
  orphans,          \* requests given up on
  stored,           \* history: latest publication this registry stored
  proven,           \* history: latest publication any registry stored
  parted            \* history: this registry accepted a goodbye

registry == <<pool, taken, epoch>>
member == <<published, wake, leaving, accepted, beats_ok, confirmed, parks,
            seen_epoch, cache, loop, cancelled_last, once>>
history == <<stored, proven, parted>>
mvars == <<registry, member, sent, orphans, history>>

-----------------------------------------------------------------------------
(* The member's side of an exchange.                                       *)

compose ==
  [id |-> Me, incarnation |-> Tenure, publication |-> published,
   value |-> published, shape |-> MyShape, leaving |-> leaving,
   exclusive |-> FALSE, fits |-> TRUE, watch |-> TRUE,
   seen |-> IF cache = None THEN None ELSE cache.version]

post(hold) ==
  [beat |-> compose, hold |-> hold, phase |-> "out", age |-> 0,
   ack |-> None, restarted |-> FALSE]

\* apply() does not await: no exchange is dropped in the middle of it.
Interruptible(x) == x.phase \notin {"clearing", "applying"}

\* Dropping an exchange leaves its request, if not yet there, on its way.
Abandon(who) ==
  /\ sent' = [s \in Sender |-> IF s \in who THEN None ELSE sent[s]]
  /\ orphans' = orphans \cup
       {[beat |-> sent[s].beat, age |-> sent[s].age] :
          s \in {x \in who : sent[x] # None /\ sent[x].phase = "out"}}
  /\ Cardinality(orphans') <= MaxOrphans

\* The cached pool after a delta.
apply_delta(c, d) ==
  [version |-> d.version, roster |-> d.roster,
   members |-> d.changed \cup
     (IF d.full THEN {}
      ELSE {m \in c.members :
              m.id \notin d.removed \cup {n.id : n \in d.changed}})]

EmptyCache == [version |-> 0, roster |-> {}, members |-> {}]

\* Mutant of merge: an incremental answer is merged after a restart too.
merge_any(c, d, restarted) ==
  LET held == IF c = None THEN EmptyCache ELSE c
  IN IF d = None \/ d.version < held.version
     THEN c
     ELSE apply_delta(held, d)

merge(c, d, restarted) ==
  LET held == IF c = None THEN EmptyCache ELSE c
  IN IF d = None \/ (restarted /\ ~d.full) \/ d.version < held.version
     THEN c
     ELSE apply_delta(held, d)

\* After an answer or a failure the loop pauses; a permit ends the pause.
Pause == wake' \in {wake, FALSE}

Larger(a, b) == IF a > b THEN a ELSE b

-----------------------------------------------------------------------------
(* The member publishes, joins and leaves.                                 *)

MemberInit ==
  /\ Init
  /\ epoch = 1
  /\ published = 0 /\ wake = FALSE
  /\ leaving = FALSE /\ accepted = TRUE /\ beats_ok = FALSE
  /\ confirmed = 0 /\ parks = FALSE /\ seen_epoch = 0 /\ cache = None
  /\ loop = "top" /\ cancelled_last = FALSE /\ once = IF OneShots THEN "join" ELSE "joined"
  /\ sent = [s \in Sender |-> None]
  /\ orphans = {}
  /\ stored = None /\ proven = None /\ parted = FALSE

Publish ==
  /\ published < MaxPublication
  /\ published' = published + 1
  /\ wake' = TRUE
  /\ UNCHANGED <<registry, leaving, accepted, beats_ok, confirmed, parks,
                 seen_epoch, cache, loop, cancelled_last, once, sent, orphans,
                 history>>

\* beat_once() of join(): the loop may already have been answered.
JoinBeat ==
  /\ once = "join"
  /\ IF beats_ok
     THEN once' = "joined" /\ UNCHANGED sent
     ELSE once' = "joining" /\ sent' = [sent EXCEPT !["once"] = post(FALSE)]
  /\ UNCHANGED <<registry, published, wake, leaving, accepted, beats_ok,
                 confirmed, parks, seen_epoch, cache, loop, cancelled_last,
                 orphans, history>>

\* The loop was acknowledged first, or the budget ran out.
JoinDone ==
  /\ once = "joining" /\ Interruptible(sent["once"])
  /\ Abandon({"once"})
  /\ once' = "joined"
  /\ UNCHANGED <<registry, published, wake, leaving, accepted, beats_ok,
                 confirmed, parks, seen_epoch, cache, loop, cancelled_last,
                 history>>

Leave ==
  /\ OneShots /\ once = "joined" /\ beats_ok
  /\ leaving' = TRUE
  /\ once' = "leave"
  /\ UNCHANGED <<registry, published, wake, accepted, beats_ok, confirmed,
                 parks, seen_epoch, cache, loop, cancelled_last, sent, orphans,
                 history>>

\* beat_once() of leave(): nothing else stops it from asking.
LeaveBeat ==
  /\ once = "leave"
  /\ once' = "leaving"
  /\ sent' = [sent EXCEPT !["once"] = post(FALSE)]
  /\ UNCHANGED <<registry, published, wake, leaving, accepted, beats_ok,
                 confirmed, parks, seen_epoch, cache, loop, cancelled_last,
                 orphans, history>>

\* The goodbye is over, answered or not: the runtime goes, and the loop.
Shutdown ==
  /\ once \in {"leaving", "left"}
  /\ \A s \in Sender : sent[s] # None => Interruptible(sent[s])
  /\ Abandon(Sender)
  /\ once' = "gone" /\ loop' = "done"
  /\ UNCHANGED <<registry, published, wake, leaving, accepted, beats_ok,
                 confirmed, parks, seen_epoch, cache, cancelled_last, history>>

-----------------------------------------------------------------------------
(* The beat loop.                                                          *)

LoopTop ==
  /\ loop = "top"
  /\ loop' = IF leaving /\ beats_ok THEN "done" ELSE "compose"
  /\ UNCHANGED <<registry, published, wake, leaving, accepted, beats_ok,
                 confirmed, parks, seen_epoch, cache, cancelled_last, once,
                 sent, orphans, history>>

LoopBeat ==
  /\ loop = "compose"
  /\ loop' = "sent"
  /\ sent' = [sent EXCEPT !["loop"] = post(parks /\ ~cancelled_last)]
  /\ UNCHANGED <<registry, published, wake, leaving, accepted, beats_ok,
                 confirmed, parks, seen_epoch, cache, cancelled_last, once,
                 orphans, history>>

\* A publication interrupts a beat that may be held.
LoopCancel ==
  /\ loop = "sent" /\ sent["loop"].hold /\ wake
  /\ Interruptible(sent["loop"])
  /\ Abandon({"loop"})
  /\ wake' = FALSE /\ cancelled_last' = TRUE /\ loop' = "top"
  /\ UNCHANGED <<registry, published, leaving, accepted, beats_ok, confirmed,
                 parks, seen_epoch, cache, once, history>>

\* No answer in time, or the connection broke: an ordinary failure.
LoopFail ==
  /\ loop = "sent" /\ Interruptible(sent["loop"])
  /\ Abandon({"loop"})
  /\ cancelled_last' = FALSE /\ loop' = "top" /\ Pause
  /\ UNCHANGED <<registry, published, leaving, accepted, beats_ok,
                 confirmed, parks, seen_epoch, cache, once, history>>

\* apply(): the epoch is swapped without a lock, then a copy of another epoch
\* is cleared under the cache's lock, then the answer is merged under it.  The
\* other sender may take any of its steps in between.
ApplyEpoch(s) ==
  LET x == sent[s]
      new == seen_epoch # 0 /\ seen_epoch # x.ack.epoch
  IN /\ x # None /\ x.phase = "back"
     /\ seen_epoch' = x.ack.epoch
     /\ sent' = [sent EXCEPT ![s].phase = IF new THEN "clearing" ELSE "applying",
                             ![s].restarted = new]
     /\ UNCHANGED <<registry, published, wake, leaving, accepted, beats_ok,
                    confirmed, parks, cache, loop, cancelled_last, once,
                    orphans, history>>

ApplyClear(s) ==
  /\ sent[s] # None /\ sent[s].phase = "clearing"
  /\ cache' = None
  /\ sent' = [sent EXCEPT ![s].phase = "applying"]
  /\ UNCHANGED <<registry, published, wake, leaving, accepted, beats_ok,
                 confirmed, parks, seen_epoch, loop, cancelled_last, once,
                 orphans, history>>

\* Mutant of confirm: a refusal confirms what the beat carried as well.
confirm_any(x) == Larger(confirmed, x.beat.publication)

\* Only an accepted beat left what it carried anywhere.
confirm(x) ==
  IF x.ack.accepted THEN Larger(confirmed, x.beat.publication) ELSE confirmed

\* The rest of apply(), and what the sender does after it.
ApplyPools(s) ==
  LET x == sent[s]
      alive == x.ack.accepted
  IN /\ x # None /\ x.phase = "applying"
     /\ accepted' = (accepted /\ alive)
     /\ cache' = IF alive THEN merge(cache, x.ack.delta, x.restarted) ELSE cache
     /\ confirmed' = confirm(x)
     /\ beats_ok' = TRUE /\ parks' = TRUE
     /\ sent' = [sent EXCEPT ![s] = None]
     /\ IF s = "loop"
        THEN /\ loop' = IF alive THEN "top" ELSE "done"
             /\ cancelled_last' = FALSE /\ Pause
             /\ UNCHANGED once
        ELSE /\ once' = IF once = "joining" THEN "joined" ELSE "left"
             /\ UNCHANGED <<loop, cancelled_last, wake>>
     /\ UNCHANGED <<registry, published, leaving, seen_epoch, orphans, history>>

-----------------------------------------------------------------------------
(* The registry's side.                                                    *)

\* The registry takes the beat b of this member.
TakeBeat(b) ==
  LET r == decided(pool, b).members[Me]
      mine == r # None /\ r.incarnation = Tenure
      latest(n) == IF mine /\ (n = None \/ r.publication > n)
                   THEN r.publication ELSE n
  IN /\ HandleBeat(b)
     /\ stored' = latest(stored) /\ proven' = latest(proven)
     /\ parted' = (parted \/ (ack(pool, b).accepted /\ b.leaving))

\* hold(): the lease is renewed at once, the answer waits for news.
Deliver(s) ==
  LET x == sent[s]
      a == [epoch |-> epoch, accepted |-> ack(pool, x.beat).accepted,
            delta |-> ack(pool, x.beat).delta]
      parked == x.hold /\ a.accepted /\ a.delta = None
  IN /\ x # None /\ x.phase = "out"
     /\ TakeBeat(x.beat)
     /\ sent' = [sent EXCEPT ![s].phase = IF parked THEN "held" ELSE "back",
                             ![s].age = 0, ![s].ack = a]
     /\ UNCHANGED <<epoch, member, orphans>>

\* A request whose sender hung up is still read whole, and its handler polls
\* hold() and the closed peer in either order: hold() first takes the beat and
\* answers nobody.  The other order is a request that is lost (Elapse).
DeliverOrphan(o) ==
  /\ TakeBeat(o.beat)
  /\ orphans' = orphans \ {o}
  /\ UNCHANGED <<epoch, member, sent>>

\* The bell rang and there is news, or the hold ran out with none.
Answer(s) ==
  LET x == sent[s]
  IN /\ x # None /\ x.phase = "held"
     /\ sent' = [sent EXCEPT ![s].phase = "back",
                             ![s].ack.delta = delta(pool, x.beat.seen)]
     /\ pool' = after_delta(pool, x.beat.seen)
     /\ UNCHANGED <<taken, epoch, member, orphans, history>>

Others ==
  /\ \E b \in Beats : HandleBeat(b)
  /\ UNCHANGED <<epoch, member, sent, orphans, history>>

\* A tick of every lease; a request too long on its way is lost.
Elapse ==
  /\ Tick
  /\ orphans' = {[o EXCEPT !.age = @ + 1] : o \in {p \in orphans : p.age < MaxDelay}}
  /\ sent' = [s \in Sender |->
       CASE sent[s] = None -> None
         [] sent[s] # None /\ sent[s].phase = "out" ->
              IF sent[s].age < MaxDelay THEN [sent[s] EXCEPT !.age = @ + 1]
              ELSE [sent[s] EXCEPT !.phase = "lost"]
         [] OTHER -> sent[s]]
  /\ UNCHANGED <<epoch, member, history>>

SweepDead ==
  /\ Sweep
  /\ UNCHANGED <<epoch, member, sent, orphans, history>>

\* The registry process is replaced: nothing is persisted, and whoever was
\* parked waits in vain.
Restart ==
  /\ epoch < MaxEpoch
  /\ epoch' = epoch + 1
  /\ pool' = DefaultPool /\ taken' = {}
  /\ stored' = None /\ parted' = FALSE
  /\ sent' = [s \in Sender |->
       IF sent[s] # None /\ sent[s].phase = "held"
       THEN [sent[s] EXCEPT !.phase = "lost"] ELSE sent[s]]
  /\ UNCHANGED <<proven, member, orphans>>

MemberNext ==
  \/ Publish \/ JoinBeat \/ JoinDone \/ Leave \/ LeaveBeat \/ Shutdown
  \/ LoopTop \/ LoopBeat \/ LoopCancel \/ LoopFail
  \/ \E s \in Sender : ApplyEpoch(s) \/ ApplyClear(s) \/ ApplyPools(s)
                       \/ Deliver(s) \/ Answer(s)
  \/ \E o \in orphans : DeliverOrphan(o)
  \/ Others \/ Elapse \/ SweepDead \/ Restart

MemberSpec == MemberInit /\ [][MemberNext]_mvars

-----------------------------------------------------------------------------
(* Properties.                                                             *)

\* The member's fields and its exchanges keep their types.
MemberTypeOK ==
  /\ TypeOK
  /\ epoch \in 1..MaxEpoch /\ seen_epoch \in 0..MaxEpoch
  /\ published \in 0..MaxPublication /\ confirmed \in 0..MaxPublication
  /\ {wake, leaving, accepted, beats_ok, parks, cancelled_last, parted}
       \subseteq BOOLEAN
  /\ cache \in CachedPool \cup {None}
  /\ loop \in {"top", "compose", "sent", "done"}
  /\ once \in {"join", "joining", "joined", "leave", "leaving", "left", "gone"}
  /\ sent \in [Sender -> Exchange \cup {None}]
  /\ orphans \subseteq [beat : Beat, age : 0..MaxDelay]
  /\ {stored, proven} \subseteq 0..MaxPublication \cup {None}

\* A member whose copy is at the registry's current version holds exactly the
\* registry's members and fingerprint, also after restarts that count the
\* versions anew: nothing would ever correct a copy that only claims to be
\* up to date (apply in shared.rs).  A copy that apply() is about to merge into
\* or has marked for clearing is still being corrected.
UpToDateIsFaithful ==
  (/\ \A s \in Sender : sent[s] # None => Interruptible(sent[s])
   /\ cache # None /\ seen_epoch = epoch /\ cache.version = pool.version)
  => cache.members = Roster(pool) /\ cache.roster = pool.roster

\* What flush() reports as confirmed was stored by a registry, although an
\* acknowledgement may answer an older beat, a refused or an abandoned one
\* (confirmed.fetch_max in heartbeat.rs).
ConfirmedWasStored ==
  ~leaving /\ confirmed > 0 => proven # None /\ proven >= confirmed

\* Wherever the member is listed, it is listed with the latest publication
\* this registry stored: no request that is late by less than a lease undoes
\* a newer one (Beat::publication in proto/lib.rs).
LatestIsShown ==
  LET r == pool.members[Me]
  IN r # None /\ r.incarnation = Tenure => r.publication = stored

\* A registry that accepted the goodbye of a tenure never lists it again:
\* the beats that were still on their way are refused for as long as they
\* can be (gone in state.rs).
GoodbyeIsFinal ==
  parted => \/ pool.members[Me] = None
            \/ pool.members[Me].incarnation > Tenure

=============================================================================
