------------------------------ MODULE LongPoll ------------------------------
(***************************************************************************)
(* Held answers: hold() of crates/tinyray-registry/src/server.rs with      *)
(* park(), bump() and Deferred::finish() of state.rs, against the beat     *)
(* loops of several members (heartbeat.rs), each of which may publish at   *)
(* any time and so cancel its own held request.                            *)
(*                                                                         *)
(* Versions are abstracted to one fact per member: whether the pool has    *)
(* moved since the version the member holds, or will hold once it reads    *)
(* the answer on its way (stale).  A member's bell is an Arc that lives as *)
(* long as its hold(), and Pool.waiters holds Weak pointers to bells: an   *)
(* entry outlives its hold() (dead) until a bump takes the list or the     *)
(* sweeper looks through it.  How many dead entries there are, and whose,  *)
(* is left out, and so are those a bump has taken, which ring nothing.     *)
(* The members are registered, watch the pool and have been answered       *)
(* before: the other early returns of hold() and the loop's first beats    *)
(* are in module Membership.                                               *)
(***************************************************************************)
EXTENDS Naturals, FiniteSets

CONSTANT Callers

VARIABLES
  client,           \* "sent": waiting for an answer; "told": it brought news;
                    \* "top": the loop goes round for any other reason
  parks,            \* the request of the member may be held back
  cancelled_last,
  wake,             \* permits in Shared.wake
  dirty,            \* a publication that no beat carries yet
  carry,            \* the beat in flight carries one the registry lacks
  flush,            \* "asked" for an acknowledgement, "carried" by a beat
  server,           \* where the registry is with the request
  news,             \* the answer carries a delta
  stale,
  bell,             \* a permit in the bell of the member's hold()
  waiters,          \* Pool.waiters: the members whose bell is alive
  dead,             \* Pool.waiters: there are entries of dead bells
  ringing           \* Deferred.waiters, taken out and not yet rung

vars == <<client, parks, cancelled_last, wake, dirty, carry, flush, server,
          news, stale, bell, waiters, dead, ringing>>

loopvars == <<client, parks, cancelled_last, wake, dirty, carry, flush>>
poolvars == <<stale, bell, waiters, dead, ringing>>

Init ==
  /\ client = [c \in Callers |-> "top"]
  /\ parks = [c \in Callers |-> TRUE]
  /\ cancelled_last = [c \in Callers |-> FALSE]
  /\ wake = [c \in Callers |-> 0]
  /\ dirty = [c \in Callers |-> TRUE]
  /\ carry = [c \in Callers |-> FALSE]
  /\ flush = [c \in Callers |-> "none"]
  /\ server = [c \in Callers |-> "none"]
  /\ news = [c \in Callers |-> FALSE]
  /\ stale = [c \in Callers |-> TRUE]
  /\ bell = [c \in Callers |-> FALSE]
  /\ waiters = {} /\ dead = FALSE /\ ringing = {}

-----------------------------------------------------------------------------
(* The member.                                                             *)

\* Mutant of Publish: one permit for every publication.
Publish_counted(c) ==
  /\ dirty' = [dirty EXCEPT ![c] = TRUE]
  /\ wake' = [wake EXCEPT ![c] = @ + 1]
  /\ UNCHANGED <<client, parks, cancelled_last, carry, flush, server, news, poolvars>>

\* notify_one leaves one permit, however many publications there are.
Publish(c) ==
  /\ dirty' = [dirty EXCEPT ![c] = TRUE]
  /\ wake' = [wake EXCEPT ![c] = 1]
  /\ UNCHANGED <<client, parks, cancelled_last, carry, flush, server, news, poolvars>>

\* Someone waits for what is published now to be acknowledged.
Flush(c) ==
  /\ flush[c] = "none"
  /\ flush' = [flush EXCEPT ![c] = "asked"]
  /\ UNCHANGED <<client, parks, cancelled_last, wake, dirty, carry, server, news, poolvars>>

\* Mutant of may_park: the request that replaces a cancelled one is held too.
may_park_always(c) == TRUE

may_park(c) == ~cancelled_last[c]

\* The top of the loop: compose and send a beat.
Send(c) ==
  /\ client[c] # "sent"
  /\ client' = [client EXCEPT ![c] = "sent"]
  /\ parks' = [parks EXCEPT ![c] = may_park(c)]
  /\ carry' = [carry EXCEPT ![c] = @ \/ dirty[c]]
  /\ dirty' = [dirty EXCEPT ![c] = FALSE]
  /\ flush' = [flush EXCEPT ![c] = IF @ = "asked" THEN "carried" ELSE @]
  /\ server' = [server EXCEPT ![c] = "arriving"]
  /\ UNCHANGED <<cancelled_last, wake, news, poolvars>>

\* An answer.  The pause that follows may consume the permit.
Receive(c) ==
  /\ server[c] = "reply"
  /\ client' = [client EXCEPT ![c] = IF news[c] THEN "told" ELSE "top"]
  /\ cancelled_last' = [cancelled_last EXCEPT ![c] = FALSE]
  /\ wake' \in {wake, [wake EXCEPT ![c] = 0]}
  /\ flush' = [flush EXCEPT ![c] = IF @ = "carried" THEN "none" ELSE @]
  /\ server' = [server EXCEPT ![c] = "none"]
  /\ news' = [news EXCEPT ![c] = FALSE]
  /\ UNCHANGED <<parks, dirty, carry, poolvars>>

\* The end of c's hold(): its bell goes, its entry in the list stays.
DropBell(c) ==
  /\ bell' = [bell EXCEPT ![c] = FALSE]
  /\ waiters' = waiters \ {c}
  /\ dead' = (dead \/ c \in waiters)
  /\ ringing' = ringing \ {c}

\* Mutant of Unread: the position moves on without the answer being read.
Unread_forgotten(c) == UNCHANGED stale

\* The news in an answer nobody reads is still news.
Unread(c) == stale' = [stale EXCEPT ![c] = @ \/ news[c]]

\* A publication interrupts a request that may be held.  The registry sees
\* the connection close and drops what it was doing for it; if the request
\* has not arrived yet, it counts as lost and the next one carries the same.
Cancel(c) ==
  /\ client[c] = "sent" /\ parks[c] /\ wake[c] = 1
  /\ client' = [client EXCEPT ![c] = "top"]
  /\ wake' = [wake EXCEPT ![c] = 0]
  /\ cancelled_last' = [cancelled_last EXCEPT ![c] = TRUE]
  /\ flush' = [flush EXCEPT ![c] = IF @ = "carried" THEN "asked" ELSE @]
  /\ server' = [server EXCEPT ![c] = "none"]
  /\ news' = [news EXCEPT ![c] = FALSE]
  /\ Unread(c) /\ DropBell(c)
  /\ UNCHANGED <<parks, dirty, carry>>

-----------------------------------------------------------------------------
(* The registry.                                                           *)

\* What bump() does to the waiters; the bells are rung after the unlock.
bump == waiters' = {} /\ dead' = FALSE /\ ringing' = ringing \cup waiters

\* beat_shared(), and hold() up to its loop.
Land(c) ==
  LET fresh == carry[c] \/ stale[c]
  IN /\ server[c] = "arriving"
     /\ carry' = [carry EXCEPT ![c] = FALSE]
     /\ IF carry[c]
        THEN bump /\ stale' = [d \in Callers |-> d # c]
        ELSE /\ stale' = [stale EXCEPT ![c] = FALSE]
             /\ UNCHANGED <<waiters, dead, ringing>>
     /\ news' = [news EXCEPT ![c] = fresh]
     /\ server' = [server EXCEPT ![c] =
                     IF ~fresh /\ parks[c] THEN "park" ELSE "reply"]
     /\ UNCHANGED <<client, parks, cancelled_last, wake, dirty, flush, bell>>

\* Mutant of Park: the pool is looked at before the bell is registered.
Park_after_look(c) ==
  /\ server[c] = "park"
  /\ server' = [server EXCEPT ![c] = "wait"]
  /\ waiters' = waiters \cup {c}
  /\ UNCHANGED <<loopvars, news, stale, bell, dead, ringing>>

Park(c) ==
  /\ server[c] = "park"
  /\ server' = [server EXCEPT ![c] = "look"]
  /\ waiters' = waiters \cup {c}
  /\ UNCHANGED <<loopvars, news, stale, bell, dead, ringing>>

Answered(c, told) ==
  /\ server' = [server EXCEPT ![c] = "reply"]
  /\ news' = [news EXCEPT ![c] = told]
  /\ DropBell(c)

Look(c) ==
  /\ server[c] = "look"
  /\ IF stale[c]
     THEN Answered(c, TRUE) /\ stale' = [stale EXCEPT ![c] = FALSE]
     ELSE /\ server' = [server EXCEPT ![c] = "wait"]
          /\ UNCHANGED <<news, poolvars>>
  /\ UNCHANGED loopvars

Wake(c) ==
  /\ server[c] = "wait" /\ bell[c]
  /\ bell' = [bell EXCEPT ![c] = FALSE]
  /\ server' = [server EXCEPT ![c] = "park"]
  /\ UNCHANGED <<loopvars, news, stale, waiters, dead, ringing>>

\* The hold ran out.
Expire(c) ==
  /\ server[c] = "wait" /\ ~bell[c]
  /\ Answered(c, FALSE)
  /\ UNCHANGED <<loopvars, stale>>

\* Deferred::finish() rings one bell: notify_one leaves a permit.
Ring(c) ==
  /\ c \in ringing
  /\ ringing' = ringing \ {c}
  /\ bell' = [bell EXCEPT ![c] = TRUE]
  /\ UNCHANGED <<loopvars, server, news, stale, waiters, dead>>

\* Mutant of retain: the sweeper empties the list.
retain_nobody == waiters' = {} /\ dead' = FALSE


\* Entries without a strong count are dropped.
retain == dead' = FALSE /\ UNCHANGED waiters

\* The sweeper finds no lapsed lease; when it does, the pool moves.
Sweep ==
  /\ retain
  /\ UNCHANGED <<loopvars, server, news, stale, bell, ringing>>

\* The pool moves for another reason: another member, or the sweeper.
Move ==
  /\ bump
  /\ stale' = [c \in Callers |-> TRUE]
  /\ UNCHANGED <<loopvars, server, news, bell>>

Step(c) == Send(c) \/ Receive(c) \/ Cancel(c)
           \/ Land(c) \/ Park(c) \/ Look(c) \/ Wake(c) \/ Ring(c)

Next ==
  \/ \E c \in Callers : Step(c) \/ Publish(c) \/ Flush(c) \/ Expire(c)
  \/ Move \/ Sweep

-----------------------------------------------------------------------------
(* Fairness: the loop, the registry's tasks and the notifications run; a   *)
(* hold ends at its deadline, and the sweeper runs on a timer.  Nobody has *)
(* to publish, flush or change the pool, and may do so for ever.           *)
Fairness ==
  /\ WF_vars(Sweep)
  /\ \A c \in Callers :
       /\ WF_vars(Send(c)) /\ WF_vars(Receive(c)) /\ WF_vars(Land(c))
       /\ WF_vars(Park(c)) /\ WF_vars(Look(c)) /\ WF_vars(Wake(c))
       /\ WF_vars(Ring(c)) /\ WF_vars(Expire(c))

Spec == Init /\ [][Next]_vars /\ Fairness

\* The loops, the requests and the lists keep their types; the publications
\* of a member never leave more than one permit behind.
TypeOK ==
  /\ client \in [Callers -> {"top", "told", "sent"}]
  /\ flush \in [Callers -> {"none", "asked", "carried"}]
  /\ server \in [Callers -> {"none", "arriving", "park", "look", "wait", "reply"}]
  /\ \A f \in {parks, cancelled_last, dirty, carry, news, stale, bell} :
       f \in [Callers -> BOOLEAN]
  /\ wake \in [Callers -> 0..1]
  /\ waiters \subseteq Callers /\ ringing \subseteq Callers /\ dead \in BOOLEAN

\* A parked caller for whom there is news has been rung or is about to be:
\* it never sits out its hold while the registry could answer (hold()
\* registers first and looks second, and bump hands the list to finish).
NoLostWakeup ==
  \A c \in Callers :
    server[c] = "wait" /\ stale[c] => bell[c] \/ c \in ringing

\* A caller that is parked and has heard nothing is on the list, although
\* bumps take the whole list, finish() rings it later and the sweeper thins
\* it out in between (park, bump, finish and sweep of state.rs).
ParkedIsListed ==
  \A c \in Callers :
    server[c] = "wait" => c \in waiters \/ bell[c] \/ c \in ringing


\* flush() returns although the member publishes faster than a round trip:
\* a beat that replaces a cancelled one cannot be cancelled (cancelled_last).
FlushReturns == \A c \in Callers : flush[c] = "asked" ~> flush[c] = "none"

\* A member the pool has moved away from reads an answer that says so,
\* whatever it publishes and abandons in between (select! in spawn()).
NewsArrives == \A c \in Callers : stale[c] ~> client[c] = "told"
=============================================================================
