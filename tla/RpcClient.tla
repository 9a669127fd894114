------------------------------ MODULE RpcClient ------------------------------
(***************************************************************************)
(* The connection pool of one endpoint in the native RPC client            *)
(* (crates/tinyray/src/transport/client.rs): calls that reserve, register, *)
(* are written, answered, cancelled or timed out over multiplexed          *)
(* connections, each with a writer task, a reader task and an idle timer.  *)
(*                                                                         *)
(* Every step takes one of the code's locks once.  poison() is three       *)
(* steps: a task decides on it, the flag is swapped, and the lock is taken *)
(* to tell the pending calls.  A reply is routed under the lock and sent   *)
(* to its caller after it.  The other end of a connection is               *)
(* serve_connection of transport/server.rs; what a handler does is left    *)
(* out.  Admission by bytes and by the process-wide limits is left out     *)
(* too: it refuses a call before anything here happens.                    *)
(***************************************************************************)
EXTENDS Naturals, Sequences, FiniteSets

CONSTANTS
  Calls, Conns,          \* calls, and the connections there may ever be
  Ids, IdOf,             \* request ids, and the id of each call
  Blobs,                 \* the calls whose replies lend BlobRefs
  Cancellable,           \* the calls whose caller may give up
  Invalid,               \* the calls that validate_request() rejects
  Refusable,             \* the calls the server may refuse: fenced, busy, unknown
  MAX_CONNECTIONS_PER_ENDPOINT, PREFERRED_INFLIGHT_PER_CONNECTION,
  MAX_INFLIGHT_PER_CONNECTION, MAX_ABANDONED_PER_CONNECTION,
  MAX_IDLE_CONNECTIONS,
  None

ASSUME ClientAssumption ==
  /\ IdOf \in [Calls -> Ids]
  /\ Blobs \cup Cancellable \cup Invalid \cup Refusable \subseteq Calls
  /\ None \notin Calls \cup Conns
  /\ {MAX_CONNECTIONS_PER_ENDPOINT, PREFERRED_INFLIGHT_PER_CONNECTION,
      MAX_INFLIGHT_PER_CONNECTION} \subseteq Nat \ {0}
  /\ {MAX_ABANDONED_PER_CONNECTION, MAX_IDLE_CONNECTIONS} \subseteq Nat

VARIABLES
  conn,              \* each connection, and what is on its wire
  connecting,        \* ConnectionPoolState.connecting
  idle_connections,  \* ClientInner.idle_connections
  pc, at,            \* where exchange() is with a call, and on what connection
  requested,         \* the calls with CallCancellation.requested
  outcome,           \* what its caller is told
  ran                \* the calls the server has run

vars == <<conn, connecting, idle_connections, pc, at, requested, outcome, ran>>

\* A command of the writer: the frame of a call, or an acknowledgement.
Command == [id : Ids, call : Calls \cup {None}]

Progress == {"Queued", "Writing", "Written"}

\* A reply of the server: to which frame, whether it has the status
\* malformed_protocol, and whether it lends BlobRefs.
Answer == [call : Calls, malformed : BOOLEAN, blobs : BOOLEAN]

\* A reply on its way from route() to its caller.
Delivery == [to : Calls, reply : Answer, close : BOOLEAN]

\* The client's end, then the server's.
Connection ==
  [open : BOOLEAN, poisoned : BOOLEAN, doom : SUBSET {"soft", "hard"},
   reap : {"none", "soft", "hard"},
   pending : SUBSET Calls, progress : [Calls -> Progress],
   abandoned : SUBSET Ids, guarded : SUBSET Ids, counted_idle : BOOLEAN,
   slots : Nat, outbound : Seq(Command),
   writer : {"select", "writing", "wrote", "done"}, current : Command \cup {None},
   reader : {"run", "deliver", "done"}, carry : Delivery \cup {None},
   up : BOOLEAN, wire : Seq(Command), running : SUBSET Calls,
   active_ids : SUBSET Ids, blob_responses : SUBSET Ids, replies : Seq(Answer)]

Closed ==
  [open |-> FALSE, poisoned |-> FALSE, doom |-> {}, reap |-> "none", pending |-> {},
   progress |-> [c \in Calls |-> "Queued"], abandoned |-> {}, guarded |-> {},
   counted_idle |-> FALSE, slots |-> 0, outbound |-> <<>>, writer |-> "select",
   current |-> None, reader |-> "run", carry |-> None,
   up |-> TRUE, wire |-> <<>>, running |-> {}, active_ids |-> {},
   blob_responses |-> {}, replies |-> <<>>]

Usable(k) == conn[k].open /\ ~conn[k].poisoned

-----------------------------------------------------------------------------
(* Pieces of ClientConnection, on the state s of one connection.           *)

\* The pending call that goes by an id: at most one.
Owner(s, id) == {c \in s.pending : IdOf[c] = id}

Known(s, id) == Owner(s, id) # {} \/ id \in s.abandoned

is_quiescent(s) == s.pending = {} /\ s.guarded = {}

\* Mutant of Without: the permit outlives its call.
Without_release(s, calls) ==
  [s EXCEPT !.pending = @ \ calls,
            !.progress = [c \in Calls |-> IF c \in calls THEN "Queued" ELSE @[c]]]

\* Pending calls are dropped, and their progress and permits with them.
Without(s, calls) ==
  [s EXCEPT !.pending = @ \ calls, !.slots = @ - Cardinality(calls),
            !.progress = [c \in Calls |-> IF c \in calls THEN "Queued" ELSE @[c]]]

\* A task is about to call poison(), after it gave up the lock; kind says
\* whether a frame being written counts as delivered (hard) or not.
poison(s, kind) == IF s.poisoned THEN s ELSE [s EXCEPT !.doom = @ \cup {kind}]

\* Mutant of Room: the cap is compared the wrong way round its limit.
Room_late == idle_connections <= MAX_IDLE_CONNECTIONS

\* mark_idle(): whether it tries to count s, and what comes of it.
Resting(s) == is_quiescent(s) /\ ~s.counted_idle /\ ~s.poisoned
Room == idle_connections < MAX_IDLE_CONNECTIONS
Counted(s) == [s EXCEPT !.counted_idle = @ \/ (Resting(s) /\ Room)]
Overfull(s) == Resting(s) /\ ~Room

\* s after mark_idle(), poisoned if the cap is reached or "more" demands it.
Rested(s, kind, more) ==
  IF Overfull(s) \/ more THEN poison(Counted(s), kind) ELSE Counted(s)

CountIdle(s) ==
  idle_connections' = idle_connections + (IF Resting(s) /\ Room THEN 1 ELSE 0)

\* outbound.try_send: refused when the channel is full or the writer gone.
try_send(s, command) ==
  IF s.writer = "done" \/ Len(s.outbound) >= MAX_INFLIGHT_PER_CONNECTION
  THEN poison(s, "soft")
  ELSE [s EXCEPT !.outbound = Append(@, command)]

queue_blob_ack(s, id) == try_send(s, [id |-> id, call |-> None])

\* send_blob_ack() when the last guard of a reply that lends BlobRefs goes.
Unguarded(s, id) == [s EXCEPT !.guarded = @ \ {id}]
Released(s, id) ==
  LET u == Unguarded(s, id)
  IN IF id \notin s.guarded THEN s
     ELSE IF Overfull(u) THEN poison(u, "hard")
     ELSE queue_blob_ack(Counted(u), id)
CountReleased(s, id) ==
  IF id \in s.guarded THEN CountIdle(Unguarded(s, id)) ELSE UNCHANGED idle_connections

\* try_reserve() on a usable connection.
Reservable(k, id) ==
  /\ Usable(k)
  /\ conn[k].slots < MAX_INFLIGHT_PER_CONNECTION
  /\ ~Known(conn[k], id) /\ id \notin conn[k].guarded

\* Mutant of Reserve: every reservation takes one from the idle count.
Reserve_uncounted(c, k) ==
  /\ conn' = [conn EXCEPT ![k].slots = @ + 1, ![k].counted_idle = FALSE]
  /\ idle_connections' = idle_connections - 1
  /\ at' = [at EXCEPT ![c] = k]
  /\ pc' = [pc EXCEPT ![c] = "register"]

Reserve(c, k) ==
  /\ conn' = [conn EXCEPT ![k].slots = @ + 1, ![k].counted_idle = FALSE]
  /\ idle_connections' = idle_connections - (IF conn[k].counted_idle THEN 1 ELSE 0)
  /\ at' = [at EXCEPT ![c] = k]
  /\ pc' = [pc EXCEPT ![c] = "register"]

Finish(c, what) ==
  /\ pc' = [pc EXCEPT ![c] = "done"]
  /\ outcome' = [outcome EXCEPT ![c] = what]

NotDelivered == [kind |-> "NotDelivered", reply |-> None]
OutcomeUnknown == [kind |-> "OutcomeUnknown", reply |-> None]
Cancelled == [kind |-> "Cancelled", reply |-> None]
Reply(answer) == [kind |-> "Reply", reply |-> answer]

-----------------------------------------------------------------------------
(* exchange(): finding a connection.                                       *)

Init ==
  /\ conn = [k \in Conns |-> Closed]
  /\ connecting = FALSE /\ idle_connections = 0
  /\ pc = [c \in Calls |-> "reserve"] /\ at = [c \in Calls |-> None]
  /\ requested = {} /\ outcome = [c \in Calls |-> None] /\ ran = {}

Listed == {k \in Conns : Usable(k)}
Full == Cardinality(Listed) >= MAX_CONNECTIONS_PER_ENDPOINT

\* The pool wants one more connection before it looks for a slot.
scale ==
  \/ Listed = {}
  \/ ~Full /\ \A k \in Listed : conn[k].slots >= PREFERRED_INFLIGHT_PER_CONNECTION

\* The candidates with the least load come first.
Candidates(c) ==
  LET fit == {k \in Listed : Reservable(k, IdOf[c])}
  IN {k \in fit : \A j \in fit : conn[k].slots <= conn[j].slots}

Take(c) ==
  /\ pc[c] = "reserve" /\ ~scale
  /\ \E k \in Candidates(c) : Reserve(c, k)
  /\ UNCHANGED <<connecting, outcome, requested, ran>>

\* Mutant of may_connect: several calls open connections at once.
may_connect_any(c) == scale \/ (Candidates(c) = {} /\ ~Full)

may_connect(c) == ~connecting /\ (scale \/ (Candidates(c) = {} /\ ~Full))

StartConnect(c) ==
  /\ pc[c] = "reserve" /\ may_connect(c)
  /\ connecting' = TRUE
  /\ pc' = [pc EXCEPT ![c] = "connect"]
  /\ UNCHANGED <<conn, idle_connections, at, outcome, requested, ran>>

\* Every slot of every connection is taken.
RefuseFull(c) ==
  /\ pc[c] = "reserve" /\ ~scale /\ Candidates(c) = {} /\ Full /\ ~connecting
  /\ Finish(c, NotDelivered)
  /\ UNCHANGED <<conn, connecting, idle_connections, at, requested, ran>>

\* finish_connect(): the connection is in the pool before it is claimed.
Connected(c) ==
  /\ pc[c] = "connect"
  /\ connecting' = FALSE
  /\ \E k \in Conns :
       /\ ~conn[k].open
       /\ conn' = [conn EXCEPT ![k] = [Closed EXCEPT !.open = TRUE]]
       /\ at' = [at EXCEPT ![c] = k]
  /\ pc' = [pc EXCEPT ![c] = "claim"]
  /\ UNCHANGED <<idle_connections, outcome, requested, ran>>

ConnectFails(c) ==
  /\ pc[c] = "connect"
  /\ connecting' = FALSE
  /\ Finish(c, NotDelivered)
  /\ UNCHANGED <<conn, idle_connections, at, requested, ran>>

Claim(c) ==
  /\ pc[c] = "claim"
  /\ IF Reservable(at[c], IdOf[c])
     THEN Reserve(c, at[c]) /\ UNCHANGED outcome
     ELSE Finish(c, NotDelivered) /\ UNCHANGED <<conn, idle_connections, at>>
  /\ UNCHANGED <<connecting, requested, ran>>

-----------------------------------------------------------------------------
(* exchange(): on a connection.                                            *)

\* Mutant of may_register: a connection that failed since is not noticed.
may_register_poisoned(s, id) == ~Known(s, id)

may_register(s, id) == ~s.poisoned /\ ~Known(s, id)

Register(c) ==
  LET k == at[c]
  IN /\ pc[c] = "register"
     /\ IF may_register(conn[k], IdOf[c])
        THEN /\ conn' = [conn EXCEPT ![k].pending = @ \cup {c},
                                     ![k].progress[c] = "Queued"]
             /\ pc' = [pc EXCEPT ![c] = "enroll"]
             /\ UNCHANGED outcome
        ELSE /\ conn' = [conn EXCEPT ![k].slots = @ - 1]
             /\ Finish(c, NotDelivered)
     /\ UNCHANGED <<connecting, idle_connections, at, requested, ran>>

\* Mutant of Remembered: a frame being written is forgotten with its call.
Remembered_written(s, calls) ==
  {IdOf[c] : c \in {x \in calls : s.progress[x] = "Written"}}

\* A call that gives up leaves its id behind if its frame may get through.
Remembered(s, calls) ==
  {IdOf[c] : c \in {x \in calls : s.progress[x] # "Queued"}}

\* abandon() of whoever is pending under the id of c, and the poisoning its
\* caller adds.  Nobody is, if the reply or a failure came first.
Abandoned(c) == Owner(conn[at[c]], IdOf[c])
abandon(c, more) ==
  LET k == at[c]
      gone == Abandoned(c)
      s == [Without(conn[k], gone) EXCEPT !.abandoned = @ \cup Remembered(conn[k], gone)]
      overflow == Cardinality(s.abandoned) > MAX_ABANDONED_PER_CONNECTION
  IN IF gone = {} THEN UNCHANGED <<conn, idle_connections>>
     ELSE /\ conn' = [conn EXCEPT ![k] = Rested(s, "soft", overflow \/ more)]
          /\ CountIdle(s)

\* The senders of abandoned calls are dropped: whoever waits hears that the
\* connection ended without an outcome; c itself is told what.
Told(c, what) ==
  outcome' = [x \in Calls |-> IF x = c THEN what
                              ELSE IF x \in Abandoned(c) THEN OutcomeUnknown
                              ELSE outcome[x]]

\* CallCancellation::register(): a call that was cancelled before goes no
\* further.
Enroll(c) ==
  /\ pc[c] = "enroll"
  /\ \/ /\ c \in requested
        /\ abandon(c, FALSE) /\ Told(c, NotDelivered)
        /\ pc' = [pc EXCEPT ![c] = "done"]
     \/ /\ c \notin requested
        /\ pc' = [pc EXCEPT ![c] = "enqueue"]
        /\ UNCHANGED <<conn, idle_connections, outcome>>
  /\ UNCHANGED <<connecting, at, requested, ran>>

\* The frame is queued, even if the call was cancelled a moment ago.
Enqueue(c) ==
  /\ pc[c] = "enqueue"
  /\ conn' = [conn EXCEPT ![at[c]] = try_send(@, [id |-> IdOf[c], call |-> c])]
  /\ pc' = [pc EXCEPT ![c] = "wait"]
  /\ UNCHANGED <<connecting, idle_connections, at, outcome, requested, ran>>

\* Where a call is once its receiver is gone: a reply that lends BlobRefs
\* lives on as a guard.
After(c) ==
  IF outcome[c] # None /\ outcome[c].kind = "Reply" /\ outcome[c].reply.blobs
  THEN "guard" ELSE "done"

\* The answer, or the failure of the connection, reaches the caller.
Return(c) ==
  /\ pc[c] = "wait" /\ outcome[c] # None
  /\ pc' = [pc EXCEPT ![c] = After(c)]
  /\ UNCHANGED <<conn, connecting, idle_connections, at, outcome, requested, ran>>

\* timed_out_error()
TimeOut(c) ==
  LET progress == {conn[at[c]].progress[x] : x \in Abandoned(c)}
  IN /\ pc[c] = "wait" /\ outcome[c] = None
     /\ abandon(c, "Writing" \in progress)
     /\ Told(c, IF progress \subseteq {"Written"} THEN OutcomeUnknown ELSE NotDelivered)
     /\ pc' = [pc EXCEPT ![c] = "done"]
     /\ UNCHANGED <<connecting, at, requested, ran>>

TimeOutReserving(c) ==
  /\ pc[c] = "reserve" /\ connecting
  /\ Finish(c, NotDelivered)
  /\ UNCHANGED <<conn, connecting, idle_connections, at, requested, ran>>

\* CallCancellation::cancel() from outside, or by the caller's end of a call
\* that runs as a task of its own: the exchange goes on and finds out.  From
\* Enroll on there is a target to abandon.
Cancel(c) ==
  /\ c \in Cancellable \ requested /\ pc[c] \notin {"guard", "done"}
  /\ requested' = requested \cup {c}
  /\ IF pc[c] \in {"enqueue", "wait"}
     THEN abandon(c, FALSE) /\ Told(c, IF c \in Abandoned(c) THEN OutcomeUnknown
                                       ELSE outcome[c])
     ELSE UNCHANGED <<conn, idle_connections, outcome>>
  /\ UNCHANGED <<connecting, pc, at, ran>>

\* An inline call is dropped with its caller wherever it waits, and CancelOnDrop
\* cancels what is registered.
Drop(c) ==
  /\ c \in Cancellable /\ pc[c] \in {"reserve", "connect", "wait"}
  /\ IF pc[c] = "wait" /\ c \notin requested
     THEN abandon(c, FALSE) /\ Told(c, Cancelled)
     ELSE /\ outcome' = [outcome EXCEPT ![c] = Cancelled]
          /\ UNCHANGED <<conn, idle_connections>>
  /\ pc' = [pc EXCEPT ![c] = After(c)]
  /\ UNCHANGED <<connecting, at, requested, ran>>

\* The last guard of a reply that lends BlobRefs is dropped.
send_blob_ack(c) ==
  /\ pc[c] = "guard"
  /\ pc' = [pc EXCEPT ![c] = "done"]
  /\ conn' = [conn EXCEPT ![at[c]] = Released(@, IdOf[c])]
  /\ CountReleased(conn[at[c]], IdOf[c])
  /\ UNCHANGED <<connecting, at, outcome, requested, ran>>

-----------------------------------------------------------------------------
(* The tasks of a connection.                                              *)

\* mark_writing() and mark_written(): by id, and only if the call is there.
marked(s, command, progress) ==
  [s EXCEPT !.progress = [c \in Calls |->
     IF command.call # None /\ c \in Owner(s, command.id) THEN progress ELSE @[c]]]

\* client_writer takes a command; one whose call is gone is skipped.
WriterTakes(k) ==
  LET s == conn[k]
      command == Head(s.outbound)
      owner == Owner(s, command.id)
      rest == [s EXCEPT !.outbound = Tail(@)]
  IN /\ s.open /\ s.writer = "select" /\ s.outbound # <<>>
     /\ conn' = [conn EXCEPT ![k] =
          IF command.call # None /\ owner = {} THEN rest
          ELSE [marked(rest, command, "Writing") EXCEPT
                  !.writer = "writing", !.current = command]]
     /\ UNCHANGED <<connecting, idle_connections, pc, at, outcome, requested, ran>>

\* The last byte is out: the server has the frame, the state says Writing.
WriterWrites(k) ==
  LET s == conn[k]
  IN /\ s.writer = "writing"
     /\ conn' = [conn EXCEPT ![k].writer = "wrote",
                   ![k].wire = IF s.up THEN Append(@, s.current) ELSE @]
     /\ UNCHANGED <<connecting, idle_connections, pc, at, outcome, requested, ran>>

\* mark_written(), and round the loop.
WriterMarks(k) ==
  LET s == conn[k]
  IN /\ s.writer = "wrote"
     /\ conn' = [conn EXCEPT ![k] =
          [marked(s, s.current, "Written") EXCEPT !.writer = "select", !.current = None]]
     /\ UNCHANGED <<connecting, idle_connections, pc, at, outcome, requested, ran>>

\* The write fails or is late: the frame stays incomplete.
WriterFails(k) ==
  /\ conn[k].writer = "writing"
  /\ conn' = [conn EXCEPT ![k] = [poison(@, "soft") EXCEPT !.writer = "done"]]
  /\ UNCHANGED <<connecting, idle_connections, pc, at, outcome, requested, ran>>

\* Nobody reads on: what is still to be read is lost.
Unread(s) == [s EXCEPT !.reader = "done", !.replies = <<>>]

\* client_reader takes the next reply to route(), which looks for the call
\* that waits for it, then for one that gave up.
route(k) ==
  LET answer == Head(conn[k].replies)
      s == [conn[k] EXCEPT !.replies = Tail(@)]
      id == IdOf[answer.call]
      owner == Owner(s, id)
      given == [Without(s, owner) EXCEPT
                  !.guarded = IF answer.blobs THEN @ \cup {id} ELSE @]
      carry(c) == [to |-> c, reply |-> answer, close |-> Overfull(given)]
      dropped == [s EXCEPT !.abandoned = @ \ {id}]
      acked == IF answer.blobs THEN queue_blob_ack(Counted(dropped), id)
               ELSE Counted(dropped)
  IN \/ \E c \in owner :
          /\ conn' = [conn EXCEPT ![k] = [Counted(given) EXCEPT
                                           !.reader = "deliver", !.carry = carry(c)]]
          /\ CountIdle(given)
     \/ /\ owner = {} /\ id \in s.abandoned
        /\ conn' = [conn EXCEPT ![k] =
                      IF Overfull(dropped) THEN poison(acked, "hard") ELSE acked]
        /\ CountIdle(dropped)
     \/ /\ ~Known(s, id)
        /\ conn' = [conn EXCEPT ![k] = Unread(poison(s, "hard"))]
        /\ UNCHANGED idle_connections

ReaderRoutes(k) ==
  /\ conn[k].reader = "run" /\ conn[k].replies # <<>>
  /\ route(k)
  /\ UNCHANGED <<connecting, pc, at, outcome, requested, ran>>

\* The end of route(): the reply is sent to its caller, or dropped with its
\* guard if the caller is gone by now.  A reply that says malformed_protocol
\* ends the reader, and the connection is not poisoned.
ReaderDelivers(k) ==
  LET d == conn[k].carry
      heard == pc[d.to] \in {"enroll", "enqueue", "wait"} /\ outcome[d.to] = None
      back == [conn[k] EXCEPT !.carry = None, !.reader = "run"]
      s == IF d.reply.malformed THEN Unread(back) ELSE back
      id == IdOf[d.reply.call]
      t == IF heard THEN s ELSE Released(s, id)
  IN /\ conn[k].reader = "deliver"
     /\ conn' = [conn EXCEPT ![k] = IF d.close THEN poison(t, "hard") ELSE t]
     /\ IF heard THEN UNCHANGED idle_connections ELSE CountReleased(s, id)
     /\ outcome' = [outcome EXCEPT ![d.to] = IF heard THEN Reply(d.reply) ELSE @]
     /\ UNCHANGED <<connecting, pc, at, requested, ran>>

\* End of stream, a frame that makes no sense, or an answer under no id.
ReaderEnds(k) ==
  /\ conn[k].open /\ conn[k].reader = "run"
  /\ conn' = [conn EXCEPT ![k] = Unread(poison(@, "hard"))]
  /\ UNCHANGED <<connecting, idle_connections, pc, at, outcome, requested, ran>>

\* client_idle: nobody used the connection for CLIENT_IDLE_TIMEOUT.  It looks
\* first and poisons after.
IdleExpires(k) ==
  /\ Usable(k) /\ is_quiescent(conn[k])
  /\ conn' = [conn EXCEPT ![k] = poison(@, "hard")]
  /\ UNCHANGED <<connecting, idle_connections, pc, at, outcome, requested, ran>>

\* poison() of the first task that gets there; the others find the flag up.
Poison(k) ==
  /\ \E kind \in conn[k].doom :
       conn' = [conn EXCEPT ![k].poisoned = TRUE, ![k].doom = {}, ![k].reap = kind]
  /\ UNCHANGED <<connecting, idle_connections, pc, at, outcome, requested, ran>>

\* The rest of poison(): every pending call is told, by what was written of
\* it.  The shutdown bell is heard by the tasks that are listening.
Reap(k) ==
  LET s == conn[k]
      sure(c) == \/ s.progress[c] = "Queued"
                 \/ s.progress[c] = "Writing" /\ s.reap = "soft"
  IN /\ s.reap # "none"
     /\ idle_connections' = idle_connections - (IF s.counted_idle THEN 1 ELSE 0)
     /\ conn' = [conn EXCEPT ![k] =
          [Without(IF s.reader = "run" THEN Unread(s) ELSE s, s.pending) EXCEPT
                    !.reap = "none", !.abandoned = {}, !.guarded = {},
                    !.writer = IF @ = "select" THEN "done" ELSE @]]
     /\ outcome' = [c \in Calls |->
          IF c \notin s.pending THEN outcome[c]
          ELSE IF sure(c) THEN NotDelivered ELSE OutcomeUnknown]
     /\ UNCHANGED <<connecting, pc, at, requested, ran>>

-----------------------------------------------------------------------------
(* serve_connection(), the other end.                                      *)

\* It leaves its loop: nothing more is read, and no handler can reply.
HungUp(s) ==
  [s EXCEPT !.up = FALSE, !.wire = <<>>, !.running = {}, !.active_ids = {},
            !.blob_responses = {}]

Replied(s, c, malformed, blobs) ==
  IF s.reader = "done" THEN s
  ELSE [s EXCEPT !.replies =
          Append(@, [call |-> c, malformed |-> malformed, blobs |-> blobs])]

\* A frame is read: an acknowledgement, a protocol error, a call that is
\* refused, or one whose handler is spawned.
ServerReads(k) ==
  LET req == Head(conn[k].wire).call
      id == Head(conn[k].wire).id
      s == [conn[k] EXCEPT !.wire = Tail(@)]
      bad == req \in Invalid \/ id \in s.blob_responses
      duplicate == id \in s.active_ids
  IN /\ conn[k].wire # <<>>
     /\ \/ /\ req = None
           /\ conn' = [conn EXCEPT ![k] = [s EXCEPT !.blob_responses = @ \ {id}]]
           /\ UNCHANGED ran
        \/ /\ req # None /\ (bad \/ duplicate)
           /\ conn' = [conn EXCEPT ![k] = HungUp(Replied(s, req, TRUE, FALSE))]
           /\ UNCHANGED ran
        \/ /\ req \in Refusable /\ ~bad
           /\ conn' = [conn EXCEPT ![k] = Replied(s, req, FALSE, FALSE)]
           /\ UNCHANGED ran
        \/ /\ req # None /\ ~bad /\ ~duplicate
           /\ conn' = [conn EXCEPT ![k] = [s EXCEPT !.running = @ \cup {req},
                                                    !.active_ids = @ \cup {id}]]
           /\ ran' = ran \cup {req}
     /\ UNCHANGED <<connecting, idle_connections, pc, at, outcome, requested>>

\* A handler is done.  BlobRefs are lent if the budgets admit them, and
\* recorded before the reply is written.
ServerReplies(k) ==
  /\ \E c \in conn[k].running : \E lent \in BOOLEAN :
       /\ lent => c \in Blobs
       /\ conn' = [conn EXCEPT ![k] =
            [Replied(@, c, FALSE, lent) EXCEPT
               !.running = @ \ {c},
               !.blob_responses = IF lent THEN @ \cup {IdOf[c]} ELSE @]]
  /\ UNCHANGED <<connecting, idle_connections, pc, at, outcome, requested, ran>>

\* Its id may be used again only after the reply was written.
ServerForgets(k) ==
  /\ \E id \in conn[k].active_ids \ {IdOf[c] : c \in conn[k].running} :
       conn' = [conn EXCEPT ![k].active_ids = @ \ {id}]
  /\ UNCHANGED <<connecting, idle_connections, pc, at, outcome, requested, ran>>

Done == \A c \in Calls : pc[c] = "done"

\* Every call has ended; the connections may be left as they are.
Rest == Done /\ UNCHANGED vars

CallStep(c) ==
  \/ Take(c) \/ StartConnect(c) \/ RefuseFull(c) \/ Connected(c)
  \/ ConnectFails(c) \/ Claim(c) \/ Register(c) \/ Enroll(c) \/ Enqueue(c)
  \/ Return(c) \/ TimeOut(c) \/ TimeOutReserving(c) \/ Cancel(c) \/ Drop(c)
  \/ send_blob_ack(c)

ConnStep(k) ==
  \/ WriterTakes(k) \/ WriterWrites(k) \/ WriterMarks(k) \/ WriterFails(k)
  \/ ReaderRoutes(k) \/ ReaderDelivers(k) \/ ReaderEnds(k) \/ IdleExpires(k)
  \/ Poison(k) \/ Reap(k) \/ ServerReads(k) \/ ServerReplies(k) \/ ServerForgets(k)

Next ==
  \/ \E c \in Calls : CallStep(c)
  \/ \E k \in Conns : ConnStep(k)
  \/ Rest

Spec == Init /\ [][Next]_vars

-----------------------------------------------------------------------------
(* Properties.                                                             *)

\* Calls and connections keep their types.
TypeOK ==
  /\ conn \in [Conns -> Connection]
  /\ connecting \in BOOLEAN /\ idle_connections \in Nat
  /\ pc \in [Calls -> {"reserve", "connect", "claim", "register",
                       "enroll", "enqueue", "wait", "guard", "done"}]
  /\ at \in [Calls -> Conns \cup {None}]
  /\ \A c \in Calls : outcome[c] \in {None, NotDelivered, OutcomeUnknown, Cancelled}
                                       \cup {Reply(r) : r \in Answer}
  /\ requested \subseteq Calls /\ ran \subseteq Calls

\* A call that waits and has heard nothing is about to be sent its reply, or
\* is registered with a connection that is read or whose failure has yet to
\* be announced: the reply or the failure will find it, and it need not sit
\* out its timeout (register against poison, and the end of the reader).
\* This holds if every request is valid and has an id of its own; see
\* EndOfReaderPoisons for one that is not.
NoOrphanWaiter ==
  \A c \in Calls :
    pc[c] \in {"enroll", "enqueue", "wait"} /\ outcome[c] = None =>
      LET s == conn[at[c]]
      IN \/ s.carry # None /\ s.carry.to = c
         \/ /\ c \in s.pending
            /\ \/ ~s.poisoned /\ s.reader # "done"
               \/ s.doom # {} \/ s.reap # "none"

\* CHANGELOG.md:18 of a method frame: "malformed, truncated, oversized, of
\* another version or request id, it always poisons and drops the connection"
\* (in Chinese there); docs/en/api.md:570-573 says that it fails every
\* remaining request.  So a connection that is no longer read is poisoned, or
\* about to be.
EndOfReaderPoisons ==
  \A k \in Conns :
    conn[k].reader = "done" => conn[k].poisoned \/ conn[k].doom # {}

\* The permits of a connection are those of the calls that hold one: no path
\* through cancellation, timeout, failure or refusal loses or doubles one.
SlotsBalanced ==
  \A k \in Conns :
    conn[k].slots = Cardinality(conn[k].pending)
                    + Cardinality({c \in Calls : pc[c] = "register" /\ at[c] = k})

\* The process-wide count of idle connections is the number of connections
\* that are counted, and stays within its cap.
IdleIsCounted ==
  /\ idle_connections =
       Cardinality({k \in Conns : conn[k].counted_idle
                                  /\ (~conn[k].poisoned \/ conn[k].reap # "none")})
  /\ idle_connections <= MAX_IDLE_CONNECTIONS

\* The calls whose frames or replies are on the wire or at the server.
Travelling(s) ==
  s.running \cup {s.replies[i].call : i \in 1..Len(s.replies)}
            \cup ({s.wire[i].call : i \in 1..Len(s.wire)} \ {None})

\* As long as a connection is in use, every reply on its way is one the
\* reader expects: the late reply of a call that gave up never poisons the
\* connection under the others (docs/en/api.md:572-575).  Every call has an
\* id of its own here.
RepliesAreExpected ==
  \A k \in Conns :
    Usable(k) => \A c \in Travelling(conn[k]) : Known(conn[k], IdOf[c])

\* One endpoint never has more usable connections than its limit, although
\* the limit is checked long before the connection exists (connecting).
ConnectionsBounded == Cardinality(Listed) <= MAX_CONNECTIONS_PER_ENDPOINT

\* python/tinyray/_errors.py:23 of NotDelivered: "It never reached the far
\* side, so the method certainly did not run."
NotDeliveredDidNotRun ==
  \A c \in Calls : outcome[c] = NotDelivered => c \notin ran

\* CHANGELOG.md:27: cancelling removes the waiter of the cancelled call and
\* nothing else.  So an endpoint marked as connecting has someone connecting.
ConnectingIsUnderWay == connecting => \E c \in Calls : pc[c] = "connect"

=============================================================================
