----------------------------- MODULE MCRegistry -----------------------------
(* Instances of Registry for TLC.                                          *)
EXTENDS Registry

CONSTANTS s1, f1, v1, v2

Plain == [policy |-> "rank", size |-> None, methods |-> {}]
Wide == [policy |-> "rank", size |-> 2, methods |-> {}]
Serving == [policy |-> "rank", size |-> None, methods |-> {"m"}]
Other == [policy |-> "any", size |-> None, methods |-> {}]

Quiet ==
  [id |-> s1, incarnation |-> 1, publication |-> None, value |-> v1,
   shape |-> Plain, leaving |-> FALSE, exclusive |-> FALSE, fits |-> TRUE,
   watch |-> FALSE, seen |-> None]

\* Seats, takeovers, goodbyes and lapses: three tenures compete for a seat,
\* politely or not, and a broken clock sends a fourth.
SeatBeats ==
  {[Quiet EXCEPT !.incarnation = t, !.leaving = l, !.exclusive = x] :
     t \in 1..4, l \in BOOLEAN, x \in BOOLEAN}
  \cup {[Quiet EXCEPT !.id = f1, !.leaving = l] : l \in BOOLEAN}
  \cup {[Quiet EXCEPT !.fits = FALSE]}

\* Publications, shapes and cursors: what deltas carry.
DeltaBeats ==
  {[Quiet EXCEPT !.publication = q, !.value = v, !.watch = TRUE, !.seen = n] :
     q \in {None, 0, 1}, v \in {v1, v2}, n \in {None} \cup 0..MaxVersion}
  \cup {[Quiet EXCEPT !.id = f1, !.leaving = l, !.shape = h] :
     l \in BOOLEAN, h \in {Plain, Wide, Serving, Other}}
  \cup {[Quiet EXCEPT !.leaving = TRUE, !.incarnation = 2]}

\* A ghost of tenure 1 that launched with another shape than tenure 2.
GhostBeats ==
  {[Quiet EXCEPT !.shape = Wide],
   [Quiet EXCEPT !.incarnation = 2, !.shape = Serving],
   [Quiet EXCEPT !.incarnation = 2, !.shape = Serving, !.leaving = TRUE]}
=============================================================================
