--------------------------- MODULE ClientSyncProofs ----------------------------
(***************************************************************************)
(* Theorems about a browser that follows the server's event log, for every *)
(* number of events, faults and retries and every size of batches.         *)
(***************************************************************************)
EXTENDS ClientSync, SequenceTheorems, TLAPS

-----------------------------------------------------------------------------
(* Stretches of the log                                                    *)

\* A stretch of the log is a sequence of its length.
LEMMA Stretch ==
  ASSUME NEW m \in Nat, NEW n \in Nat, m <= n
  PROVE  /\ Sequences(m, n) \in Seq(Nat)
         /\ Len(Sequences(m, n)) = n - m
         /\ \A i \in 1 .. n - m : Sequences(m, n)[i] = m + i
<1>1. n - m \in Nat
  OBVIOUS
<1>2. \A i \in 1 .. n - m : m + i \in Nat
  OBVIOUS
<1> QED
  BY <1>1, <1>2 DEF Sequences

\* There is nothing from a place of the log to itself.
LEMMA EmptyStretch ==
  ASSUME NEW n \in Nat
  PROVE  Sequences(n, n) = << >>
BY Stretch

\* Two stretches that meet are one.
LEMMA Joined ==
  ASSUME NEW l \in Nat, NEW m \in Nat, NEW n \in Nat, l <= m, m <= n
  PROVE  Sequences(l, m) \o Sequences(m, n) = Sequences(l, n)
<1> DEFINE s == Sequences(l, m)
           t == Sequences(m, n)
           u == Sequences(l, n)
<1>1. s \in Seq(Nat) /\ Len(s) = m - l /\ \A i \in 1 .. m - l : s[i] = l + i
  BY Stretch
<1>2. t \in Seq(Nat) /\ Len(t) = n - m /\ \A i \in 1 .. n - m : t[i] = m + i
  BY Stretch
<1>3. u \in Seq(Nat) /\ Len(u) = n - l /\ \A i \in 1 .. n - l : u[i] = l + i
  BY Stretch
<1> HIDE DEF s, t, u
<1>4. /\ s \o t \in Seq(Nat) /\ Len(s \o t) = Len(s) + Len(t)
      /\ \A i \in 1 .. Len(s) + Len(t) :
           (s \o t)[i] = IF i <= Len(s) THEN s[i] ELSE t[i - Len(s)]
  BY <1>1, <1>2, ConcatProperties
<1> DEFINE st == s \o t
<1> HIDE DEF st
<1>5. Len(st) = n - l /\ st \in Seq(Nat)
  BY <1>1, <1>2, <1>4 DEF st
<1>6. ASSUME NEW i \in 1 .. n - l PROVE st[i] = u[i]
  <2>1. CASE i <= m - l
    BY <1>1, <1>2, <1>3, <1>4, <2>1 DEF st
  <2>2. CASE i > m - l
    <3>1. i - (m - l) \in 1 .. n - m /\ i \in 1 .. Len(s) + Len(t) /\ ~(i <= Len(s))
      BY <1>1, <1>2, <2>2
    <3>2. st[i] = t[i - (m - l)]
      BY <1>1, <1>4, <3>1 DEF st
    <3> QED
      BY <1>2, <1>3, <3>1, <3>2
  <2> QED
    BY <2>1, <2>2
<1>7. st = u
  BY <1>3, <1>5, <1>6, SeqEqual
<1> QED
  BY <1>7 DEF s, t, u, st

\* The log up to a place is a sequence, and what follows on extends it.
LEMMA LogUpTo ==
  ASSUME NEW l \in Nat
  PROVE  /\ Sequences(0, l) \in Seq(Nat) /\ Len(Sequences(0, l)) = l
         /\ \A i \in 1 .. l : Sequences(0, l)[i] = i
         /\ \A n \in Nat :
              l <= n => Sequences(0, l) \o Sequences(l, n) = Sequences(0, n)
<1>1. 0 \in Nat /\ 0 <= l /\ l - 0 = l
  OBVIOUS
<1>2. /\ Sequences(0, l) \in Seq(Nat)
      /\ Len(Sequences(0, l)) = l - 0
      /\ \A i \in 1 .. l - 0 : Sequences(0, l)[i] = 0 + i
  BY <1>1, Stretch
<1>3. ASSUME NEW n \in Nat, l <= n
      PROVE  Sequences(0, l) \o Sequences(l, n) = Sequences(0, n)
  BY <1>1, <1>3, Joined
<1> DEFINE u == Sequences(0, l)
<1>4. u \in Seq(Nat) /\ Len(u) = l
  BY <1>1, <1>2
<1>5. ASSUME NEW i \in 1 .. l PROVE u[i] = i
  <2>1. i \in 1 .. l - 0 /\ 0 + i = i
    OBVIOUS
  <2> QED
    BY <1>2, <2>1
<1> QED
  BY <1>3, <1>4, <1>5

\* What a batch has past its first k events, if those alone are applied.
LEMMA UnappliedEnd ==
  ASSUME NEW c, NEW events \in Seq(Nat), c.latest \in Nat, NEW k \in 0 .. Len(events),
         \A j \in 1 .. k : events[j] <= c.latest,
         k < Len(events) => events[k + 1] > c.latest
  PROVE  Unapplied(c, events) = SubSeq(events, k + 1, Len(events))
<1> DEFINE P(i) == /\ \A j \in 1 .. i - 1 : events[j] <= c.latest
                   /\ i <= Len(events) => events[i] > c.latest
<1>1. k + 1 \in 1 .. Len(events) + 1 /\ P(k + 1)
  OBVIOUS
<1>2. ASSUME NEW i \in 1 .. Len(events) + 1, P(i) PROVE i = k + 1
  <2>1. CASE i < k + 1
    <3>1. i \in 1 .. k /\ i <= Len(events) /\ events[i] \in Nat
      BY <2>1
    <3> QED
      BY <1>2, <3>1
  <2>2. CASE i > k + 1
    <3>1. k + 1 \in 1 .. i - 1 /\ k < Len(events) /\ events[k + 1] \in Nat
      BY <2>2
    <3> QED
      BY <1>2, <3>1
  <2> QED
    BY <2>1, <2>2
<1>3. FirstUnapplied(c, events) = CHOOSE i \in 1 .. Len(events) + 1 : P(i)
  BY DEF FirstUnapplied
<1> HIDE DEF P
<1>4. FirstUnapplied(c, events) = k + 1
  BY <1>1, <1>2, <1>3
<1> QED
  BY <1>4 DEF Unapplied

\* A stretch that starts within what is applied has its end past that.
LEMMA UnappliedStretch ==
  ASSUME NEW c, c.latest \in Nat, NEW m \in Nat, NEW n \in Nat, m <= n, m <= c.latest
  PROVE  Unapplied(c, Sequences(m, n)) =
           IF n <= c.latest THEN << >> ELSE Sequences(c.latest, n)
<1> DEFINE s == Sequences(m, n)
           l == c.latest
<1>1. s \in Seq(Nat) /\ Len(s) = n - m /\ \A i \in 1 .. n - m : s[i] = m + i
  BY Stretch
<1> HIDE DEF s, l
<1>2. l \in Nat /\ m <= l
  BY DEF l
<1>3. CASE n <= l
  <2>1. Len(s) \in 0 .. Len(s) /\ \A j \in 1 .. Len(s) : s[j] <= l
    BY <1>1, <1>2, <1>3
  <2>2. \A j \in 1 .. Len(s) : s[j] <= c.latest
    BY <2>1 DEF l
  <2>3. Unapplied(c, s) = SubSeq(s, Len(s) + 1, Len(s))
    BY <1>1, <2>1, <2>2, UnappliedEnd
  <2>4. SubSeq(s, Len(s) + 1, Len(s)) = << >>
    BY <1>1, SubSeqEmpty
  <2> QED
    BY <1>3, <2>3, <2>4 DEF s, l
<1>4. CASE ~(n <= l)
  <2> DEFINE k == l - m
             u == Sequences(l, n)
  <2>1. u \in Seq(Nat) /\ Len(u) = n - l /\ \A i \in 1 .. n - l : u[i] = l + i
    <3>1. l \in Nat /\ n \in Nat /\ l <= n
      BY <1>2, <1>4
    <3> QED
      BY <3>1, Stretch
  <2> HIDE DEF u
  <2>2. k \in 0 .. Len(s) /\ k + 1 \in 1 .. Len(s) /\ Len(s) - (k + 1) + 1 = n - l
    BY <1>1, <1>2, <1>4
  <2>3. (\A j \in 1 .. k : s[j] <= l) /\ s[k + 1] > l
    <3>1. ASSUME NEW j \in 1 .. k PROVE s[j] <= l
      <4>1. j \in 1 .. n - m /\ m + j <= l
        BY <1>2, <1>4
      <4> QED
        BY <1>1, <4>1
    <3>2. k + 1 \in 1 .. n - m /\ m + (k + 1) > l
      BY <1>2, <1>4
    <3>3. s[k + 1] > l
      BY <1>1, <3>2
    <3> QED
      BY <3>1, <3>3
  <2> HIDE DEF k
  <2>4. Unapplied(c, s) = SubSeq(s, k + 1, Len(s))
    BY <1>1, <1>2, <2>2, <2>3, UnappliedEnd DEF l
  <2> DEFINE e == SubSeq(s, k + 1, Len(s))
  <2>5. ASSUME NEW i \in k + 1 .. Len(s) PROVE s[i] \in Nat
    <3>1. i \in 1 .. Len(s)
      BY <2>2
    <3> QED
      BY <1>1, <3>1
  <2>6. e \in Seq(Nat) /\ Len(e) = n - l /\ \A i \in 1 .. n - l : e[i] = s[k + 1 + i - 1]
    <3>1. k + 1 \in Int /\ Len(s) \in Int /\ k + 1 <= Len(s)
      BY <1>1, <2>2
    <3> QED
      BY <2>2, <2>5, <3>1, SubSeqProperties
  <2> HIDE DEF e
  <2>7. ASSUME NEW i \in 1 .. n - l PROVE e[i] = u[i]
    <3>1. k + 1 + i - 1 \in 1 .. n - m /\ m + (k + 1 + i - 1) = l + i
      BY <1>2, <1>4 DEF k
    <3> QED
      BY <1>1, <2>1, <2>6, <3>1
  <2>8. e = u
    BY <2>1, <2>6, <2>7, SeqEqual
  <2> QED
    BY <1>4, <2>4, <2>8 DEF s, l, e, u
<1> QED
  BY <1>3, <1>4

-----------------------------------------------------------------------------
(* The coordinator                                                         *)

\* Observing an event, and asking for a recovery, move no latestSequence.
LEMMA CoordinatorSteps ==
  ASSUME NEW c \in Coordinator
  PROVE  /\ \A n \in Nat :
              /\ Observed(c, n) \in Coordinator
              /\ Observed(c, n).latest = c.latest
              /\ Observed(c, n).inFlight = c.inFlight
              /\ Observed(c, n).bootstrapped = c.bootstrapped
         /\ BeginSnapshot(c) \in Coordinator
         /\ BeginSnapshot(c).latest = c.latest
         /\ BeginSnapshot(c).bootstrapped = c.bootstrapped
         /\ BeginSnapshot(c).inFlight =
              IF c.inFlight = "none" THEN "snapshot" ELSE c.inFlight
         /\ BeginReplay(c) \in Coordinator
         /\ BeginReplay(c).latest = c.latest
         /\ BeginReplay(c).bootstrapped = c.bootstrapped
         /\ BeginReplay(c).inFlight =
              IF c.bootstrapped /\ c.inFlight = "none" THEN "replay" ELSE c.inFlight
<1>1. ASSUME NEW n \in Nat
      PROVE  /\ Observed(c, n) \in Coordinator
             /\ Observed(c, n).latest = c.latest
             /\ Observed(c, n).inFlight = c.inFlight
             /\ Observed(c, n).bootstrapped = c.bootstrapped
  <2> DEFINE b == c.pendingReplay \/ Classify(c, n) \in {"defer", "recover"}
             o == Larger(c.observed, n)
  <2>1. b \in BOOLEAN
    OBVIOUS
  <2>2. o \in Nat
    BY DEF Larger, Coordinator
  <2>3. Observed(c, n) = [c EXCEPT !.observed = o, !.pendingReplay = b]
    BY DEF Observed
  <2> HIDE DEF b, o
  <2> QED
    BY <2>1, <2>2, <2>3 DEF Coordinator
<1>2. /\ BeginSnapshot(c) \in Coordinator
      /\ BeginSnapshot(c).latest = c.latest
      /\ BeginSnapshot(c).bootstrapped = c.bootstrapped
      /\ BeginSnapshot(c).inFlight =
           IF c.inFlight = "none" THEN "snapshot" ELSE c.inFlight
  BY DEF BeginSnapshot, MayBeginSnapshot, Coordinator, Phases
<1>3. /\ BeginReplay(c) \in Coordinator
      /\ BeginReplay(c).latest = c.latest
      /\ BeginReplay(c).bootstrapped = c.bootstrapped
      /\ BeginReplay(c).inFlight =
           IF c.bootstrapped /\ c.inFlight = "none" THEN "replay" ELSE c.inFlight
  BY DEF BeginReplay, MayBeginReplay, Coordinator, Phases
<1> QED
  BY <1>1, <1>2, <1>3

\* A recovery ends by leaving none in flight.
LEMMA CoordinatorEnds ==
  ASSUME NEW c \in Coordinator
  PROVE  /\ \A n \in Nat :
              /\ CompleteSnapshot(c, n) \in Coordinator
              /\ CompleteSnapshot(c, n).latest = Larger(c.latest, n)
              /\ CompleteSnapshot(c, n).inFlight = "none"
              /\ CompleteSnapshot(c, n).bootstrapped = TRUE
         /\ CompleteReplay(c) \in Coordinator
         /\ CompleteReplay(c).latest = c.latest
         /\ CompleteReplay(c).inFlight = "none"
         /\ CompleteReplay(c).bootstrapped = c.bootstrapped
         /\ FailSnapshot(c) \in Coordinator
         /\ FailSnapshot(c).latest = c.latest
         /\ FailSnapshot(c).inFlight = "none"
         /\ FailReplay(c) \in Coordinator
         /\ FailReplay(c).latest = c.latest
         /\ FailReplay(c).inFlight = "none"
<1>1. ASSUME NEW n \in Nat
      PROVE  /\ CompleteSnapshot(c, n) \in Coordinator
             /\ CompleteSnapshot(c, n).latest = Larger(c.latest, n)
             /\ CompleteSnapshot(c, n).inFlight = "none"
             /\ CompleteSnapshot(c, n).bootstrapped = TRUE
  BY DEF CompleteSnapshot, SnapshotLoaded, Larger, Coordinator, Phases
<1>2. /\ CompleteReplay(c) \in Coordinator
      /\ CompleteReplay(c).latest = c.latest
      /\ CompleteReplay(c).inFlight = "none"
      /\ CompleteReplay(c).bootstrapped = c.bootstrapped
  BY DEF CompleteReplay, Coordinator, Phases
<1>3. /\ FailSnapshot(c) \in Coordinator
      /\ FailSnapshot(c).latest = c.latest
      /\ FailSnapshot(c).inFlight = "none"
      /\ FailReplay(c) \in Coordinator
      /\ FailReplay(c).latest = c.latest
      /\ FailReplay(c).inFlight = "none"
  BY DEF FailSnapshot, FailReplay, Coordinator, Phases
<1> QED
  BY <1>1, <1>2, <1>3

\* Applying a batch sets latestSequence and nothing that governs recovery.
LEMMA AppliedBatch ==
  ASSUME NEW c \in Coordinator, NEW events, Unapplied(c, events) \in Seq(Nat)
  PROVE  /\ Applied(c, events) \in Coordinator
         /\ Applied(c, events).inFlight = c.inFlight
         /\ Applied(c, events).bootstrapped = c.bootstrapped
         /\ Applied(c, events).latest =
              IF Unapplied(c, events) = << >> THEN c.latest
              ELSE Unapplied(c, events)[Len(Unapplied(c, events))]
<1> DEFINE new == Unapplied(c, events)
           last == new[Len(new)]
<1> HIDE DEF new
<1>1. CASE new = << >>
  BY <1>1 DEF Applied, new
<1>2. CASE new # << >>
  <2>1. last \in Nat
    BY <1>2 DEF new
  <2>2. Applied(c, events) =
          [c EXCEPT !.latest = last, !.observed = Larger(@, last)]
    BY <1>2 DEF Applied, new
  <2> HIDE DEF last
  <2>3. Larger(c.observed, last) \in Nat
    BY <2>1 DEF Larger, Coordinator
  <2>4. /\ Applied(c, events) \in Coordinator
        /\ Applied(c, events).inFlight = c.inFlight
        /\ Applied(c, events).bootstrapped = c.bootstrapped
        /\ Applied(c, events).latest = last
    BY <2>1, <2>2, <2>3 DEF Coordinator
  <2> QED
    BY <1>2, <2>4 DEF last, new
<1> QED
  BY <1>1, <1>2

\* A store that is the log up to latestSequence stays so when a stretch of the
\* log that starts within it is applied.
LEMMA AppliedStretch ==
  ASSUME NEW c \in Coordinator, NEW m \in Nat, NEW n \in Nat, m <= n, m <= c.latest
  PROVE  /\ Applied(c, Sequences(m, n)) \in Coordinator
         /\ Applied(c, Sequences(m, n)).inFlight = c.inFlight
         /\ Applied(c, Sequences(m, n)).bootstrapped = c.bootstrapped
         /\ Applied(c, Sequences(m, n)).latest = Larger(c.latest, n)
         /\ Sequences(0, c.latest) \o Unapplied(c, Sequences(m, n)) =
              Sequences(0, Larger(c.latest, n))
<1> DEFINE s == Sequences(m, n)
           new == Unapplied(c, s)
           l == c.latest
<1>1. l \in Nat
  BY DEF Coordinator
<1>2. new = IF n <= l THEN << >> ELSE Sequences(l, n)
  BY <1>1, UnappliedStretch
<1>3. Sequences(0, l) \in Seq(Nat)
  BY <1>1, LogUpTo
<1>4. CASE n <= l
  <2>1. new = << >> /\ Larger(l, n) = l
    BY <1>1, <1>2, <1>4 DEF Larger
  <2>2. new \in Seq(Nat)
    BY <2>1
  <2> HIDE DEF s, l
  <2>3. Sequences(0, l) \o << >> = Sequences(0, l)
    BY <1>3
  <2> QED
    BY <2>1, <2>2, <2>3, AppliedBatch DEF s, l
<1>5. CASE ~(n <= l)
  <2>1. new = Sequences(l, n) /\ Larger(l, n) = n /\ l <= n
    BY <1>1, <1>2, <1>5 DEF Larger
  <2> HIDE DEF s, l
  <2>2. new \in Seq(Nat) /\ Len(new) = n - l /\ new[n - l] = n
    <3>1. n - l \in 1 .. n - l /\ l + (n - l) = n
      BY <1>1, <1>5
    <3>2. /\ Sequences(l, n) \in Seq(Nat)
          /\ Len(Sequences(l, n)) = n - l
          /\ \A i \in 1 .. n - l : Sequences(l, n)[i] = l + i
      BY <1>1, <2>1, Stretch
    <3> QED
      BY <2>1, <3>1, <3>2
  <2>3. new # << >>
    BY <1>1, <1>5, <2>2
  <2>4. Sequences(0, l) \o Sequences(l, n) = Sequences(0, n)
    BY <1>1, <2>1, LogUpTo
  <2>5. /\ Applied(c, s) \in Coordinator
        /\ Applied(c, s).inFlight = c.inFlight
        /\ Applied(c, s).bootstrapped = c.bootstrapped
        /\ Applied(c, s).latest = new[Len(new)]
    BY <2>2, <2>3, AppliedBatch
  <2> QED
    BY <2>1, <2>2, <2>4, <2>5 DEF s, l
<1> QED
  BY <1>4, <1>5

\* Pending events: those before the last are reflected already, and the last is
\* reflected or the next.
Follows(events, l) ==
  \A i \in 1 .. Len(events) :
    events[i] <= IF i = Len(events) THEN l + 1 ELSE l

\* latestSequence when they have been flushed.
Reached(events, l) ==
  IF events # << >> /\ events[Len(events)] = l + 1 THEN l + 1 ELSE l

\* Of the pending events at most the last is unapplied.
LEMMA UnappliedPending ==
  ASSUME NEW c, c.latest \in Nat, NEW events \in Seq(Nat),
         Follows(events, c.latest)
  PROVE  Unapplied(c, events) =
           IF Reached(events, c.latest) = c.latest THEN << >>
           ELSE << c.latest + 1 >>
<1> DEFINE l == c.latest
<1>1. l \in Nat /\ Follows(events, l)
  OBVIOUS
<1> HIDE DEF l
<1>2. \A i \in 1 .. Len(events) : events[i] \in Nat
  OBVIOUS
<1>3. CASE events # << >> /\ events[Len(events)] = l + 1
  <2> DEFINE k == Len(events) - 1
  <2>1. k \in 0 .. Len(events) /\ k + 1 = Len(events) /\ events[k + 1] > l
    BY <1>1, <1>3
  <2>2. ASSUME NEW j \in 1 .. k PROVE events[j] <= l
    <3>1. j \in 1 .. Len(events) /\ j # Len(events)
      <4>1. Len(events) \in Nat /\ j \in Nat /\ 1 <= j /\ j <= Len(events) - 1
        OBVIOUS
      <4> QED
        BY <4>1
    <3> QED
      BY <1>1, <3>1 DEF Follows
  <2>3. Unapplied(c, events) = SubSeq(events, k + 1, Len(events))
    BY <1>1, <2>1, <2>2, UnappliedEnd DEF l
  <2>4. SubSeq(events, k + 1, Len(events)) = << l + 1 >>
    <3> DEFINE e == SubSeq(events, Len(events), Len(events))
    <3>1. /\ Len(events) \in 1 .. Len(events)
          /\ \A i \in Len(events) .. Len(events) : events[i] \in Nat
      BY <1>2, <2>1
    <3>2. /\ e \in Seq(Nat)
          /\ Len(e) = Len(events) - Len(events) + 1
          /\ \A i \in 1 .. Len(events) - Len(events) + 1 :
               e[i] = events[Len(events) + i - 1]
      BY <3>1, SubSeqProperties
    <3> HIDE DEF e
    <3>3. Len(e) = 1 /\ e[1] = l + 1
      BY <1>3, <3>1, <3>2
    <3>4. e = << l + 1 >>
      BY <1>1, <3>2, <3>3
    <3> QED
      BY <2>1, <3>4 DEF e
  <2>5. Reached(events, l) = l + 1 /\ l + 1 # l
    BY <1>1, <1>3 DEF Reached
  <2> QED
    BY <2>3, <2>4, <2>5 DEF l
<1>4. CASE ~(events # << >> /\ events[Len(events)] = l + 1)
  <2>1. \A j \in 1 .. Len(events) : events[j] <= l
    BY <1>1, <1>2, <1>4 DEF Follows
  <2>2. Unapplied(c, events) = SubSeq(events, Len(events) + 1, Len(events))
    BY <1>1, <2>1, UnappliedEnd DEF l
  <2>3. SubSeq(events, Len(events) + 1, Len(events)) = << >>
    BY SubSeqEmpty
  <2>4. Reached(events, l) = l
    BY <1>4 DEF Reached
  <2> QED
    BY <2>2, <2>3, <2>4 DEF l
<1> QED
  BY <1>3, <1>4

\* Flushing pending events keeps the store the log up to latestSequence.
LEMMA AppliedPending ==
  ASSUME NEW c \in Coordinator, NEW events \in Seq(Nat),
         Follows(events, c.latest)
  PROVE  /\ Applied(c, events) \in Coordinator
         /\ Applied(c, events).inFlight = c.inFlight
         /\ Applied(c, events).bootstrapped = c.bootstrapped
         /\ Applied(c, events).latest = Reached(events, c.latest)
         /\ Sequences(0, c.latest) \o Unapplied(c, events) =
              Sequences(0, Reached(events, c.latest))
<1> DEFINE l == c.latest
           new == Unapplied(c, events)
<1>1. l \in Nat
  BY DEF Coordinator
<1>2. new = IF Reached(events, l) = l THEN << >> ELSE << l + 1 >>
  BY <1>1, UnappliedPending
<1>3. Sequences(0, l) \in Seq(Nat)
  BY <1>1, LogUpTo
<1> HIDE DEF l
<1>4. CASE Reached(events, l) = l
  <2>1. new = << >> /\ new \in Seq(Nat)
    BY <1>2, <1>4
  <2>2. Sequences(0, l) \o << >> = Sequences(0, l)
    BY <1>3
  <2> QED
    BY <1>4, <2>1, <2>2, AppliedBatch DEF l
<1>5. CASE Reached(events, l) # l
  <2>1. new = << l + 1 >> /\ Reached(events, l) = l + 1
    BY <1>2, <1>5 DEF Reached
  <2>2. new \in Seq(Nat) /\ Len(new) = 1 /\ new # << >> /\ new[1] = l + 1
    BY <1>1, <2>1
  <2>3. Sequences(l, l + 1) = << l + 1 >>
    BY <1>1 DEF Sequences
  <2>4. Sequences(0, l) \o Sequences(l, l + 1) = Sequences(0, l + 1)
    <3>1. l + 1 \in Nat /\ l <= l + 1
      BY <1>1
    <3> QED
      BY <1>1, <3>1, LogUpTo
  <2>5. /\ Applied(c, events) \in Coordinator
        /\ Applied(c, events).inFlight = c.inFlight
        /\ Applied(c, events).bootstrapped = c.bootstrapped
        /\ Applied(c, events).latest = new[Len(new)]
    BY <2>2, AppliedBatch
  <2> QED
    BY <2>1, <2>2, <2>3, <2>4, <2>5 DEF l
<1> QED
  BY <1>4, <1>5

-----------------------------------------------------------------------------
(* The invariant                                                           *)

Streams == [open : {"no", "opening", "yes"}, from : Nat, read : BOOLEAN,
            replay : Seq(Nat), subscribed : BOOLEAN, live : Seq(Nat),
            seen : SUBSET Nat]

Requests == [kind : Phases, from : Nat, answered : BOOLEAN, upTo : Nat]

UpTo(events, n) == \A i \in 1 .. Len(events) : events[i] <= n

ServerTypes ==
  /\ published \in Nat /\ model \in Nat /\ log \in Nat
  /\ published <= model /\ model <= log /\ log <= MaxEvents
  /\ sub \in Streams
  /\ wire \in Seq(Nat)
  /\ received \in BOOLEAN
  /\ faults \in 0 .. MaxFaults

\* What is sent has been committed.
WireCommitted ==
  /\ sub.from <= log
  /\ UpTo(sub.replay, log)
  /\ UpTo(sub.live, log)
  /\ UpTo(wire, log)

\* A stream that is not open has nothing under way.
Closed ==
  sub.open # "yes" =>
    /\ wire = << >> /\ sub.replay = << >> /\ sub.live = << >>
    /\ ~sub.subscribed

\* An event is on its way once, and the stream remembers it.
SentOnce ==
  /\ \A i \in 1 .. Len(wire) : wire[i] \in sub.seen
  /\ \A i, j \in 1 .. Len(wire) : wire[i] = wire[j] => i = j

Wire == ServerTypes /\ WireCommitted /\ Closed /\ SentOnce

TrackerOK ==
  tracker = NoTracker \/ tracker.attempts \in 1 .. MaxNoProgressRetries

ClientTypes ==
  /\ coord \in Coordinator
  /\ pending \in Seq(Nat)
  /\ request \in Requests
  /\ request.kind = coord.inFlight
  /\ TrackerOK
  /\ retryArmed \in BOOLEAN

\* A replay starts within what is applied.  An answered snapshot reaches past
\* what is applied and what is pending: nothing is classified "apply" while it
\* is in flight.
RequestCurrent ==
  /\ request.kind = "replay" =>
       /\ coord.bootstrapped
       /\ request.from <= coord.latest
       /\ request.answered => request.from <= request.upTo /\ request.upTo <= log
  /\ request.kind = "snapshot" /\ request.answered =>
       /\ coord.latest <= request.upTo
       /\ request.upTo <= log
       /\ UpTo(pending, request.upTo)

Client ==
  /\ ClientTypes
  /\ UpTo(pending, log)
  /\ Follows(pending, coord.latest)
  /\ RequestCurrent
  /\ StoreIsPrefix

\* Events of the connection that are pending are neither on their way nor to be
\* sent again; events of an earlier one are flushed before the next one opens.
PendingOnce ==
  /\ pending # << >> => received /\ sub.open # "opening"
  /\ sub.open = "yes" =>
       \A i \in 1 .. Len(pending) :
         /\ pending[i] \in sub.seen
         /\ \A j \in 1 .. Len(wire) : wire[j] # pending[i]

IInv == Wire /\ Client /\ PendingOnce

\* The invariant implies the types and the property of the runs.
LEMMA Implied ==
  ASSUME IInv
  PROVE  TypeOK /\ StoreIsPrefix
<1>1. /\ published \in 0 .. model /\ model \in 0 .. log /\ log \in 0 .. MaxEvents
      /\ sub.open \in {"no", "opening", "yes"}
      /\ received \in BOOLEAN /\ faults \in 0 .. MaxFaults
  BY ClientSyncAssumption DEF IInv, Wire, ServerTypes, Streams
<1>2. /\ retryArmed \in BOOLEAN /\ coord \in Coordinator
      /\ request.kind = coord.inFlight /\ TrackerOK /\ StoreIsPrefix
  BY DEF IInv, Client, ClientTypes
<1> QED
  BY <1>1, <1>2 DEF TypeOK, TrackerOK

\* The invariant holds initially.
LEMMA InvariantInit ==
  ASSUME Init
  PROVE  IInv
<1>1. ServerTypes
  <2>1. sub \in Streams
    BY DEF Init, NoSub, Streams
  <2>2. wire \in Seq(Nat)
    BY DEF Init
  <2>3. received \in BOOLEAN
    BY DEF Init
  <2>4. log \in Nat /\ log <= MaxEvents /\ faults \in 0 .. MaxFaults
    BY ClientSyncAssumption DEF Init
  <2>5. published \in Nat /\ model \in Nat /\ published <= model /\ model <= log
    BY DEF Init
  <2> QED
    BY <2>1, <2>2, <2>3, <2>4, <2>5 DEF ServerTypes
<1>2. Wire
  <2>1. WireCommitted
    BY DEF Init, NoSub, WireCommitted, UpTo
  <2>2. Closed
    BY DEF Init, NoSub, Closed
  <2>3. SentOnce
    BY DEF Init, SentOnce
  <2> QED
    BY <1>1, <2>1, <2>2, <2>3 DEF Wire
<1>3. ClientTypes
  <2>1. coord \in Coordinator
    BY DEF Init, InitialCoordinator, Coordinator, Phases
  <2>2. request \in Requests
    BY DEF Init, NoRequest, Requests, Phases
  <2>3. request.kind = coord.inFlight
    BY DEF Init, InitialCoordinator, NoRequest
  <2>4. pending \in Seq(Nat)
    BY DEF Init
  <2>5. TrackerOK
    BY DEF Init, TrackerOK
  <2>6. retryArmed \in BOOLEAN
    BY DEF Init
  <2> QED
    BY <2>1, <2>2, <2>3, <2>4, <2>5, <2>6 DEF ClientTypes
<1>4. Follows(pending, coord.latest) /\ UpTo(pending, log) /\ RequestCurrent
  BY DEF Init, Follows, UpTo, RequestCurrent, NoRequest
<1>5. StoreIsPrefix
  BY EmptyStretch DEF Init, InitialCoordinator, StoreIsPrefix
<1>6. PendingOnce
  BY DEF Init, PendingOnce, NoSub
<1> QED
  BY <1>2, <1>3, <1>4, <1>5, <1>6 DEF IInv, Client

-----------------------------------------------------------------------------
(* Sending                                                                 *)

\* Appending an event that has been committed keeps what is sent committed.
LEMMA AppendUpTo ==
  ASSUME NEW events \in Seq(Nat), NEW e \in Nat, NEW n \in Nat,
         UpTo(events, n), e <= n
  PROVE  Append(events, e) \in Seq(Nat) /\ UpTo(Append(events, e), n)
BY AppendProperties DEF UpTo

\* Taking the first one does, too.
LEMMA TailUpTo ==
  ASSUME NEW events \in Seq(Nat), NEW n \in Nat, UpTo(events, n), events # << >>
  PROVE  /\ Tail(events) \in Seq(Nat) /\ UpTo(Tail(events), n)
         /\ Head(events) \in Nat /\ Head(events) <= n
BY HeadTailProperties DEF UpTo

\* What is committed stays so.
LEMMA StillUpTo ==
  ASSUME NEW events \in Seq(Nat), NEW m \in Nat, NEW n \in Nat, m <= n,
         UpTo(events, m)
  PROVE  UpTo(events, n)
BY DEF UpTo

\* The engine's steps and the opening of a stream keep what is on its way in
\* order.
LEMMA WireByEngine ==
  ASSUME IInv,
         \/ Commit \/ ApplyCommitted \/ Publish
         \/ OpenStream \/ ReadReplay \/ SubscribeLive
  PROVE  Wire'
<1>1. ServerTypes /\ WireCommitted /\ Closed /\ SentOnce
  BY DEF IInv, Wire
<1>2. CASE Commit
  <2>1. log' = log + 1 /\ log' <= MaxEvents /\ log' \in Nat /\ log <= log'
    BY <1>1, <1>2, ClientSyncAssumption DEF Commit, ServerTypes
  <2>2. UNCHANGED <<published, model, sub, wire, received, faults>>
    BY <1>2 DEF Commit
  <2>3. ServerTypes'
    BY <1>1, <2>1, <2>2 DEF ServerTypes
  <2>4. WireCommitted'
    <3>1. sub.replay \in Seq(Nat) /\ sub.live \in Seq(Nat) /\ sub.from \in Nat
          /\ wire \in Seq(Nat) /\ log \in Nat
      BY <1>1 DEF ServerTypes, Streams
    <3> QED
      BY <1>1, <2>1, <2>2, <3>1, StillUpTo DEF WireCommitted
  <2>5. Closed' /\ SentOnce'
    BY <1>1, <2>2 DEF Closed, SentOnce
  <2> QED
    BY <2>3, <2>4, <2>5 DEF Wire
<1>3. CASE ApplyCommitted
  <2>1. model' = log /\ UNCHANGED <<published, log, sub, wire, received, faults>>
    BY <1>3 DEF ApplyCommitted
  <2>2. ServerTypes'
    BY <1>1, <2>1 DEF ServerTypes
  <2>3. WireCommitted' /\ Closed' /\ SentOnce'
    BY <1>1, <2>1 DEF WireCommitted, Closed, SentOnce
  <2> QED
    BY <2>2, <2>3 DEF Wire
<1>4. CASE Publish
  <2>1. /\ published' = published + 1 /\ published < model
        /\ UNCHANGED <<model, log, wire, received, faults>>
    BY <1>4 DEF Publish
  <2>2. CASE ~sub.subscribed
    <3>1. sub' = sub
      BY <1>4, <2>2 DEF Publish
    <3>2. ServerTypes'
      BY <1>1, <2>1, <3>1 DEF ServerTypes
    <3>3. WireCommitted' /\ Closed' /\ SentOnce'
      BY <1>1, <2>1, <3>1 DEF WireCommitted, Closed, SentOnce
    <3> QED
      BY <3>2, <3>3 DEF Wire
  <2>3. CASE sub.subscribed
    <3>1. sub' = [sub EXCEPT !.live = Append(sub.live, published + 1)]
      BY <1>4, <2>3 DEF Publish
    <3>2. sub.live \in Seq(Nat) /\ published + 1 \in Nat /\ published + 1 <= log
          /\ log \in Nat /\ UpTo(sub.live, log) /\ sub \in Streams
      BY <1>1, <2>1 DEF ServerTypes, Streams, WireCommitted
    <3> DEFINE l == Append(sub.live, published + 1)
    <3>3. l \in Seq(Nat) /\ UpTo(l, log)
      BY <3>2, AppendUpTo
    <3> HIDE DEF l
    <3>4. /\ sub' \in Streams /\ sub'.live = l /\ sub'.replay = sub.replay
          /\ sub'.from = sub.from /\ sub'.open = sub.open /\ sub'.seen = sub.seen
      BY <3>1, <3>2, <3>3 DEF Streams, l
    <3>5. ServerTypes'
      BY <1>1, <2>1, <3>4 DEF ServerTypes
    <3>6. WireCommitted'
      BY <1>1, <2>1, <3>3, <3>4 DEF WireCommitted
    <3>7. sub.open = "yes"
      BY <1>1, <2>3 DEF Closed
    <3>8. Closed' /\ SentOnce'
      BY <1>1, <2>1, <3>4, <3>7 DEF Closed, SentOnce
    <3> QED
      BY <3>5, <3>6, <3>8 DEF Wire
  <2> QED
    BY <2>2, <2>3
<1>5. CASE OpenStream
  <2>1. /\ sub.open = "opening" /\ sub' = [sub EXCEPT !.open = "yes", !.from = model]
        /\ UNCHANGED <<published, model, log, wire, received, faults>>
    BY <1>5 DEF OpenStream, server
  <2>2. sub \in Streams /\ model \in Nat /\ model <= log
    BY <1>1 DEF ServerTypes
  <2>3. /\ sub' \in Streams /\ sub'.open = "yes" /\ sub'.from = model
        /\ sub'.replay = sub.replay /\ sub'.live = sub.live /\ sub'.seen = sub.seen
    BY <2>1, <2>2 DEF Streams
  <2>4. ServerTypes'
    BY <1>1, <2>1, <2>3 DEF ServerTypes
  <2>5. WireCommitted'
    BY <1>1, <2>1, <2>2, <2>3 DEF WireCommitted
  <2>6. Closed' /\ SentOnce'
    BY <1>1, <2>1, <2>3 DEF Closed, SentOnce
  <2> QED
    BY <2>4, <2>5, <2>6 DEF Wire
<1>6. CASE ReadReplay
  <2> DEFINE r == Sequences(sub.from, log)
  <2>1. /\ sub.open = "yes" /\ sub' = [sub EXCEPT !.read = TRUE, !.replay = r]
        /\ UNCHANGED <<published, model, log, wire, received, faults>>
    BY <1>6 DEF ReadReplay, server
  <2>2. sub \in Streams /\ sub.from \in Nat /\ log \in Nat /\ sub.from <= log
    BY <1>1 DEF ServerTypes, Streams, WireCommitted
  <2>3. r \in Seq(Nat) /\ UpTo(r, log)
    <3>1. /\ r \in Seq(Nat) /\ Len(r) = log - sub.from
          /\ \A i \in 1 .. log - sub.from : r[i] = sub.from + i
      BY <2>2, Stretch
    <3> HIDE DEF r
    <3> QED
      BY <2>2, <3>1 DEF UpTo
  <2> HIDE DEF r
  <2>4. /\ sub' \in Streams /\ sub'.open = "yes" /\ sub'.from = sub.from
        /\ sub'.replay = r /\ sub'.live = sub.live /\ sub'.seen = sub.seen
    BY <2>1, <2>2, <2>3 DEF Streams
  <2>5. ServerTypes'
    BY <1>1, <2>1, <2>4 DEF ServerTypes
  <2>6. WireCommitted'
    BY <1>1, <2>1, <2>3, <2>4 DEF WireCommitted
  <2>7. Closed' /\ SentOnce'
    BY <1>1, <2>1, <2>4 DEF Closed, SentOnce
  <2> QED
    BY <2>5, <2>6, <2>7 DEF Wire
<1>7. CASE SubscribeLive
  <2>1. /\ sub.open = "yes" /\ sub' = [sub EXCEPT !.subscribed = TRUE]
        /\ UNCHANGED <<published, model, log, wire, received, faults>>
    BY <1>7 DEF SubscribeLive, server
  <2>2. sub \in Streams
    BY <1>1 DEF ServerTypes
  <2>3. /\ sub' \in Streams /\ sub'.open = "yes" /\ sub'.from = sub.from
        /\ sub'.replay = sub.replay /\ sub'.live = sub.live /\ sub'.seen = sub.seen
    BY <2>1, <2>2 DEF Streams
  <2>4. ServerTypes'
    BY <1>1, <2>1, <2>3 DEF ServerTypes
  <2>5. WireCommitted'
    BY <1>1, <2>1, <2>3 DEF WireCommitted
  <2>6. Closed' /\ SentOnce'
    BY <1>1, <2>1, <2>3 DEF Closed, SentOnce
  <2> QED
    BY <2>4, <2>5, <2>6 DEF Wire
<1> QED
  BY <1>2, <1>3, <1>4, <1>5, <1>6, <1>7

\* What a forwarding does to the stream and the wire.
LEMMA Forwarded ==
  ASSUME IInv, NEW side \in {"replay", "live"}, Forward(side)
  PROVE  /\ UNCHANGED <<published, model, log, received, faults>>
         /\ sub' \in Streams
         /\ sub.open = "yes" /\ sub'.open = "yes" /\ sub'.from = sub.from
         /\ UpTo(sub'.replay, log) /\ UpTo(sub'.live, log)
         /\ \/ wire' = wire /\ sub'.seen = sub.seen
            \/ \E n \in Nat :
                 /\ n <= log /\ n \notin sub.seen
                 /\ sub'.seen = sub.seen \cup {n} /\ wire' = Append(wire, n)
<1> DEFINE n == Head(sub[side])
<1>1. sub \in Streams /\ log \in Nat /\ UpTo(sub.replay, log) /\ UpTo(sub.live, log)
      /\ Closed
  BY DEF IInv, Wire, ServerTypes, WireCommitted
<1>2. sub[side] \in Seq(Nat) /\ sub[side] # << >> /\ UpTo(sub[side], log)
  BY <1>1 DEF Forward, Streams
<1>3. UNCHANGED <<published, model, log, received, faults>>
  BY DEF Forward, server
<1> DEFINE t == Tail(sub[side])
<1>4. t \in Seq(Nat) /\ UpTo(t, log) /\ n \in Nat /\ n <= log
  BY <1>1, <1>2, TailUpTo
<1>5. sub.open = "yes"
  BY <1>1, <1>2 DEF Closed
<1>6. \/ sub' = [sub EXCEPT ![side] = t] /\ wire' = wire
      \/ /\ n \notin sub.seen
         /\ sub' = [sub EXCEPT ![side] = t, !.seen = sub.seen \cup {n}]
         /\ wire' = Append(wire, n)
  BY <1>1 DEF Forward, Streams
<1> HIDE DEF n, t
<1>7. CASE sub' = [sub EXCEPT ![side] = t] /\ wire' = wire
  <2>1. CASE side = "replay"
    BY <1>1, <1>3, <1>4, <1>5, <1>7, <2>1 DEF Streams
  <2>2. CASE side = "live"
    BY <1>1, <1>3, <1>4, <1>5, <1>7, <2>2 DEF Streams
  <2> QED
    BY <2>1, <2>2
<1>8. CASE /\ n \notin sub.seen
           /\ sub' = [sub EXCEPT ![side] = t, !.seen = sub.seen \cup {n}]
           /\ wire' = Append(wire, n)
  <2>1. sub.seen \cup {n} \in SUBSET Nat
    BY <1>1, <1>4 DEF Streams
  <2> DEFINE e == sub.seen \cup {n}
  <2> HIDE DEF e
  <2>2. sub' = [sub EXCEPT ![side] = t, !.seen = e] /\ e \in SUBSET Nat
    BY <1>8, <2>1 DEF e
  <2>3. CASE side = "replay"
    <3>1. /\ sub' \in Streams /\ sub'.open = sub.open /\ sub'.from = sub.from
          /\ sub'.replay = t /\ sub'.live = sub.live /\ sub'.seen = e
      BY <1>1, <1>4, <2>2, <2>3 DEF Streams
    <3> QED
      BY <1>1, <1>3, <1>4, <1>5, <1>8, <3>1 DEF e
  <2>4. CASE side = "live"
    <3>1. /\ sub' \in Streams /\ sub'.open = sub.open /\ sub'.from = sub.from
          /\ sub'.live = t /\ sub'.replay = sub.replay /\ sub'.seen = e
      BY <1>1, <1>4, <2>2, <2>4 DEF Streams
    <3> QED
      BY <1>1, <1>3, <1>4, <1>5, <1>8, <3>1 DEF e
  <2> QED
    BY <2>3, <2>4
<1> QED
  BY <1>6, <1>7, <1>8

\* The merged stream sends each event once.
LEMMA WireByForward ==
  ASSUME IInv, NEW side \in {"replay", "live"}, Forward(side)
  PROVE  Wire' /\ PendingOnce'
<1>1. /\ ServerTypes /\ WireCommitted /\ Closed /\ SentOnce /\ PendingOnce
      /\ wire \in Seq(Nat) /\ sub \in Streams /\ log \in Nat
  BY DEF IInv, Wire, ServerTypes
<1>2. /\ UNCHANGED <<published, model, log, received, faults>>
      /\ sub' \in Streams
      /\ sub.open = "yes" /\ sub'.open = "yes" /\ sub'.from = sub.from
      /\ UpTo(sub'.replay, log) /\ UpTo(sub'.live, log)
  BY Forwarded
<1>3. UNCHANGED pending
  BY DEF Forward, client
<1>4. CASE wire' = wire /\ sub'.seen = sub.seen
  <2>1. ServerTypes' /\ WireCommitted'
    BY <1>1, <1>2, <1>4 DEF ServerTypes, WireCommitted
  <2>2. Closed' /\ SentOnce'
    BY <1>1, <1>2, <1>4 DEF Closed, SentOnce
  <2>3. PendingOnce'
    BY <1>1, <1>2, <1>3, <1>4 DEF PendingOnce
  <2> QED
    BY <2>1, <2>2, <2>3 DEF Wire
<1>5. CASE \E n \in Nat :
             /\ n <= log /\ n \notin sub.seen
             /\ sub'.seen = sub.seen \cup {n} /\ wire' = Append(wire, n)
  <2>1. PICK n \in Nat :
             /\ n <= log /\ n \notin sub.seen
             /\ sub'.seen = sub.seen \cup {n} /\ wire' = Append(wire, n)
    BY <1>5
  <2>2. /\ wire' \in Seq(Nat) /\ Len(wire') = Len(wire) + 1
        /\ \A i \in 1 .. Len(wire) : wire'[i] = wire[i]
        /\ wire'[Len(wire) + 1] = n
    BY <1>1, <2>1, AppendProperties
  <2>3. UpTo(wire', log)
    BY <1>1, <2>1, AppendUpTo DEF WireCommitted
  <2>4. ServerTypes'
    BY <1>1, <1>2, <2>2 DEF ServerTypes
  <2>5. WireCommitted'
    BY <1>1, <1>2, <2>3 DEF WireCommitted
  <2>6. Closed'
    BY <1>2 DEF Closed
  <2>7. Len(wire) \in Nat
    BY <1>1
  <2>8. \A i \in 1 .. Len(wire') : i \in 1 .. Len(wire) \/ i = Len(wire) + 1
    BY <2>2, <2>7
  <2>9. SentOnce'
    BY <1>1, <2>1, <2>2, <2>7, <2>8 DEF SentOnce
  <2>10. PendingOnce'
    <3>1. ASSUME NEW i \in 1 .. Len(pending)
          PROVE  /\ pending[i] \in sub'.seen
                 /\ \A j \in 1 .. Len(wire') : wire'[j] # pending[i]
      <4>1. /\ pending[i] \in sub.seen
            /\ \A j \in 1 .. Len(wire) : wire[j] # pending[i]
        BY <1>1, <1>2, <3>1 DEF PendingOnce
      <4> QED
        BY <2>1, <2>2, <2>8, <4>1
    <3>2. pending # << >> => received
      BY <1>1 DEF PendingOnce
    <3> QED
      BY <1>2, <1>3, <3>1, <3>2 DEF PendingOnce
  <2> QED
    BY <2>4, <2>5, <2>6, <2>9, <2>10 DEF Wire
<1>6. \/ wire' = wire /\ sub'.seen = sub.seen
      \/ \E n \in Nat :
           /\ n <= log /\ n \notin sub.seen
           /\ sub'.seen = sub.seen \cup {n} /\ wire' = Append(wire, n)
  BY Forwarded
<1> QED
  BY <1>4, <1>5, <1>6

\* The engine's steps and the opening of a stream neither forget what was sent
\* nor send.
LEMMA PendingByEngine ==
  ASSUME IInv,
         \/ Commit \/ ApplyCommitted \/ Publish
         \/ OpenStream \/ ReadReplay \/ SubscribeLive
  PROVE  PendingOnce'
<1>1. PendingOnce /\ sub \in Streams
  BY DEF IInv, Wire, ServerTypes
<1>2. CASE OpenStream
  <2>1. sub.open = "opening" /\ sub'.open = "yes" /\ UNCHANGED <<pending, received>>
    BY <1>1, <1>2 DEF OpenStream, Streams, client
  <2>2. pending = << >>
    BY <1>1, <2>1 DEF PendingOnce
  <2> QED
    BY <2>1, <2>2 DEF PendingOnce
<1>3. CASE ~OpenStream
  <2>1. sub'.open = sub.open /\ sub'.seen = sub.seen
    <3>1. \/ sub' = sub
          \/ \E l : sub' = [sub EXCEPT !.live = l]
          \/ \E r : sub' = [sub EXCEPT !.read = TRUE, !.replay = r]
          \/ sub' = [sub EXCEPT !.subscribed = TRUE]
      BY <1>3 DEF Commit, ApplyCommitted, Publish, ReadReplay, SubscribeLive
    <3> QED
      BY <1>1, <3>1 DEF Streams
  <2>2. UNCHANGED <<wire, pending, received>>
    BY <1>3 DEF Commit, ApplyCommitted, Publish, ReadReplay, SubscribeLive, client
  <2> QED
    BY <1>1, <2>1, <2>2 DEF PendingOnce
<1> QED
  BY <1>2, <1>3

\* A step that leaves the client alone and forgets nothing that was committed
\* keeps its part.
LEMMA ClientUnmoved ==
  ASSUME IInv, log' \in Nat, log <= log', UNCHANGED client
  PROVE  Client'
<1>1. Client /\ log \in Nat /\ pending \in Seq(Nat) /\ request \in Requests
      /\ coord \in Coordinator
  BY DEF IInv, Wire, ServerTypes, Client, ClientTypes
<1>2. UNCHANGED <<coord, pending, store, request, tracker, retryArmed>>
  BY DEF client
<1>3. request.upTo \in Nat /\ coord.latest \in Nat
  BY <1>1 DEF Requests, Coordinator
<1>4. ClientTypes'
  BY <1>1, <1>2 DEF Client, ClientTypes, TrackerOK
<1>5. UpTo(pending, log)' /\ Follows(pending, coord.latest)'
  BY <1>1, <1>2, StillUpTo DEF Client
<1>6. RequestCurrent'
  BY <1>1, <1>2, <1>3 DEF Client, RequestCurrent
<1>7. StoreIsPrefix'
  BY <1>1, <1>2, <1>3 DEF Client, StoreIsPrefix
<1> QED
  BY <1>4, <1>5, <1>6, <1>7 DEF Client

\* An answer says where it reaches.
LEMMA ClientByAnswer ==
  ASSUME IInv, AnswerRequest
  PROVE  Client'
<1>1. Client /\ log \in Nat /\ pending \in Seq(Nat) /\ request \in Requests
      /\ coord \in Coordinator
  BY DEF IInv, Wire, ServerTypes, Client, ClientTypes
<1>2. UNCHANGED <<log, coord, pending, store, tracker, retryArmed>>
  BY DEF AnswerRequest, server
<1> DEFINE u == IF request.kind = "snapshot" THEN log
                ELSE Lesser(log, request.from + ReplayBatch)
<1>3. request' = [request EXCEPT !.answered = TRUE, !.upTo = u]
  BY DEF AnswerRequest
<1>4. /\ request.from \in Nat /\ coord.latest \in Nat /\ coord.latest <= log
      /\ request.kind = "replay" => request.from <= coord.latest
  BY <1>1 DEF Client, StoreIsPrefix, RequestCurrent, Requests, Coordinator
<1>5. /\ u \in Nat /\ u <= log
      /\ request.kind = "snapshot" => u = log
      /\ request.kind = "replay" => request.from <= u
  BY <1>1, <1>4, ClientSyncAssumption DEF Lesser
<1> HIDE DEF u
<1>6. /\ request' \in Requests /\ request'.kind = request.kind
      /\ request'.from = request.from /\ request'.upTo = u
  BY <1>1, <1>3, <1>5 DEF Requests
<1>7. ClientTypes'
  BY <1>1, <1>2, <1>6 DEF Client, ClientTypes, TrackerOK
<1>8. UpTo(pending, log)' /\ Follows(pending, coord.latest)' /\ StoreIsPrefix'
  BY <1>1, <1>2 DEF Client, StoreIsPrefix
<1>9. RequestCurrent'
  <2>1. request.kind = "replay" => coord.bootstrapped
    BY <1>1 DEF Client, RequestCurrent
  <2> QED
    BY <1>1, <1>2, <1>4, <1>5, <1>6, <2>1 DEF Client, RequestCurrent
<1> QED
  BY <1>7, <1>8, <1>9 DEF Client

-----------------------------------------------------------------------------
(* Receiving and recovering                                                *)

\* The facts of the invariant about the client.
LEMMA ClientFacts ==
  ASSUME IInv
  PROVE  /\ coord \in Coordinator /\ coord.latest \in Nat /\ log \in Nat
         /\ pending \in Seq(Nat) /\ request \in Requests
         /\ request.kind = coord.inFlight
         /\ coord.latest <= log /\ store = Sequences(0, coord.latest)
         /\ UpTo(pending, log) /\ Follows(pending, coord.latest)
         /\ RequestCurrent /\ TrackerOK /\ retryArmed \in BOOLEAN
BY DEF IInv, Wire, ServerTypes, Client, ClientTypes, StoreIsPrefix, Coordinator

\* A step that applies events, asks or is answered keeps the client's part, if
\* what it leaves is a prefix of the log.
LEMMA ClientMoved ==
  ASSUME IInv, UNCHANGED log,
         coord' \in Coordinator, coord.latest <= coord'.latest,
         coord'.latest <= log, store' = Sequences(0, coord'.latest),
         pending' = pending \/ pending' = << >>,
         request' \in Requests, request'.kind = coord'.inFlight,
         RequestCurrent', TrackerOK', retryArmed' \in BOOLEAN
  PROVE  Client'
<1>1. /\ pending \in Seq(Nat) /\ UpTo(pending, log) /\ Follows(pending, coord.latest)
      /\ coord.latest \in Nat /\ coord'.latest \in Nat
  BY ClientFacts DEF Coordinator
<1>2. pending' \in Seq(Nat) /\ UpTo(pending', log) /\ Follows(pending', coord'.latest)
  <2>1. CASE pending' = pending
    BY <1>1, <2>1 DEF Follows
  <2>2. CASE pending' = << >>
    BY <2>2 DEF Follows, UpTo
  <2> QED
    BY <2>1, <2>2
<1>3. ClientTypes'
  BY <1>2 DEF ClientTypes
<1>4. UpTo(pending, log)' /\ Follows(pending, coord.latest)' /\ StoreIsPrefix'
  BY <1>2 DEF StoreIsPrefix
<1> QED
  BY <1>3, <1>4 DEF Client

\* A request just made has nothing to be held to but where it starts.
LEMMA NewRequest ==
  ASSUME NEW c \in Coordinator
  PROVE  /\ [NoRequest EXCEPT !.kind = "snapshot"] \in Requests
         /\ [NoRequest EXCEPT !.kind = "snapshot"].kind = "snapshot"
         /\ [NoRequest EXCEPT !.kind = "snapshot"].answered = FALSE
         /\ [NoRequest EXCEPT !.kind = "replay", !.from = c.latest] \in Requests
         /\ [NoRequest EXCEPT !.kind = "replay", !.from = c.latest].kind = "replay"
         /\ [NoRequest EXCEPT !.kind = "replay", !.from = c.latest].from = c.latest
         /\ [NoRequest EXCEPT !.kind = "replay", !.from = c.latest].answered = FALSE
         /\ NoRequest \in Requests /\ NoRequest.kind = "none"
BY DEF NoRequest, Requests, Phases, Coordinator

\* Flushing what is pending moves latestSequence on within the log, and within
\* the snapshot that has been answered.
LEMMA Flushing ==
  ASSUME IInv, NEW c \in Coordinator, c.latest = coord.latest
  PROVE  /\ Applied(c, pending) \in Coordinator
         /\ Applied(c, pending).inFlight = c.inFlight
         /\ Applied(c, pending).bootstrapped = c.bootstrapped
         /\ coord.latest <= Applied(c, pending).latest
         /\ Applied(c, pending).latest <= log
         /\ FlushedStore = Sequences(0, Applied(c, pending).latest)
         /\ request.kind = "snapshot" /\ request.answered =>
              Applied(c, pending).latest <= request.upTo
<1> DEFINE l == coord.latest
<1>1. /\ l \in Nat /\ pending \in Seq(Nat) /\ Follows(pending, l) /\ log \in Nat
      /\ l <= log /\ UpTo(pending, log) /\ store = Sequences(0, l)
      /\ coord \in Coordinator /\ RequestCurrent
  BY ClientFacts
<1>2. /\ Applied(c, pending) \in Coordinator
      /\ Applied(c, pending).inFlight = c.inFlight
      /\ Applied(c, pending).bootstrapped = c.bootstrapped
      /\ Applied(c, pending).latest = Reached(pending, l)
  BY <1>1, AppliedPending
<1>3. FlushedStore = Sequences(0, Reached(pending, l))
  BY <1>1, AppliedPending DEF FlushedStore
<1> HIDE DEF l
<1>4. /\ l <= Reached(pending, l) /\ Reached(pending, l) <= log
      /\ \A n \in Nat : l <= n /\ UpTo(pending, n) => Reached(pending, l) <= n
  <2>1. CASE pending # << >> /\ pending[Len(pending)] = l + 1
    <3>1. Reached(pending, l) = l + 1 /\ Len(pending) \in 1 .. Len(pending)
      BY <1>1, <2>1 DEF Reached
    <3> QED
      BY <1>1, <2>1, <3>1 DEF UpTo
  <2>2. CASE ~(pending # << >> /\ pending[Len(pending)] = l + 1)
    <3>1. Reached(pending, l) = l
      BY <2>2 DEF Reached
    <3> QED
      BY <1>1, <3>1
  <2> QED
    BY <2>1, <2>2
<1>5. ASSUME request.kind = "snapshot", request.answered
      PROVE  Applied(c, pending).latest <= request.upTo
  <2>1. l <= request.upTo /\ UpTo(pending, request.upTo) /\ request.upTo \in Nat
    BY <1>1, <1>5, ClientFacts DEF RequestCurrent, Requests, l
  <2> QED
    BY <1>2, <1>4, <2>1
<1> QED
  BY <1>2, <1>3, <1>4, <1>5 DEF l

\* Asking for a replay from a state c the coordinator has reached without moving
\* the request in flight.
LEMMA AskingReplay ==
  ASSUME IInv, UNCHANGED log, NEW c \in Coordinator, RequestReplay(c),
         c.inFlight = coord.inFlight, c.bootstrapped = coord.bootstrapped,
         coord.latest <= c.latest,
         request.kind = "snapshot" /\ request.answered => c.latest <= request.upTo,
         pending' = pending \/ pending' = << >>
  PROVE  /\ coord' \in Coordinator /\ coord'.latest = c.latest
         /\ request' \in Requests /\ request'.kind = coord'.inFlight
         /\ RequestCurrent'
<1>1. /\ request \in Requests /\ request.kind = coord.inFlight /\ RequestCurrent
      /\ coord.latest \in Nat /\ log \in Nat /\ pending \in Seq(Nat)
  BY ClientFacts
<1>2. c.latest \in Nat /\ request.from \in Nat /\ request.upTo \in Nat
  BY <1>1 DEF Coordinator, Requests
<1>3. /\ coord' \in Coordinator /\ coord'.latest = c.latest
      /\ coord'.bootstrapped = c.bootstrapped
      /\ coord'.inFlight =
           IF c.bootstrapped /\ c.inFlight = "none" THEN "replay" ELSE c.inFlight
  BY CoordinatorSteps DEF RequestReplay
<1>4. CASE c.bootstrapped /\ c.inFlight = "none"
  <2>1. request' = [NoRequest EXCEPT !.kind = "replay", !.from = c.latest]
    BY <1>4 DEF RequestReplay, MayBeginReplay
  <2>2. /\ request' \in Requests /\ request'.kind = "replay"
        /\ request'.from = c.latest /\ request'.answered = FALSE
    BY <2>1, NewRequest
  <2>3. RequestCurrent'
    BY <1>2, <1>3, <1>4, <2>2 DEF RequestCurrent
  <2> QED
    BY <1>3, <1>4, <2>2, <2>3
<1>5. CASE ~(c.bootstrapped /\ c.inFlight = "none")
  <2>1. request' = request
    BY <1>5 DEF RequestReplay, MayBeginReplay
  <2>2. \A n : UpTo(pending, n) => UpTo(pending', n)
    BY DEF UpTo
  <2>3. RequestCurrent'
    BY <1>1, <1>2, <1>3, <2>1, <2>2 DEF RequestCurrent
  <2> QED
    BY <1>1, <1>3, <1>5, <2>1, <2>3
<1> QED
  BY <1>4, <1>5

-----------------------------------------------------------------------------
(* The client's steps                                                      *)

\* What a client's step promises: the invariant, and that it never goes back.
Kept == IInv' /\ coord.latest <= coord'.latest

\* A step that neither sends nor adds to what is pending keeps the wire's part.
LEMMA Unsent ==
  ASSUME IInv, UNCHANGED <<server, sub, wire, received, faults>>,
         pending' = pending \/ pending' = << >>
  PROVE  Wire' /\ PendingOnce'
<1>1. UNCHANGED <<log, model, published>>
  BY DEF server
<1>2. Wire'
  BY <1>1 DEF IInv, Wire, ServerTypes, WireCommitted, Closed, SentOnce
<1>3. PendingOnce'
  BY DEF IInv, PendingOnce
<1> QED
  BY <1>2, <1>3

\* flushPendingDomainEvents
LEMMA KeptByFlush ==
  ASSUME IInv, Flush
  PROVE  Kept
<1>1. /\ UNCHANGED <<server, sub, wire, received, request, tracker, retryArmed, faults>>
      /\ coord' = Applied(coord, pending) /\ store' = FlushedStore
      /\ pending' = << >>
  BY DEF Flush, FlushedCoord
<1>2. UNCHANGED log
  BY <1>1 DEF server
<1>3. /\ coord \in Coordinator /\ request \in Requests
      /\ request.kind = coord.inFlight /\ RequestCurrent /\ TrackerOK
      /\ retryArmed \in BOOLEAN /\ coord.latest \in Nat /\ log \in Nat
  BY ClientFacts
<1>4. /\ coord' \in Coordinator /\ coord'.inFlight = coord.inFlight
      /\ coord'.bootstrapped = coord.bootstrapped
      /\ coord.latest <= coord'.latest /\ coord'.latest <= log
      /\ store' = Sequences(0, coord'.latest)
      /\ request.kind = "snapshot" /\ request.answered =>
           coord'.latest <= request.upTo
  BY <1>1, <1>3, Flushing
<1>5. RequestCurrent'
  <2>1. \A n : UpTo(pending', n)
    BY <1>1 DEF UpTo
  <2>2. request.from \in Nat /\ coord'.latest \in Nat
    BY <1>3, <1>4 DEF Requests, Coordinator
  <2> QED
    BY <1>1, <1>2, <1>3, <1>4, <2>1, <2>2 DEF RequestCurrent
<1>6. TrackerOK' /\ retryArmed' \in BOOLEAN
  BY <1>1, <1>3 DEF TrackerOK
<1>7. Client'
  BY <1>1, <1>2, <1>3, <1>4, <1>5, <1>6, ClientMoved
<1>8. Wire' /\ PendingOnce'
  BY <1>1, Unsent
<1> QED
  BY <1>4, <1>7, <1>8 DEF Kept, IInv

\* The bootstrap, the poll timer and the resume handlers.
LEMMA KeptByAskSnapshot ==
  ASSUME IInv, AskSnapshot
  PROVE  Kept
<1>1. /\ UNCHANGED <<server, sub, wire, received, pending, store, tracker, retryArmed, faults>>
      /\ RequestSnapshot(coord)
  BY DEF AskSnapshot
<1>2. UNCHANGED log
  BY <1>1 DEF server
<1>3. /\ coord \in Coordinator /\ request \in Requests
      /\ request.kind = coord.inFlight /\ RequestCurrent /\ TrackerOK
      /\ retryArmed \in BOOLEAN /\ coord.latest \in Nat /\ log \in Nat
      /\ coord.latest <= log /\ store = Sequences(0, coord.latest)
  BY ClientFacts
<1>4. /\ coord' \in Coordinator /\ coord'.latest = coord.latest
      /\ coord'.bootstrapped = coord.bootstrapped
      /\ coord'.inFlight =
           IF coord.inFlight = "none" THEN "snapshot" ELSE coord.inFlight
  BY <1>1, <1>3, CoordinatorSteps DEF RequestSnapshot
<1>5. /\ request' \in Requests /\ request'.kind = coord'.inFlight
      /\ RequestCurrent'
  <2>1. CASE coord.inFlight = "none"
    <3>1. request' = [NoRequest EXCEPT !.kind = "snapshot"]
      BY <1>1, <2>1 DEF RequestSnapshot, MayBeginSnapshot
    <3>2. /\ request' \in Requests /\ request'.kind = "snapshot"
          /\ request'.answered = FALSE
      BY <1>3, <3>1, NewRequest
    <3> QED
      BY <1>4, <2>1, <3>2 DEF RequestCurrent
  <2>2. CASE coord.inFlight # "none"
    <3>1. request' = request
      BY <1>1, <2>2 DEF RequestSnapshot, MayBeginSnapshot
    <3>2. RequestCurrent'
      BY <1>1, <1>2, <1>3, <1>4, <3>1 DEF RequestCurrent
    <3> QED
      BY <1>3, <1>4, <2>2, <3>1, <3>2
  <2> QED
    BY <2>1, <2>2
<1>6. TrackerOK' /\ retryArmed' \in BOOLEAN
  BY <1>1, <1>3 DEF TrackerOK
<1>7. Client'
  BY <1>1, <1>2, <1>3, <1>4, <1>5, <1>6, ClientMoved
<1>8. Wire' /\ PendingOnce'
  BY <1>1, Unsent
<1> QED
  BY <1>3, <1>4, <1>7, <1>8 DEF Kept, IInv

\* A delayed retry.
LEMMA KeptByRetryTimer ==
  ASSUME IInv, RetryTimer
  PROVE  Kept
<1>1. /\ UNCHANGED <<server, sub, wire, received, pending, store, tracker, faults>>
      /\ RequestReplay(coord) /\ retryArmed' \in BOOLEAN
  BY DEF RetryTimer
<1>2. UNCHANGED log
  BY <1>1 DEF server
<1>3. /\ coord \in Coordinator /\ RequestCurrent /\ TrackerOK
      /\ coord.latest \in Nat /\ log \in Nat
      /\ coord.latest <= log /\ store = Sequences(0, coord.latest)
  BY ClientFacts
<1>4. request.kind = "snapshot" /\ request.answered => coord.latest <= request.upTo
  BY <1>3 DEF RequestCurrent
<1>5. /\ coord' \in Coordinator /\ coord'.latest = coord.latest
      /\ request' \in Requests /\ request'.kind = coord'.inFlight
      /\ RequestCurrent'
  BY <1>1, <1>2, <1>3, <1>4, AskingReplay
<1>6. TrackerOK'
  BY <1>1, <1>3 DEF TrackerOK
<1>7. Client'
  BY <1>1, <1>2, <1>3, <1>5, <1>6, ClientMoved
<1>8. Wire' /\ PendingOnce'
  BY <1>1, Unsent
<1> QED
  BY <1>3, <1>5, <1>7, <1>8 DEF Kept, IInv

\* syncServerReadModel: the snapshot reaches past all that was shown.
LEMMA KeptBySnapshotArrives ==
  ASSUME IInv, SnapshotArrives
  PROVE  Kept
<1> DEFINE n == request.upTo
           done == CompleteSnapshot(coord, n)
<1>1. /\ UNCHANGED <<server, sub, wire, received, pending, tracker, retryArmed, faults>>
      /\ request.kind = "snapshot" /\ request.answered
      /\ store' = Sequences(0, n)
      /\ \/ /\ coord' = BeginReplay(done)
            /\ request' = [NoRequest EXCEPT !.kind = "replay", !.from = done.latest]
         \/ coord' = done /\ request' = NoRequest
  BY DEF SnapshotArrives
<1>2. UNCHANGED log
  BY <1>1 DEF server
<1>3. /\ coord \in Coordinator /\ request \in Requests /\ RequestCurrent
      /\ TrackerOK /\ retryArmed \in BOOLEAN /\ coord.latest \in Nat /\ log \in Nat
  BY ClientFacts
<1>4. n \in Nat /\ coord.latest <= n /\ n <= log
  BY <1>1, <1>3 DEF RequestCurrent, Requests
<1> HIDE DEF n
<1>5. /\ done \in Coordinator /\ done.latest = n /\ done.inFlight = "none"
      /\ done.bootstrapped = TRUE
  <2>1. Larger(coord.latest, n) = n
    BY <1>3, <1>4 DEF Larger
  <2> QED
    BY <1>3, <1>4, <2>1, CoordinatorEnds
<1> HIDE DEF done
<1>6. /\ coord' \in Coordinator /\ coord'.latest = n
      /\ request' \in Requests /\ request'.kind = coord'.inFlight
      /\ RequestCurrent'
  <2>1. CASE /\ coord' = BeginReplay(done)
             /\ request' = [NoRequest EXCEPT !.kind = "replay", !.from = done.latest]
    <3>1. /\ coord' \in Coordinator /\ coord'.latest = n
          /\ coord'.bootstrapped /\ coord'.inFlight = "replay"
      BY <1>5, <2>1, CoordinatorSteps
    <3>2. /\ request' \in Requests /\ request'.kind = "replay"
          /\ request'.from = n /\ request'.answered = FALSE
      BY <1>5, <2>1, NewRequest
    <3> QED
      BY <1>4, <3>1, <3>2 DEF RequestCurrent
  <2>2. CASE coord' = done /\ request' = NoRequest
    <3>1. request' \in Requests /\ request'.kind = "none"
      BY <1>3, <2>2, NewRequest
    <3> QED
      BY <1>5, <2>2, <3>1 DEF RequestCurrent
  <2> QED
    BY <1>1, <2>1, <2>2
<1>7. TrackerOK' /\ retryArmed' \in BOOLEAN
  BY <1>1, <1>3 DEF TrackerOK
<1>8. Client'
  BY <1>1, <1>2, <1>4, <1>6, <1>7, ClientMoved
<1>9. Wire' /\ PendingOnce'
  BY <1>1, Unsent
<1> QED
  BY <1>4, <1>6, <1>8, <1>9 DEF Kept, IInv

\* The retry of a replay without progress is counted up to its limit.
LEMMA CountedRetry ==
  ASSUME NEW c, TrackerOK, tracker' = NextTracker(c, tracker)
  PROVE  TrackerOK'
<1> DEFINE a == Attempts(c, tracker)
<1>1. a \in Nat /\ a >= 1
  BY DEF Attempts, TrackerOK
<1>2. CASE RetryDecision(c, tracker) = "later"
  <2>1. ~Exhausted(c, tracker)
    BY <1>2 DEF RetryDecision
  <2>2. tracker'.attempts = a
    BY <1>2 DEF NextTracker
  <2>3. a <= MaxNoProgressRetries
    BY <1>1, <2>1, ClientSyncAssumption DEF Exhausted
  <2> HIDE DEF a
  <2> QED
    BY <1>1, <2>2, <2>3, ClientSyncAssumption DEF TrackerOK
<1>3. CASE RetryDecision(c, tracker) # "later"
  BY <1>3 DEF NextTracker, TrackerOK
<1> QED
  BY <1>2, <1>3

\* runReplayRecovery, from the answer on.
LEMMA KeptByReplayArrives ==
  ASSUME IInv, ReplayArrives
  PROVE  Kept
<1> DEFINE batch == Sequences(request.from, request.upTo)
           applied == Applied(coord, batch)
           done == CompleteReplay(applied)
           decision == RetryDecision(applied, tracker)
<1>1. /\ UNCHANGED <<server, sub, wire, received, pending, faults>>
      /\ request.kind = "replay" /\ request.answered
      /\ store' = store \o Unapplied(coord, batch)
      /\ tracker' = NextTracker(applied, tracker)
      /\ retryArmed' = (retryArmed \/ decision = "later")
      /\ coord' = CASE decision = "now" -> BeginReplay(done)
                    [] decision = "snapshot" -> BeginSnapshot(done)
                    [] OTHER -> done
      /\ request' = CASE decision = "now" ->
                           [NoRequest EXCEPT !.kind = "replay", !.from = done.latest]
                      [] decision = "snapshot" ->
                           [NoRequest EXCEPT !.kind = "snapshot"]
                      [] OTHER -> NoRequest
  BY DEF ReplayArrives
<1>2. UNCHANGED log
  BY <1>1 DEF server
<1>3. /\ coord \in Coordinator /\ request \in Requests /\ RequestCurrent
      /\ TrackerOK /\ retryArmed \in BOOLEAN /\ coord.latest \in Nat /\ log \in Nat
      /\ coord.latest <= log /\ store = Sequences(0, coord.latest)
  BY ClientFacts
<1>4. /\ request.from \in Nat /\ request.upTo \in Nat
      /\ request.from <= coord.latest /\ request.from <= request.upTo
      /\ request.upTo <= log /\ coord.bootstrapped
  BY <1>1, <1>3 DEF RequestCurrent, Requests
<1> DEFINE l == Larger(coord.latest, request.upTo)
<1>5. l \in Nat /\ coord.latest <= l /\ l <= log
  BY <1>3, <1>4 DEF Larger
<1>6. /\ applied \in Coordinator /\ applied.bootstrapped = coord.bootstrapped
      /\ applied.latest = l
      /\ Sequences(0, coord.latest) \o Unapplied(coord, batch) = Sequences(0, l)
  <2> DEFINE m == request.from
             n == request.upTo
  <2>1. coord \in Coordinator /\ m \in Nat /\ n \in Nat /\ m <= n /\ m <= coord.latest
    BY <1>3, <1>4
  <2> HIDE DEF m, n
  <2>2. /\ Applied(coord, Sequences(m, n)) \in Coordinator
        /\ Applied(coord, Sequences(m, n)).bootstrapped = coord.bootstrapped
        /\ Applied(coord, Sequences(m, n)).latest = Larger(coord.latest, n)
        /\ Sequences(0, coord.latest) \o Unapplied(coord, Sequences(m, n)) =
             Sequences(0, Larger(coord.latest, n))
    BY <2>1, AppliedStretch
  <2> QED
    BY <2>2 DEF m, n
<1>7. store' = Sequences(0, l)
  BY <1>1, <1>3, <1>6
<1> HIDE DEF l, batch, applied
<1>8. /\ done \in Coordinator /\ done.latest = l /\ done.inFlight = "none"
      /\ done.bootstrapped = coord.bootstrapped
  BY <1>6, CoordinatorEnds
<1> HIDE DEF done, decision
<1>9. /\ coord' \in Coordinator /\ coord'.latest = l
      /\ request' \in Requests /\ request'.kind = coord'.inFlight
      /\ RequestCurrent'
  <2>1. CASE decision = "now"
    <3>1. /\ coord' = BeginReplay(done)
          /\ request' = [NoRequest EXCEPT !.kind = "replay", !.from = done.latest]
      BY <1>1, <2>1
    <3>2. /\ coord' \in Coordinator /\ coord'.latest = l
          /\ coord'.bootstrapped = coord.bootstrapped /\ coord'.inFlight = "replay"
      BY <1>4, <1>8, <3>1, CoordinatorSteps
    <3>3. /\ request' \in Requests /\ request'.kind = "replay"
          /\ request'.from = l /\ request'.answered = FALSE
      BY <1>8, <3>1, NewRequest
    <3> QED
      BY <1>4, <1>5, <3>2, <3>3 DEF RequestCurrent
  <2>2. CASE decision = "snapshot"
    <3>1. /\ coord' = BeginSnapshot(done)
          /\ request' = [NoRequest EXCEPT !.kind = "snapshot"]
      BY <1>1, <2>2
    <3>2. /\ coord' \in Coordinator /\ coord'.latest = l
          /\ coord'.inFlight = "snapshot"
      BY <1>8, <3>1, CoordinatorSteps
    <3>3. /\ request' \in Requests /\ request'.kind = "snapshot"
          /\ request'.answered = FALSE
      BY <1>8, <3>1, NewRequest
    <3> QED
      BY <3>2, <3>3 DEF RequestCurrent
  <2>3. CASE decision # "now" /\ decision # "snapshot"
    <3>1. coord' = done /\ request' = NoRequest
      BY <1>1, <2>3
    <3>2. request' \in Requests /\ request'.kind = "none"
      BY <1>8, <3>1, NewRequest
    <3> QED
      BY <1>8, <3>1, <3>2 DEF RequestCurrent
  <2> QED
    BY <2>1, <2>2, <2>3
<1>10. TrackerOK'
  BY <1>1, <1>3, CountedRetry
<1>11. retryArmed' \in BOOLEAN
  BY <1>1
<1>12. Client'
  <2>1. coord.latest <= coord'.latest /\ coord'.latest <= log
        /\ store' = Sequences(0, coord'.latest)
    BY <1>5, <1>7, <1>9
  <2> QED
    BY <1>1, <1>2, <1>9, <1>10, <1>11, <2>1, ClientMoved
<1>13. Wire' /\ PendingOnce'
  BY <1>1, Unsent
<1> QED
  BY <1>5, <1>9, <1>12, <1>13 DEF Kept, IInv

\* A stream that is closed, or about to be opened, has nothing under way.
LEMMA NothingUnderWay ==
  ASSUME IInv, UNCHANGED <<server, received>>, faults' \in 0 .. MaxFaults,
         wire' = << >>,
         sub' = NoSub \/ sub' = [NoSub EXCEPT !.open = "opening"]
  PROVE  Wire'
<1>1. /\ sub' \in Streams /\ sub'.open # "yes" /\ sub'.from = 0
      /\ sub'.replay = << >> /\ sub'.live = << >> /\ ~sub'.subscribed
  <2>1. CASE sub' = NoSub
    BY <2>1 DEF NoSub, Streams
  <2>2. CASE sub' = [NoSub EXCEPT !.open = "opening"]
    <3>1. NoSub \in Streams
      BY DEF NoSub, Streams
    <3>2. /\ sub' \in Streams /\ sub'.open = "opening" /\ sub'.from = NoSub.from
          /\ sub'.replay = NoSub.replay /\ sub'.live = NoSub.live
          /\ sub'.subscribed = NoSub.subscribed
      BY <2>2, <3>1 DEF Streams
    <3>3. /\ NoSub.from = 0 /\ NoSub.replay = << >> /\ NoSub.live = << >>
          /\ ~NoSub.subscribed
      BY DEF NoSub
    <3> QED
      BY <3>2, <3>3
  <2> QED
    BY <2>1, <2>2
<1>2. ServerTypes /\ log \in Nat
  BY DEF IInv, Wire, ServerTypes
<1>3. wire' \in Seq(Nat)
  OBVIOUS
<1>4. UNCHANGED <<log, model, published, received>>
  BY DEF server
<1>5. ServerTypes'
  BY <1>1, <1>2, <1>3, <1>4 DEF ServerTypes
<1>6. WireCommitted'
  BY <1>1, <1>2, <1>4 DEF WireCommitted, UpTo
<1>7. Closed'
  BY <1>1 DEF Closed
<1>8. SentOnce'
  BY DEF SentOnce
<1> QED
  BY <1>5, <1>6, <1>7, <1>8 DEF Wire

\* onResubscribe flushes what the last connection brought, then replays.
LEMMA KeptByConnect ==
  ASSUME IInv, Connect
  PROVE  Kept
<1>1. /\ UNCHANGED <<server, wire, received, tracker, retryArmed, faults>>
      /\ sub.open = "no" /\ sub' = [NoSub EXCEPT !.open = "opening"]
  BY DEF Connect
<1>2. UNCHANGED log
  BY <1>1 DEF server
<1>3. /\ coord \in Coordinator /\ request \in Requests /\ RequestCurrent
      /\ request.kind = coord.inFlight /\ TrackerOK /\ retryArmed \in BOOLEAN
      /\ coord.latest \in Nat /\ log \in Nat /\ coord.latest <= log
      /\ store = Sequences(0, coord.latest)
  BY ClientFacts
<1>4. wire = << >> /\ faults \in 0 .. MaxFaults
  BY <1>1 DEF IInv, Wire, Closed, ServerTypes
<1>5. Wire'
  BY <1>1, <1>4, NothingUnderWay
<1>6. TrackerOK' /\ retryArmed' \in BOOLEAN
  BY <1>1, <1>3 DEF TrackerOK
<1>7. sub'.open = "opening"
  BY <1>1 DEF NoSub
<1>8. CASE received
  <2> DEFINE c == FlushedCoord
  <2>1. /\ store' = FlushedStore /\ pending' = << >> /\ RequestReplay(c)
    BY <1>8 DEF Connect
  <2>2. /\ c \in Coordinator /\ c.inFlight = coord.inFlight
        /\ c.bootstrapped = coord.bootstrapped
        /\ coord.latest <= c.latest /\ c.latest <= log
        /\ store' = Sequences(0, c.latest)
        /\ request.kind = "snapshot" /\ request.answered => c.latest <= request.upTo
    BY <1>3, <2>1, Flushing DEF FlushedCoord
  <2> HIDE DEF c
  <2>3. /\ coord' \in Coordinator /\ coord'.latest = c.latest
        /\ request' \in Requests /\ request'.kind = coord'.inFlight
        /\ RequestCurrent'
    BY <1>2, <2>1, <2>2, AskingReplay
  <2>4. Client'
    BY <1>2, <1>6, <2>1, <2>2, <2>3, ClientMoved
  <2>5. PendingOnce'
    BY <1>7, <2>1 DEF PendingOnce
  <2> QED
    BY <1>5, <2>2, <2>3, <2>4, <2>5 DEF Kept, IInv
<1>9. CASE ~received
  <2>1. UNCHANGED client
    BY <1>1, <1>9 DEF Connect, client
  <2>2. Client' /\ UNCHANGED <<coord, pending>>
    BY <1>2, <1>3, <2>1, ClientUnmoved DEF client
  <2>3. pending = << >>
    BY <1>9 DEF IInv, PendingOnce
  <2>4. PendingOnce'
    BY <1>7, <2>2, <2>3 DEF PendingOnce
  <2> QED
    BY <1>3, <1>5, <2>2, <2>4 DEF Kept, IInv
<1> QED
  BY <1>8, <1>9

\* A lost connection takes what was on its way.
LEMMA KeptByDisconnect ==
  ASSUME IInv, Disconnect
  PROVE  Kept
<1>1. /\ UNCHANGED <<server, received, client>> /\ faults' = faults + 1
      /\ faults < MaxFaults /\ sub' = NoSub /\ wire' = << >>
  BY DEF Disconnect, Disconnected
<1>2. UNCHANGED <<log, coord, pending>> /\ log \in Nat /\ coord.latest \in Nat
  BY <1>1, ClientFacts DEF server, client
<1>3. faults' \in 0 .. MaxFaults
  BY <1>1, ClientSyncAssumption DEF IInv, Wire, ServerTypes
<1>4. Wire'
  BY <1>1, <1>3, NothingUnderWay
<1>5. Client'
  BY <1>1, <1>2, ClientUnmoved
<1>6. PendingOnce'
  BY <1>1, <1>2 DEF IInv, PendingOnce, NoSub
<1> QED
  BY <1>2, <1>4, <1>5, <1>6 DEF Kept, IInv

\* So does a failed request, which leaves the coordinator free to ask again.
LEMMA KeptByFailure ==
  ASSUME IInv, SnapshotFails \/ ReplayFails
  PROVE  Kept
<1>1. /\ UNCHANGED <<server, received, pending, store, retryArmed>>
      /\ faults' = faults + 1 /\ faults < MaxFaults
      /\ sub' = NoSub /\ wire' = << >>
  BY DEF SnapshotFails, ReplayFails, Disconnected
<1>2. UNCHANGED log
  BY <1>1 DEF server
<1>3. /\ coord \in Coordinator /\ TrackerOK /\ retryArmed \in BOOLEAN
      /\ coord.latest \in Nat /\ log \in Nat /\ coord.latest <= log
      /\ store = Sequences(0, coord.latest)
  BY ClientFacts
<1>4. /\ coord' \in Coordinator /\ coord'.latest = coord.latest
      /\ request' \in Requests /\ request'.kind = coord'.inFlight
      /\ RequestCurrent' /\ TrackerOK'
  <2>1. CASE SnapshotFails
    <3>1. coord' = FailSnapshot(coord) /\ request' = NoRequest /\ tracker' = tracker
      BY <2>1 DEF SnapshotFails
    <3>2. /\ coord' \in Coordinator /\ coord'.latest = coord.latest
          /\ coord'.inFlight = "none"
      BY <1>3, <3>1, CoordinatorEnds
    <3>3. request' \in Requests /\ request'.kind = "none"
      BY <1>3, <3>1, NewRequest
    <3> QED
      BY <1>3, <3>1, <3>2, <3>3 DEF RequestCurrent, TrackerOK
  <2>2. CASE ReplayFails
    <3> DEFINE c == FailReplay(coord)
    <3>1. /\ coord' = BeginSnapshot(c) /\ tracker' = NoTracker
          /\ request' = [NoRequest EXCEPT !.kind = "snapshot"]
      BY <2>2 DEF ReplayFails
    <3>2. c \in Coordinator /\ c.latest = coord.latest /\ c.inFlight = "none"
      BY <1>3, CoordinatorEnds
    <3> HIDE DEF c
    <3>3. /\ coord' \in Coordinator /\ coord'.latest = c.latest
          /\ coord'.inFlight = "snapshot"
      BY <3>1, <3>2, CoordinatorSteps
    <3>4. /\ request' \in Requests /\ request'.kind = "snapshot"
          /\ request'.answered = FALSE
      BY <1>3, <3>1, NewRequest
    <3> QED
      BY <3>1, <3>2, <3>3, <3>4 DEF RequestCurrent, TrackerOK
  <2> QED
    BY <2>1, <2>2
<1>5. faults' \in 0 .. MaxFaults
  BY <1>1, ClientSyncAssumption DEF IInv, Wire, ServerTypes
<1>6. Wire'
  BY <1>1, <1>5, NothingUnderWay
<1>7. Client'
  <2>1. coord.latest <= coord'.latest /\ coord'.latest <= log
        /\ store' = Sequences(0, coord'.latest) /\ retryArmed' \in BOOLEAN
    BY <1>1, <1>3, <1>4
  <2> QED
    BY <1>1, <1>2, <1>4, <2>1, ClientMoved
<1>8. PendingOnce'
  BY <1>1 DEF IInv, PendingOnce, NoSub
<1> QED
  BY <1>3, <1>4, <1>6, <1>7, <1>8 DEF Kept, IInv

\* The next event of the connection is taken from the wire.
LEMMA Taken ==
  ASSUME IInv, wire # << >>, wire' = Tail(wire), received' = TRUE,
         UNCHANGED <<server, sub, faults>>
  PROVE  /\ Wire'
         /\ Head(wire) \in Nat /\ Head(wire) <= log
         /\ sub.open = "yes" /\ Head(wire) \in sub.seen
         /\ \A i \in 1 .. Len(wire') : wire'[i] # Head(wire)
         /\ \A i \in 1 .. Len(pending) : pending[i] # Head(wire)
         /\ \A i \in 1 .. Len(pending) :
              /\ pending[i] \in sub.seen
              /\ \A j \in 1 .. Len(wire') : wire'[j] # pending[i]
<1>1. /\ ServerTypes /\ WireCommitted /\ Closed /\ SentOnce /\ PendingOnce
      /\ wire \in Seq(Nat) /\ log \in Nat
  BY DEF IInv, Wire, ServerTypes
<1>2. /\ wire' \in Seq(Nat) /\ UpTo(wire', log)
      /\ Head(wire) \in Nat /\ Head(wire) <= log
  BY <1>1, TailUpTo DEF WireCommitted
<1>3. /\ Head(wire) = wire[1] /\ Len(wire) \in Nat /\ Len(wire) >= 1
      /\ Len(wire') = Len(wire) - 1
      /\ \A i \in 1 .. Len(wire') : wire'[i] = wire[i + 1]
  BY <1>1, HeadTailProperties
<1>4. \A i \in 1 .. Len(wire') :
        i + 1 \in 1 .. Len(wire) /\ i + 1 # 1 /\ 1 \in 1 .. Len(wire)
  BY <1>3
<1>5. 1 \in 1 .. Len(wire)
  BY <1>3
<1>6. UNCHANGED <<log, model, published>>
  BY DEF server
<1>7. \A i \in 1 .. Len(wire') : wire'[i] # Head(wire) /\ wire'[i] \in sub.seen
  BY <1>1, <1>3, <1>4 DEF SentOnce
<1>8. sub.open = "yes"
  BY <1>1 DEF Closed
<1>9. \A i \in 1 .. Len(pending) :
        /\ pending[i] \in sub.seen /\ pending[i] # Head(wire)
        /\ \A j \in 1 .. Len(wire') : wire'[j] # pending[i]
  BY <1>1, <1>3, <1>4, <1>5, <1>8 DEF PendingOnce
<1>10. Head(wire) \in sub.seen
  BY <1>1, <1>3, <1>5 DEF SentOnce
<1>11. ServerTypes'
  BY <1>1, <1>2, <1>6 DEF ServerTypes
<1>12. WireCommitted' /\ Closed'
  BY <1>1, <1>2, <1>6, <1>8 DEF WireCommitted, Closed
<1>13. SentOnce'
  <2>1. ASSUME NEW i \in 1 .. Len(wire'), NEW j \in 1 .. Len(wire'),
               wire'[i] = wire'[j]
        PROVE  i = j
    <3>1. i + 1 = j + 1
      BY <1>1, <1>3, <1>4, <2>1 DEF SentOnce
    <3> QED
      BY <1>3, <3>1
  <2> QED
    BY <1>7, <2>1 DEF SentOnce
<1> QED
  BY <1>2, <1>7, <1>8, <1>9, <1>10, <1>11, <1>12, <1>13 DEF Wire

\* A live event is ignored, deferred, made pending, or makes the client recover.
LEMMA KeptByReceive ==
  ASSUME IInv, Receive
  PROVE  Kept
<1> DEFINE n == Head(wire)
           seen == Observed(coord, n)
<1>1. /\ wire # << >> /\ wire' = Tail(wire) /\ received' = TRUE
      /\ UNCHANGED <<server, sub, tracker, retryArmed, faults>>
      /\ \/ coord' = seen /\ UNCHANGED <<pending, store, request>>
         \/ /\ Classify(coord, n) = "apply" /\ coord' = seen
            /\ pending' = Append(pending, n) /\ UNCHANGED <<store, request>>
         \/ /\ store' = FlushedStore /\ pending' = << >>
            /\ RequestReplay(Applied(seen, pending))
  BY DEF Receive
<1>2. /\ Wire' /\ n \in Nat /\ n <= log /\ sub.open = "yes" /\ n \in sub.seen
      /\ \A i \in 1 .. Len(wire') : wire'[i] # n
      /\ \A i \in 1 .. Len(pending) :
           /\ pending[i] # n /\ pending[i] \in sub.seen
           /\ \A j \in 1 .. Len(wire') : wire'[j] # pending[i]
  BY <1>1, Taken
<1> HIDE DEF n
<1>3. /\ coord \in Coordinator /\ pending \in Seq(Nat) /\ request \in Requests
      /\ request.kind = coord.inFlight /\ RequestCurrent
      /\ TrackerOK /\ retryArmed \in BOOLEAN /\ coord.latest \in Nat /\ log \in Nat
      /\ coord.latest <= log /\ store = Sequences(0, coord.latest)
      /\ UpTo(pending, log) /\ Follows(pending, coord.latest)
  BY ClientFacts
<1>4. /\ seen \in Coordinator /\ seen.latest = coord.latest
      /\ seen.inFlight = coord.inFlight /\ seen.bootstrapped = coord.bootstrapped
  BY <1>2, <1>3, CoordinatorSteps
<1> HIDE DEF seen
<1>5. UNCHANGED log
  BY <1>1 DEF server
<1>6. TrackerOK' /\ retryArmed' \in BOOLEAN
  BY <1>1, <1>3 DEF TrackerOK
<1>7. sub'.open = "yes" /\ sub'.seen = sub.seen
  BY <1>1, <1>2
<1>8. CASE coord' = seen /\ UNCHANGED <<pending, store, request>>
  <2>1. RequestCurrent'
    BY <1>3, <1>4, <1>5, <1>8 DEF RequestCurrent
  <2>2. coord.latest <= coord'.latest /\ coord'.latest <= log
        /\ store' = Sequences(0, coord'.latest)
        /\ coord' \in Coordinator /\ request' \in Requests
        /\ request'.kind = coord'.inFlight
    BY <1>3, <1>4, <1>8
  <2>3. Client'
    BY <1>5, <1>6, <1>8, <2>1, <2>2, ClientMoved
  <2>4. PendingOnce'
    BY <1>1, <1>2, <1>7, <1>8 DEF PendingOnce
  <2> QED
    BY <1>2, <2>2, <2>3, <2>4 DEF Kept, IInv
<1>9. CASE /\ Classify(coord, n) = "apply" /\ coord' = seen
           /\ pending' = Append(pending, n) /\ UNCHANGED <<store, request>>
  <2>1. n = coord.latest + 1 /\ coord.inFlight = "none"
    BY <1>2, <1>3, <1>9 DEF Classify
  <2>2. /\ pending' \in Seq(Nat) /\ UpTo(pending', log)
        /\ Len(pending') = Len(pending) + 1
        /\ \A i \in 1 .. Len(pending) : pending'[i] = pending[i]
        /\ pending'[Len(pending) + 1] = n
    BY <1>2, <1>3, <1>9, AppendProperties, AppendUpTo
  <2>3. Len(pending) \in Nat /\ \A i \in 1 .. Len(pending) : pending[i] \in Nat
    BY <1>3
  <2>4. Follows(pending', coord.latest)
    <3>1. ASSUME NEW i \in 1 .. Len(pending')
          PROVE  pending'[i] <= IF i = Len(pending') THEN coord.latest + 1
                                ELSE coord.latest
      <4>1. CASE i = Len(pending')
        BY <1>2, <2>1, <2>2, <4>1
      <4>2. CASE i # Len(pending')
        <5>1. i \in 1 .. Len(pending)
          BY <2>2, <2>3, <4>2
        <5>2. pending[i] <= coord.latest + 1
          BY <1>3, <2>3, <5>1 DEF Follows
        <5>3. /\ pending[i] \in Nat /\ pending[i] # coord.latest + 1
              /\ pending'[i] = pending[i]
          BY <1>2, <2>1, <2>2, <2>3, <5>1
        <5>4. coord.latest \in Nat
          BY <1>3
        <5> QED
          BY <4>2, <5>2, <5>3, <5>4
      <4> QED
        BY <4>1, <4>2
    <3> QED
      BY <3>1 DEF Follows
  <2>5. ClientTypes'
    BY <1>3, <1>4, <1>6, <1>9, <2>2 DEF ClientTypes
  <2>6. RequestCurrent'
    BY <1>3, <1>9, <2>1 DEF RequestCurrent
  <2>7. /\ UpTo(pending, log)' /\ Follows(pending, coord.latest)'
        /\ StoreIsPrefix' /\ coord'.latest = coord.latest
    BY <1>3, <1>4, <1>5, <1>9, <2>2, <2>4 DEF StoreIsPrefix
  <2>8. Client'
    BY <2>5, <2>6, <2>7 DEF Client
  <2>9. PendingOnce'
    <3>1. ASSUME NEW i \in 1 .. Len(pending')
          PROVE  /\ pending'[i] \in sub'.seen
                 /\ \A j \in 1 .. Len(wire') : wire'[j] # pending'[i]
      <4>1. CASE i \in 1 .. Len(pending)
        BY <1>2, <1>7, <2>2, <4>1
      <4>2. CASE i = Len(pending) + 1
        BY <1>2, <1>7, <2>2, <4>2
      <4> QED
        BY <2>2, <2>3, <4>1, <4>2
    <3> QED
      BY <1>1, <1>7, <3>1 DEF PendingOnce
  <2> QED
    BY <1>2, <1>3, <2>7, <2>8, <2>9 DEF Kept, IInv
<1>10. CASE /\ store' = FlushedStore /\ pending' = << >>
            /\ RequestReplay(Applied(seen, pending))
  <2> DEFINE c == Applied(seen, pending)
  <2>1. /\ c \in Coordinator /\ c.inFlight = coord.inFlight
        /\ c.bootstrapped = coord.bootstrapped
        /\ coord.latest <= c.latest /\ c.latest <= log
        /\ store' = Sequences(0, c.latest)
        /\ request.kind = "snapshot" /\ request.answered => c.latest <= request.upTo
    BY <1>4, <1>10, Flushing
  <2>2. RequestReplay(c)
    BY <1>10
  <2> HIDE DEF c
  <2>3. /\ coord' \in Coordinator /\ coord'.latest = c.latest
        /\ request' \in Requests /\ request'.kind = coord'.inFlight
        /\ RequestCurrent'
    BY <1>5, <1>10, <2>1, <2>2, AskingReplay
  <2>4. Client'
    BY <1>5, <1>6, <1>10, <2>1, <2>3, ClientMoved
  <2>5. PendingOnce'
    BY <1>10 DEF PendingOnce
  <2> QED
    BY <1>2, <2>1, <2>3, <2>4, <2>5 DEF Kept, IInv
<1> QED
  BY <1>1, <1>8, <1>9, <1>10

-----------------------------------------------------------------------------
(* Theorems                                                                *)

\* Every step keeps the invariant and never goes back.
LEMMA InvariantStep ==
  ASSUME IInv, [Next]_vars
  PROVE  Kept
<1>1. coord.latest \in Nat /\ log \in Nat
  BY ClientFacts
<1>2. CASE \/ Commit \/ ApplyCommitted \/ Publish
           \/ OpenStream \/ ReadReplay \/ SubscribeLive
  <2>1. UNCHANGED client
    BY <1>2 DEF Commit, ApplyCommitted, Publish, OpenStream, ReadReplay,
                SubscribeLive
  <2>2. log' = log \/ log' = log + 1
    BY <1>2 DEF Commit, ApplyCommitted, Publish, OpenStream, ReadReplay,
                SubscribeLive, server
  <2>3. Client'
    BY <1>1, <2>1, <2>2, ClientUnmoved
  <2>4. Wire' /\ PendingOnce'
    BY <1>2, WireByEngine, PendingByEngine
  <2>5. coord' = coord
    BY <2>1 DEF client
  <2> QED
    BY <1>1, <2>3, <2>4, <2>5 DEF Kept, IInv
<1>3. ASSUME NEW side \in {"replay", "live"}, Forward(side)
      PROVE  Kept
  <2>1. UNCHANGED client /\ UNCHANGED log
    BY <1>3 DEF Forward, server
  <2>2. Client'
    BY <1>1, <2>1, ClientUnmoved
  <2>3. Wire' /\ PendingOnce'
    BY <1>3, WireByForward
  <2>4. coord' = coord
    BY <2>1 DEF client
  <2> QED
    BY <1>1, <2>2, <2>3, <2>4 DEF Kept, IInv
<1>4. CASE AnswerRequest
  <2>1. UNCHANGED <<server, sub, wire, received, faults, pending, coord>>
    BY <1>4 DEF AnswerRequest
  <2>2. Client'
    BY <1>4, ClientByAnswer
  <2>3. Wire' /\ PendingOnce'
    BY <2>1, Unsent
  <2> QED
    BY <1>1, <2>1, <2>2, <2>3 DEF Kept, IInv
<1>5. CASE ClientStep
  BY <1>5, KeptByFlush, KeptByReceive, KeptByAskSnapshot, KeptBySnapshotArrives,
     KeptByReplayArrives, KeptByRetryTimer, KeptByConnect DEF ClientStep
<1>6. CASE Fault
  BY <1>6, KeptByDisconnect, KeptByFailure DEF Fault
<1>7. CASE UNCHANGED vars
  <2>1. UNCHANGED <<server, sub, wire, received, faults, client>>
    BY <1>7 DEF vars
  <2>2. UNCHANGED log /\ UNCHANGED <<pending, coord>>
    BY <2>1 DEF server, client
  <2>3. Client'
    BY <1>1, <2>1, <2>2, ClientUnmoved
  <2>4. Wire' /\ PendingOnce'
    BY <2>1, <2>2, Unsent
  <2> QED
    BY <1>1, <2>2, <2>3, <2>4 DEF Kept, IInv
<1> QED
  BY <1>2, <1>3, <1>4, <1>5, <1>6, <1>7 DEF Next, ServerStep

\* The invariant holds throughout.
THEOREM Invariant == Spec => []IInv
<1>1. Init => IInv
  BY InvariantInit
<1>2. IInv /\ [Next]_vars => IInv'
  BY InvariantStep DEF Kept
<1> QED
  BY <1>1, <1>2, PTL DEF Spec

\* Every part of the client and of the server's stream has its type, the
\* request in flight is the one the coordinator waits for, and a retry is
\* counted up to its limit (orchestrationRecovery.ts).
THEOREM TypeCorrect == Spec => []TypeOK
<1>1. IInv => TypeOK
  BY Implied
<1> QED
  BY <1>1, Invariant, PTL

\* The store reflects exactly the log up to latestSequence, whatever the order
\* of live events, snapshots, replays, failures and reconnections
\* (__root.tsx, orchestrationRecovery.ts).
THEOREM StoreFollowsLog == Spec => []StoreIsPrefix
<1>1. IInv => StoreIsPrefix
  BY Implied
<1> QED
  BY <1>1, Invariant, PTL

\* What the user has been shown is never taken back: no snapshot replaces a
\* store that is ahead of it (syncServerReadModel).
THEOREM StoreOnlyGrows == Spec => StoreNeverGoesBack
<1> DEFINE Extends == /\ Len(store) <= Len(store')
                      /\ SubSeq(store', 1, Len(store)) = store
<1>1. IInv /\ IInv' /\ [Next]_vars => [Extends]_store
  <2> SUFFICES ASSUME IInv, IInv', [Next]_vars
               PROVE  Extends
    OBVIOUS
  <2> DEFINE l == coord.latest
             m == coord'.latest
  <2>1. l <= m
    BY InvariantStep DEF Kept
  <2>2. l \in Nat /\ m \in Nat /\ store = Sequences(0, l) /\ store' = Sequences(0, m)
    BY DEF IInv, Client, ClientTypes, StoreIsPrefix, Coordinator
  <2> HIDE DEF l, m
  <2>3. /\ store \in Seq(Nat) /\ Len(store) = l /\ \A i \in 1 .. l : store[i] = i
        /\ store' \in Seq(Nat) /\ Len(store') = m /\ \A i \in 1 .. m : store'[i] = i
    BY <2>2, LogUpTo
  <2> DEFINE e == SubSeq(store', 1, l)
  <2>4. e = store
    <3>1. CASE l = 0
      BY <2>3, <3>1
    <3>2. CASE l # 0
      <4>1. 1 \in Int /\ l \in Int /\ \A i \in 1 .. l : store'[i] \in Nat
        BY <2>1, <2>2, <2>3
      <4>2. 1 <= l
        BY <2>2, <3>2
      <4>3. /\ e \in Seq(Nat) /\ Len(e) = l - 1 + 1
            /\ \A i \in 1 .. l - 1 + 1 : e[i] = store'[1 + i - 1]
        BY <4>1, <4>2, SubSeqProperties
      <4> HIDE DEF e
      <4>4. ASSUME NEW i \in 1 .. l PROVE e[i] = store[i]
        <5>1. i \in 1 .. l - 1 + 1 /\ 1 + i - 1 = i /\ i \in 1 .. m
          BY <2>1, <2>2
        <5> QED
          BY <2>3, <4>3, <5>1
      <4>5. Len(e) = l
        BY <2>2, <4>3
      <4> QED
        BY <2>3, <4>3, <4>4, <4>5, SeqEqual
    <3> QED
      BY <3>1, <3>2
  <2> QED
    BY <2>1, <2>3, <2>4
<1> QED
  BY <1>1, Invariant, PTL DEF Spec, StoreNeverGoesBack

=============================================================================
