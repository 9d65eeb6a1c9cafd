-------------------------- MODULE DispatcherProofs -------------------------
(***************************************************************************)
(* What Dispatcher promises of the rows on their way, for any number of    *)
(* deliveries and workers, any batch and any buffers of the network.       *)
(***************************************************************************)
EXTENDS Dispatcher, FiniteSetTheorems, SequenceTheorems, TLAPS

In(s, d) == \E i \in 1..Len(s) : s[i] = d
Once(s, d) == \A i, j \in 1..Len(s) : s[i] = d /\ s[j] = d => i = j

\* Each kind has its own claims, channel and workers.
KindsApart ==
  /\ turn = "send" => locked \subseteq Sends /\ unread \in Seq(Sends)
  /\ turn = "poll" => locked \subseteq Polls /\ unread \in Seq(Polls)
  /\ ch["send"] \in Seq(Sends) /\ ch["poll"] \in Seq(Polls)
  /\ \A w \in PollWorkers : hand[w] \in Polls \cup {Nobody}

\* Where a delivery may be.
InResult(d) == In(unread, d)
InChannel(d) == In(ch["send"], d)
WithWorker(d) == \E w \in Workers : hand[w] = d
OnItsWay(d) == InResult(d) \/ InChannel(d) \/ WithWorker(d) \/ other = d

\* It is in one of these places, once.  Its row says that it was claimed, as
\* soon as the claim is committed.
Single(d) ==
  /\ Once(unread, d) /\ Once(ch["send"], d)
  /\ \A v, w \in Workers : hand[v] = d /\ hand[w] = d => v = w
  /\ InResult(d) => ~InChannel(d) /\ ~WithWorker(d) /\ other # d
  /\ InChannel(d) => ~WithWorker(d) /\ other # d
  /\ WithWorker(d) => other # d
  /\ OnItsWay(d) => row[d] = IF d \in locked THEN "ready" ELSE "processing"

DispatcherInv ==
  TypeOK /\ KindsApart /\ \A d \in Sends \ lost : Single(d)
-----------------------------------------------------------------------------
(* Sequences.                                                              *)

LEMMA TailFacts ==
  ASSUME NEW D, NEW s \in Seq(D), s # <<>>
  PROVE  /\ Tail(s) \in Seq(D) /\ Head(s) \in D /\ Len(Tail(s)) <= Len(s)
         /\ In(s, Head(s))
         /\ \A d : /\ In(Tail(s), d) => In(s, d)
                   /\ Once(s, d) => Once(Tail(s), d)
                   /\ Once(s, d) /\ Head(s) = d => ~In(Tail(s), d)
<1>1. /\ Tail(s) \in Seq(D) /\ Head(s) \in D /\ Len(s) \in Nat /\ Len(s) >= 1
      /\ Len(Tail(s)) = Len(s) - 1 /\ Head(s) = s[1]
      /\ \A i \in 1..Len(Tail(s)) : i + 1 \in 1..Len(s) /\ Tail(s)[i] = s[i + 1]
  BY HeadTailProperties
<1>2. ASSUME NEW d
      PROVE  /\ In(Tail(s), d) => In(s, d)
             /\ Once(s, d) => Once(Tail(s), d)
             /\ Once(s, d) /\ Head(s) = d => ~In(Tail(s), d)
  <2>1. In(Tail(s), d) => In(s, d)
    BY <1>1 DEF In
  <2>2. Once(s, d) => Once(Tail(s), d)
    BY <1>1 DEF Once
  <2>3. Once(s, d) /\ Head(s) = d => ~In(Tail(s), d)
    BY <1>1 DEF Once, In
  <2> QED
    BY <2>1, <2>2, <2>3
<1>3. In(s, Head(s))
  BY <1>1 DEF In
<1> QED
  BY <1>1, <1>2, <1>3

LEMMA AppendFacts ==
  ASSUME NEW D, NEW s \in Seq(D), NEW e \in D
  PROVE  /\ Append(s, e) \in Seq(D) /\ Len(Append(s, e)) = Len(s) + 1
         /\ \A d : /\ In(Append(s, e), d) <=> In(s, d) \/ e = d
                   /\ Once(s, d) /\ (e # d \/ ~In(s, d)) => Once(Append(s, e), d)
<1>1. /\ Append(s, e) \in Seq(D) /\ Len(s) \in Nat
      /\ Len(Append(s, e)) = Len(s) + 1 /\ Append(s, e)[Len(s) + 1] = e
      /\ \A i \in 1..Len(s) : Append(s, e)[i] = s[i]
  BY AppendProperties
<1>2. ASSUME NEW d
      PROVE  /\ In(Append(s, e), d) <=> In(s, d) \/ e = d
             /\ Once(s, d) /\ (e # d \/ ~In(s, d)) => Once(Append(s, e), d)
  <2>1. In(Append(s, e), d) <=> In(s, d) \/ e = d
    BY <1>1 DEF In
  <2>2. Once(s, d) /\ (e # d \/ ~In(s, d)) => Once(Append(s, e), d)
    BY <1>1 DEF Once, In
  <2> QED
    BY <2>1, <2>2
<1> QED
  BY <1>1, <1>2

\* The result of a statement has each row that it locked, once.
LEMMA SetToSeqFacts ==
  ASSUME NEW S, IsFiniteSet(S)
  PROVE  /\ SetToSeq(S) \in Seq(S)
         /\ \A d : (In(SetToSeq(S), d) <=> d \in S) /\ Once(SetToSeq(S), d)
<1> DEFINE n == Cardinality(S)
           f == SetToSeq(S)
<1>1. n \in Nat /\ ExistsBijection(1..n, S)
  <2>1. PICK m \in Nat : ExistsBijection(1..m, S)
    BY FS_NatBijection
  <2>2. n = m
    BY <2>1, FS_CountingElements
  <2> QED
    BY <2>1, <2>2
<1>2. PICK b \in [1..n -> S] : IsInjective(b)
  BY <1>1 DEF ExistsBijection, Bijection, Injection
<1>3. f \in [1..n -> S] /\ IsInjective(f)
  BY <1>2 DEF SetToSeq
<1>4. IsFiniteSet(1..n) /\ Cardinality(1..n) = n
  BY <1>1, FS_Interval
<1>5. f \in Surjection(1..n, S)
  <2>1. f \in Injection(1..n, S)
    BY <1>3 DEF Injection
  <2> QED
    BY <1>4, <2>1, FS_Injection
<1>6. f \in Seq(S) /\ Len(f) = n
  BY <1>1, <1>3, SeqDef, LenProperties
<1>7. \A d : In(f, d) <=> d \in S
  BY <1>3, <1>5, <1>6 DEF In, Surjection
<1>8. \A d : Once(f, d)
  BY <1>3, <1>6 DEF Once, IsInjective
<1> QED
  BY <1>6, <1>7, <1>8
-----------------------------------------------------------------------------
(* Types.                                                                  *)

LEMMA DispatcherConstants ==
  /\ Nobody \notin Deliveries /\ Sends \cap Polls = {} /\ Refused \subseteq Sends
  /\ Capacity \in Nat /\ Capacity >= 0 /\ IsFiniteSet(Deliveries)
  /\ Deliveries = Sends \cup Polls /\ Workers = SendWorkers \cup PollWorkers
  /\ SendWorkers \cap PollWorkers = {}
BY DispatcherAssumption DEF Deliveries, Workers, Capacity

Typed == TypeOK /\ KindsApart

LEMMA InitTyped == Init => Typed
<1> SUFFICES ASSUME Init
             PROVE  Typed
  OBVIOUS
<1> USE DispatcherConstants DEF Init
<1>1. \A D : <<>> \in Seq(D) /\ Len(<<>>) = 0
  BY EmptySeq
<1>2. KindsApart
  BY <1>1 DEF KindsApart, Kinds
<1>3. TypeOK
  BY <1>1 DEF TypeOK, Kinds
<1> QED
  BY <1>2, <1>3 DEF Typed

\* A claim picks rows of its kind and lists each once.
LEMMA PicksTyped ==
  ASSUME Typed, NEW k \in Kinds, Picks(k)
  PROVE  /\ Typed'
         /\ \A d : /\ d \in locked' => d \in Claimable(k)
                   /\ (In(unread', d) <=> d \in locked') /\ Once(unread', d)
<1> USE DispatcherConstants
<1>1. PICK S \in SUBSET Claimable(k) : locked' = S /\ unread' = SetToSeq(S)
  BY DEF Picks
<1>2. /\ S \subseteq Deliveries /\ IsFiniteSet(S)
      /\ k = "send" => S \subseteq Sends
      /\ k = "poll" => S \subseteq Polls
  <2>1. /\ S \subseteq Deliveries
        /\ k = "send" => S \subseteq Sends
        /\ k = "poll" => S \subseteq Polls
    BY DEF Claimable, Typed, TypeOK, Kinds
  <2> QED
    BY <2>1, FS_Subset
<1>3. /\ unread' \in Seq(S)
      /\ \A d : (In(unread', d) <=> d \in locked') /\ Once(unread', d)
  BY <1>1, <1>2, SetToSeqFacts
<1>4. /\ unread' \in Seq(Deliveries)
      /\ k = "send" => unread' \in Seq(Sends)
      /\ k = "poll" => unread' \in Seq(Polls)
  BY <1>2, <1>3, SeqMonotonic
<1>5. turn' = k /\ UNCHANGED <<table, ch, workers, life, lost>>
  BY DEF Picks
<1>6. TypeOK'
  BY <1>1, <1>2, <1>4, <1>5 DEF Typed, TypeOK, Kinds, table, workers
<1>7. KindsApart'
  BY <1>1, <1>2, <1>4, <1>5 DEF Typed, KindsApart, Kinds, workers
<1> QED
  BY <1>1, <1>3, <1>6, <1>7 DEF Typed

LEMMA DispatchTyped ==
  ASSUME Typed, Dispatch
  PROVE  /\ Typed' /\ turn \in Kinds /\ unread \in Seq(Deliveries) /\ unread # <<>>
         /\ ch[turn] \in Seq(Deliveries)
         /\ turn = "send" => ch'["send"] = Append(ch["send"], Head(unread))
         /\ turn = "poll" => ch'["send"] = ch["send"]
<1> USE DispatcherConstants
<1>1. /\ turn \in Kinds /\ unread \in Seq(Deliveries) /\ unread # <<>>
      /\ ch[turn] \in Seq(Deliveries) /\ Len(ch[turn]) < Capacity /\ Len(ch[turn]) \in Nat
      /\ ch' = [ch EXCEPT ![turn] = Append(@, Head(unread))] /\ unread' = Tail(unread)
      /\ UNCHANGED <<table, locked, turn, workers, life, lost>>
  <2>1. turn \in Kinds /\ unread # <<>> /\ ch[turn] \in Seq(Deliveries)
    BY DEF Dispatch, Typed, TypeOK
  <2>2. Len(ch[turn]) \in Nat
    BY <2>1, LenProperties
  <2> QED
    BY <2>1, <2>2 DEF Dispatch, Typed, TypeOK
<1>2. /\ Tail(unread) \in Seq(Deliveries) /\ Head(unread) \in Deliveries
      /\ turn = "send" => Tail(unread) \in Seq(Sends) /\ Head(unread) \in Sends
      /\ turn = "poll" => Tail(unread) \in Seq(Polls) /\ Head(unread) \in Polls
  BY <1>1, TailFacts DEF Typed, KindsApart
<1>3. /\ Append(ch[turn], Head(unread)) \in Seq(Deliveries)
      /\ Len(Append(ch[turn], Head(unread))) = Len(ch[turn]) + 1
  BY <1>1, <1>2, AppendFacts
<1>4. /\ turn = "send" => Append(ch["send"], Head(unread)) \in Seq(Sends)
      /\ turn = "poll" => Append(ch["poll"], Head(unread)) \in Seq(Polls)
  BY <1>2, AppendFacts DEF Typed, KindsApart
<1>5. TypeOK'
  <2>1. ch' \in [Kinds -> Seq(Deliveries)]
    BY <1>1, <1>3 DEF Typed, TypeOK
  <2>2. \A k \in Kinds : Len(ch'[k]) <= Capacity
    BY <1>1, <1>3 DEF Typed, TypeOK
  <2> QED
    BY <1>1, <1>2, <2>1, <2>2 DEF Typed, TypeOK, table, workers
<1>6. /\ turn = "send" => ch'["send"] = Append(ch["send"], Head(unread))
                          /\ ch'["poll"] = ch["poll"]
      /\ turn = "poll" => ch'["poll"] = Append(ch["poll"], Head(unread))
                          /\ ch'["send"] = ch["send"]
  BY <1>1 DEF Typed, TypeOK, Kinds
<1>7. KindsApart'
  BY <1>1, <1>2, <1>4, <1>6 DEF Typed, KindsApart, Kinds, workers
<1> QED
  BY <1>1, <1>5, <1>6, <1>7 DEF Typed

LEMMA ReceiveTyped ==
  ASSUME Typed, NEW w \in Workers, Receive(w)
  PROVE  /\ Typed' /\ KindOf(w) \in Kinds
         /\ ch[KindOf(w)] \in Seq(Deliveries) /\ ch[KindOf(w)] # <<>>
         /\ hand[w] = Nobody
         /\ KindOf(w) = "send" => ch'["send"] = Tail(ch["send"])
         /\ KindOf(w) = "poll" => ch'["send"] = ch["send"] /\ Head(ch["poll"]) \in Polls
<1> USE DispatcherConstants
<1> DEFINE k == KindOf(w)
<1>1. /\ k \in Kinds /\ ch[k] \in Seq(Deliveries) /\ ch[k] # <<>>
      /\ at[w] = "idle" /\ at' = [at EXCEPT ![w] = "busy"]
      /\ hand' = [hand EXCEPT ![w] = Head(ch[k])]
      /\ ch' = [ch EXCEPT ![k] = Tail(@)]
      /\ UNCHANGED <<table, claim, life, lost>>
  BY DEF Receive, Goes, KindOf, Kinds, Typed, TypeOK
<1>2. /\ Tail(ch[k]) \in Seq(Deliveries) /\ Head(ch[k]) \in Deliveries
      /\ Len(Tail(ch[k])) <= Len(ch[k])
      /\ k = "send" => Tail(ch[k]) \in Seq(Sends) /\ Head(ch[k]) \in Sends
      /\ k = "poll" => Tail(ch[k]) \in Seq(Polls) /\ Head(ch[k]) \in Polls
  BY <1>1, TailFacts DEF Typed, KindsApart
<1>3. /\ k = "send" => ch'["send"] = Tail(ch["send"]) /\ ch'["poll"] = ch["poll"]
      /\ k = "poll" => ch'["poll"] = Tail(ch["poll"]) /\ ch'["send"] = ch["send"]
  BY <1>1 DEF Typed, TypeOK, Kinds
<1>4. hand[w] = Nobody
  BY <1>1 DEF Typed, TypeOK
<1>5. w \in PollWorkers => k = "poll"
  BY DEF KindOf
<1> HIDE DEF k
<1>6. TypeOK'
  <2>1. ch' \in [Kinds -> Seq(Deliveries)]
    BY <1>1, <1>2 DEF Typed, TypeOK
  <2>2. \A j \in Kinds : Len(ch'[j]) <= Capacity
    <3>1. TAKE j \in Kinds
    <3>2. Len(ch[j]) \in Nat /\ Len(ch[j]) <= Capacity /\ Len(Tail(ch[k])) \in Nat
      BY <1>2, LenProperties DEF Typed, TypeOK
    <3>3. ch'[j] = IF j = k THEN Tail(ch[k]) ELSE ch[j]
      BY <1>1 DEF Typed, TypeOK
    <3> QED
      BY <1>2, <3>2, <3>3
  <2>3. /\ hand' \in [Workers -> Deliveries \cup {Nobody}]
        /\ at' \in [Workers -> {"idle", "busy", "db", "exit"}]
        /\ \A v \in Workers : hand'[v] # Nobody <=> at'[v] \in {"busy", "db"}
    BY <1>1, <1>2 DEF Typed, TypeOK
  <2> QED
    BY <1>1, <2>1, <2>2, <2>3 DEF Typed, TypeOK, table, claim
<1>7. KindsApart'
  <2>1. ch'["send"] \in Seq(Sends) /\ ch'["poll"] \in Seq(Polls)
    BY <1>1, <1>2, <1>3 DEF Typed, KindsApart, Kinds
  <2>2. \A v \in PollWorkers : hand'[v] \in Polls \cup {Nobody}
    BY <1>1, <1>2, <1>5 DEF Typed, TypeOK, KindsApart
  <2> QED
    BY <1>1, <2>1, <2>2 DEF Typed, KindsApart, claim
<1> QED
  BY <1>1, <1>2, <1>3, <1>4, <1>6, <1>7 DEF Typed, k
\* The dispatcher's other steps, the database's and the signal's.
LEMMA LoopTyped ==
  ASSUME Typed, \/ EndTick \/ Abandon \/ Leave \/ Gone \/ Commit \/ Signal
                \/ UNCHANGED vars
  PROVE  Typed'
<1> USE DispatcherConstants
<1> USE DEF Typed, TypeOK, KindsApart, Kinds, table, claim, workers
<1>1. CASE EndTick
  BY <1>1 DEF EndTick, AtEnd
<1>2. CASE Abandon
  <2>1. \A D : <<>> \in Seq(D)
    BY EmptySeq
  <2>2. /\ row' \in [Deliveries -> {"ready", "processing", "awaiting", "done"}]
        /\ locked' = {} /\ lost' \subseteq Sends
    BY <1>2 DEF Abandon, Committed, RolledBack
  <2> QED
    BY <1>2, <2>1, <2>2 DEF Abandon, Committed, RolledBack
<1>3. CASE Leave
  BY <1>3 DEF Leave
<1>4. CASE Gone
  BY <1>4 DEF Gone
<1>5. CASE Commit
  BY <1>5 DEF Commit, Committed
<1>6. CASE Signal
  BY <1>6 DEF Signal
<1>7. CASE UNCHANGED vars
  BY <1>7 DEF vars
<1> QED
  BY <1>1, <1>2, <1>3, <1>4, <1>5, <1>6, <1>7

LEMMA WorkTyped ==
  ASSUME Typed, NEW w \in Workers, Answer(w) \/ Drop(w) \/ Record(w) \/ Exit(w)
  PROVE  Typed'
<1> USE DispatcherConstants
<1>1. /\ hand' \in [Workers -> Deliveries \cup {Nobody}]
      /\ at' \in [Workers -> {"idle", "busy", "db", "exit"}]
      /\ \A v \in Workers : hand'[v] # Nobody <=> at'[v] \in {"busy", "db"}
      /\ \A v \in PollWorkers : hand'[v] \in Polls \cup {Nobody}
  <2> USE DEF Typed, TypeOK, KindsApart, Goes
  <2>1. CASE Answer(w)
    BY <2>1 DEF Answer
  <2>2. CASE Drop(w)
    BY <2>2 DEF Drop
  <2>3. CASE Record(w)
    BY <2>3 DEF Record
  <2>4. CASE Exit(w)
    BY <2>4 DEF Exit
  <2> QED
    BY <2>1, <2>2, <2>3, <2>4
<1>2. /\ UNCHANGED <<other, claim, ch, life, lost>>
      /\ row' \in [Deliveries -> {"ready", "processing", "awaiting", "done"}]
      /\ due' \subseteq Polls
  BY DEF Answer, Drop, Record, Exit, Writes, Typed, TypeOK, table
<1> QED
  BY <1>1, <1>2 DEF Typed, TypeOK, KindsApart, claim

LEMMA OutsideTyped ==
  ASSUME Typed, \/ \E d \in Polls : BecomesDue(d)
                \/ \E d \in Sends : OtherClaims(d) \/ OtherRecords(d)
  PROVE  Typed'
<1> USE DispatcherConstants
<1>1. UNCHANGED <<claim, ch, workers, life, lost>>
  BY DEF BecomesDue, OtherClaims, OtherTakes, OtherRecords
<1>2. /\ row' \in [Deliveries -> {"ready", "processing", "awaiting", "done"}]
      /\ due' \subseteq Polls /\ other' \in Sends \cup {Nobody}
  BY DEF BecomesDue, OtherClaims, OtherTakes, OtherRecords, Writes, Typed, TypeOK
<1> QED
  BY <1>1, <1>2 DEF Typed, TypeOK, KindsApart, claim, workers
-----------------------------------------------------------------------------
(* One place.  The lemmas are about one delivery, wherever it is.          *)

LEMMA PicksSingle ==
  ASSUME Typed, AtEnd, NEW k \in Kinds, Picks(k), NEW d \in Sends, Single(d)
  PROVE  Single(d)'
<1> USE DispatcherConstants
<1>1. /\ d \in locked' => d \in Claimable(k)
      /\ (In(unread', d) <=> d \in locked') /\ Once(unread', d)
  BY PicksTyped
<1>2. d \in locked' => row[d] = "ready"
  BY <1>1 DEF Claimable, Typed, TypeOK, Kinds
<1>3. d \in locked' => ~InChannel(d) /\ ~WithWorker(d) /\ other # d
  BY <1>2 DEF Single, OnItsWay, AtEnd
<1>4. UNCHANGED <<row, other, ch, hand>>
  BY DEF Picks, table, workers
<1> QED
  BY <1>1, <1>2, <1>3, <1>4 DEF Single, OnItsWay, InResult, InChannel, WithWorker,
     AtEnd

LEMMA DispatchSingle ==
  ASSUME Typed, Dispatch, NEW d \in Sends, Single(d)
  PROVE  Single(d)'
<1> USE DispatcherConstants
<1> DEFINE e == Head(unread)
<1>1. /\ In(unread, e)
      /\ In(unread', d) => In(unread, d)
      /\ Once(unread, d) => Once(unread', d)
      /\ Once(unread, d) /\ e = d => ~In(unread', d)
  BY DispatchTyped, TailFacts DEF Dispatch
<1>2. \/ ch'["send"] = ch["send"]
      \/ /\ In(ch'["send"], d) <=> In(ch["send"], d) \/ e = d
         /\ Once(ch["send"], d) /\ (e # d \/ ~In(ch["send"], d)) => Once(ch'["send"], d)
  <2>1. CASE turn = "send"
    <3>1. unread \in Seq(Sends) /\ ch["send"] \in Seq(Sends) /\ unread # <<>>
      BY <2>1, DispatchTyped DEF Typed, KindsApart
    <3>2. e \in Sends
      BY <3>1, TailFacts
    <3>3. ch'["send"] = Append(ch["send"], e)
      BY <2>1, DispatchTyped
    <3> HIDE DEF e
    <3>4. /\ In(Append(ch["send"], e), d) <=> In(ch["send"], d) \/ e = d
          /\ Once(ch["send"], d) /\ (e # d \/ ~In(ch["send"], d))
             => Once(Append(ch["send"], e), d)
      BY <3>1, <3>2, AppendFacts
    <3> QED
      BY <3>3, <3>4
  <2>2. CASE turn = "poll"
    BY <2>2, DispatchTyped
  <2> QED
    BY <2>1, <2>2, DispatchTyped DEF Kinds
<1>3. UNCHANGED <<row, other, hand, locked>>
  BY DEF Dispatch, table, workers
<1> HIDE DEF e
<1>4. CASE ch'["send"] = ch["send"]
  BY <1>1, <1>3, <1>4 DEF Single, OnItsWay, InResult, InChannel, WithWorker
<1>5. CASE e = d /\ ch'["send"] # ch["send"]
  BY <1>1, <1>2, <1>3, <1>5 DEF Single, OnItsWay, InResult, InChannel, WithWorker
<1>6. CASE e # d /\ ch'["send"] # ch["send"]
  BY <1>1, <1>2, <1>3, <1>6 DEF Single, OnItsWay, InResult, InChannel, WithWorker
<1> QED
  BY <1>4, <1>5, <1>6

LEMMA ReceiveSingle ==
  ASSUME Typed, NEW w \in Workers, Receive(w), NEW d \in Sends, Single(d)
  PROVE  Single(d)'
<1> USE DispatcherConstants
<1> DEFINE e == Head(ch[KindOf(w)])
<1>1. /\ hand' = [hand EXCEPT ![w] = e] /\ hand \in [Workers -> Deliveries \cup {Nobody}]
      /\ hand[w] = Nobody /\ d # Nobody
      /\ UNCHANGED <<row, other, locked, unread>>
  BY ReceiveTyped DEF Receive, Typed, TypeOK, table, claim
<1>2. \/ /\ ch'["send"] = ch["send"] /\ e # d
      \/ /\ In(ch["send"], e)
         /\ In(ch'["send"], d) => In(ch["send"], d)
         /\ Once(ch["send"], d) => Once(ch'["send"], d)
         /\ Once(ch["send"], d) /\ e = d => ~In(ch'["send"], d)
  <2>1. CASE KindOf(w) = "send"
    <3>1. ch["send"] # <<>> /\ ch["send"] \in Seq(Deliveries)
          /\ ch'["send"] = Tail(ch["send"])
      BY <2>1, ReceiveTyped
    <3> QED
      BY <2>1, <3>1, TailFacts
  <2>2. CASE KindOf(w) = "poll"
    BY <2>2, ReceiveTyped
  <2> QED
    BY <2>1, <2>2, ReceiveTyped DEF Kinds
<1> HIDE DEF e
<1>3. \A v \in Workers : hand'[v] = IF v = w THEN e ELSE hand[v]
  BY <1>1
<1>4. CASE e = d
  BY <1>1, <1>2, <1>3, <1>4 DEF Single, OnItsWay, InResult, InChannel, WithWorker
<1>5. CASE e # d
  BY <1>1, <1>2, <1>3, <1>5 DEF Single, OnItsWay, InResult, InChannel, WithWorker
<1> QED
  BY <1>4, <1>5

\* A commit shows what the claim did; an abandoned claim returns its rows, and
\* those of them that were dispatched are lost if it did nothing.
LEMMA LoopSingle ==
  ASSUME Typed, NEW d \in Sends \ lost', Single(d),
         EndTick \/ Abandon \/ Leave \/ Gone \/ Commit \/ Signal \/ UNCHANGED vars
  PROVE  Single(d)'
<1> USE DispatcherConstants
<1>1. CASE EndTick \/ Leave \/ Gone \/ Signal \/ UNCHANGED vars
  <2>1. UNCHANGED <<row, other, locked, unread, ch, hand>>
    BY <1>1 DEF EndTick, Leave, Gone, Signal, vars, table, claim, workers
  <2> QED
    BY <2>1 DEF Single, OnItsWay, InResult, InChannel, WithWorker
<1>2. CASE Commit
  <2>1. UNCHANGED <<other, unread, ch, hand>>
    BY <1>2 DEF Commit, workers
  <2>2. locked' = {} /\ row'[d] = IF d \in locked THEN "processing" ELSE row[d]
    BY <1>2 DEF Commit, Committed
  <2> QED
    BY <2>1, <2>2 DEF Single, OnItsWay, InResult, InChannel, WithWorker
<1>3. CASE Abandon
  <2>1. UNCHANGED <<other, ch, hand>> /\ unread' = <<>> /\ locked' = {}
    BY <1>3 DEF Abandon, workers, Committed, RolledBack
  <2>2. ~In(unread', d) /\ Once(unread', d)
    BY <2>1 DEF In, Once
  <2>3. InChannel(d) \/ WithWorker(d) \/ other = d => row'[d] = "processing"
    <3>1. CASE Committed
      BY <3>1 DEF Committed, Single, OnItsWay
    <3>2. CASE RolledBack
      <4>1. d \in locked => d \in ToSet(unread)
        BY <3>2 DEF RolledBack
      <4>2. unread \in Seq(Deliveries)
        BY DEF Typed, TypeOK
      <4>3. d \in locked => InResult(d)
        BY <4>1, <4>2 DEF ToSet, InResult, In
      <4> QED
        BY <3>2, <4>3 DEF RolledBack, Single, OnItsWay
    <3> QED
      BY <1>3, <3>1, <3>2 DEF Abandon
  <2> QED
    BY <2>1, <2>2, <2>3 DEF Single, OnItsWay, InResult, InChannel, WithWorker
<1> QED
  BY <1>1, <1>2, <1>3

LEMMA WorkSingle ==
  ASSUME Typed, NEW w \in Workers, NEW d \in Sends, Single(d),
         Answer(w) \/ Drop(w) \/ Record(w) \/ Exit(w)
  PROVE  Single(d)'
<1> USE DispatcherConstants
<1>1. UNCHANGED <<other, ch, unread, locked>>
  BY DEF Answer, Drop, Record, Exit, table, claim
<1>2. \A v \in Workers : hand'[v] = d => hand[v] = d
  BY DEF Answer, Drop, Record, Exit, Typed, TypeOK
<1>3. CASE Record(w) /\ hand[w] = d
  <2>1. WithWorker(d) /\ \A v \in Workers : hand'[v] # d
    BY <1>3 DEF Record, Single, WithWorker, Typed, TypeOK
  <2> QED
    BY <1>1, <2>1 DEF Single, OnItsWay, InResult, InChannel, WithWorker
<1>4. CASE ~(Record(w) /\ hand[w] = d)
  <2>1. row'[d] = row[d]
    BY <1>4 DEF Answer, Drop, Record, Exit, Writes, Typed, TypeOK, table
  <2> QED
    BY <1>1, <1>2, <2>1 DEF Single, OnItsWay, InResult, InChannel, WithWorker
<1> QED
  BY <1>3, <1>4

LEMMA OutsideSingle ==
  ASSUME Typed, NEW d \in Sends, Single(d),
         \/ \E e \in Polls : BecomesDue(e)
         \/ \E e \in Sends : OtherClaims(e) \/ OtherRecords(e)
  PROVE  Single(d)'
<1> USE DispatcherConstants
<1>1. UNCHANGED <<ch, unread, locked, hand>>
  BY DEF BecomesDue, OtherClaims, OtherTakes, OtherRecords, claim, workers
<1>2. \/ row'[d] = row[d] /\ (other' = d => other = d)
      \/ locked = {} /\ row[d] = "ready" /\ row'[d] = "processing"
      \/ other = d /\ other' # d
  BY DEF BecomesDue, OtherClaims, OtherTakes, OtherRecords, Writes, Claimable,
     Typed, TypeOK
<1> QED
  BY <1>1, <1>2 DEF Single, OnItsWay, InResult, InChannel, WithWorker
-----------------------------------------------------------------------------
LEMMA InitInv == Init => DispatcherInv
<1> SUFFICES ASSUME Init
             PROVE  DispatcherInv
  OBVIOUS
<1>1. Typed
  BY InitTyped
<1>2. ASSUME NEW d \in Sends
      PROVE  Single(d)
  <2>1. ~In(<<>>, d) /\ Once(<<>>, d)
    BY DEF In, Once
  <2> QED
    BY <2>1, DispatcherConstants
    DEF Init, Single, OnItsWay, InResult, InChannel, WithWorker, Kinds
<1> QED
  BY <1>1, <1>2 DEF DispatcherInv, Typed

LEMMA NextInv == DispatcherInv /\ [Next]_vars => DispatcherInv'
<1> SUFFICES ASSUME DispatcherInv, [Next]_vars
             PROVE  Typed' /\ \A d \in Sends \ lost' : Single(d)'
  BY DEF DispatcherInv, Typed
<1>1. Typed /\ \A d \in Sends \ lost : Single(d)
  BY DEF DispatcherInv, Typed
<1>2. lost \subseteq lost'
  BY DEF Next, Dispatching, ClaimSends, ClaimPolls, Picks, EndTick, Dispatch,
         Abandon, RolledBack, Leave, Gone, Commit, Signal, Work, Receive, Answer,
         Drop, Record, Exit, BecomesDue, OtherClaims, OtherTakes, OtherRecords, vars
<1>3. ASSUME NEW k \in Kinds, Picks(k), AtEnd
      PROVE  Typed' /\ \A d \in Sends \ lost' : Single(d)'
  BY <1>1, <1>2, <1>3, PicksTyped, PicksSingle
<1>4. ClaimSends \/ ClaimPolls => AtEnd /\ \E k \in Kinds : Picks(k)
  BY <1>1 DEF ClaimSends, ClaimPolls, AtEnd, Typed, TypeOK, Kinds
<1>5. CASE Dispatch
  BY <1>1, <1>2, <1>5, DispatchTyped, DispatchSingle
<1>6. CASE EndTick \/ Abandon \/ Leave \/ Gone \/ Commit \/ Signal \/ UNCHANGED vars
  BY <1>1, <1>2, <1>6, LoopTyped, LoopSingle
<1>7. ASSUME NEW w \in Workers, Work(w)
      PROVE  Typed' /\ \A d \in Sends \ lost' : Single(d)'
  BY <1>1, <1>2, <1>7, ReceiveTyped, ReceiveSingle, WorkTyped, WorkSingle DEF Work
<1>8. CASE \/ \E d \in Polls : BecomesDue(d)
           \/ \E d \in Sends : OtherClaims(d) \/ OtherRecords(d)
  BY <1>1, <1>2, <1>8, OutsideTyped, OutsideSingle
<1> QED
  BY <1>3, <1>4, <1>5, <1>6, <1>7, <1>8 DEF Next, Dispatching

LEMMA Invariant == Spec => []DispatcherInv
BY InitInv, NextInv, PTL DEF Spec

\* Types; a claim is open only while the dispatcher reads it, a channel holds
\* no more than it was made for, and a worker has a row exactly while it works
\* (main, claimAndDispatch).
THEOREM TypeCorrect == Spec => []TypeOK
<1>1. DispatcherInv => TypeOK
  BY DEF DispatcherInv
<1> QED
  BY <1>1, Invariant, PTL

\* A set of one member at most has the cardinality 0 or 1.
LEMMA OneAtMost ==
  ASSUME NEW T, \A a, b \in T : a = b
  PROVE  Cardinality(T) \in {0, 1} /\ (T = {} => Cardinality(T) = 0)
<1>1. CASE T = {}
  BY <1>1, FS_EmptySet
<1>2. CASE T # {}
  <2>1. PICK x \in T : TRUE
    BY <1>2
  <2>2. T = {x}
    BY <2>1
  <2> QED
    BY <1>2, <2>2, FS_Singleton
<1> QED
  BY <1>1, <1>2

\* A delivery is on its way in one place only: the result set of the claim, in
\* sendCh, with a worker or in the other process, although a claim becomes
\* visible only after part of it was dispatched (claim_deliveries,
\* claimAndDispatch), unless a stop rolled the claim back.
THEOREM OneHolder == Spec => []OnePlace
<1>1. DispatcherInv => OnePlace
  <2> SUFFICES ASSUME DispatcherInv, NEW d \in Sends \ lost
               PROVE  Cardinality({i \in DOMAIN unread : unread[i] = d})
                        + Cardinality({i \in DOMAIN ch["send"] : ch["send"][i] = d})
                        + Cardinality({w \in Workers : hand[w] = d})
                        + (IF d = other THEN 1 ELSE 0) <= 1
    BY DEF OnePlace
  <2> DEFINE R == {i \in DOMAIN unread : unread[i] = d}
             C == {i \in DOMAIN ch["send"] : ch["send"][i] = d}
             W == {w \in Workers : hand[w] = d}
  <2>1. Single(d) /\ unread \in Seq(Deliveries) /\ ch["send"] \in Seq(Deliveries)
    BY DEF DispatcherInv, TypeOK, Kinds
  <2>2. DOMAIN unread = 1..Len(unread) /\ DOMAIN ch["send"] = 1..Len(ch["send"])
    BY <2>1, LenProperties
  <2>3. /\ \A a, b \in R : a = b
        /\ \A a, b \in C : a = b
        /\ \A a, b \in W : a = b
    BY <2>1, <2>2 DEF Single, Once
  <2>4. /\ R # {} => C = {} /\ W = {} /\ d # other
        /\ C # {} => W = {} /\ d # other
        /\ W # {} => d # other
    BY <2>1, <2>2 DEF Single, InResult, InChannel, WithWorker, In
  <2> HIDE DEF R, C, W
  <2>5. /\ Cardinality(R) \in {0, 1} /\ (R = {} => Cardinality(R) = 0)
        /\ Cardinality(C) \in {0, 1} /\ (C = {} => Cardinality(C) = 0)
        /\ Cardinality(W) \in {0, 1} /\ (W = {} => Cardinality(W) = 0)
    BY <2>3, OneAtMost
  <2>6. Cardinality(R) + Cardinality(C) + Cardinality(W)
          + (IF d = other THEN 1 ELSE 0) <= 1
    BY <2>4, <2>5
  <2> QED
    BY <2>6 DEF R, C, W
<1> QED
  BY <1>1, Invariant, PTL
=============================================================================
