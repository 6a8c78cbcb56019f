---------------------------- MODULE StreamProofs ----------------------------
(***************************************************************************)
(* Proofs about the two streams of Server-Sent Events the browser reads.   *)
(* DesignEvents, for every set of streams and threads and every number of  *)
(* events: what a stream owes its browser is nowhere lost and nowhere      *)
(* doubled.  PushDialog over FleetPush, for every set of pushes, of device *)
(* names and of dialog pushes among them, every length of a log and every  *)
(* number of faults: what a build reads, and what the dialog shows of it.  *)
(***************************************************************************)
EXTENDS DesignEvents, PushDialog, SequenceTheorems, FunctionTheorems, FiniteSetTheorems, TLAPS

-----------------------------------------------------------------------------
(* How often an event occurs in a sequence.                                *)

Count(seq, e) == Cardinality({n \in 1..Len(seq) : seq[n] = e})

\* Counts are natural numbers.
LEMMA CountType ==
    ASSUME NEW S, NEW seq \in Seq(S), NEW e
    PROVE  /\ IsFiniteSet({n \in 1..Len(seq) : seq[n] = e})
           /\ Count(seq, e) \in Nat
  <1>1. IsFiniteSet(1..Len(seq))
    BY FS_Interval
  <1>2. {n \in 1..Len(seq) : seq[n] = e} \in SUBSET (1..Len(seq))
    OBVIOUS
  <1> QED BY <1>1, <1>2, FS_Subset, FS_CardinalityType DEF Count

\* What does not occur is counted zero times.
LEMMA CountNone ==
    ASSUME NEW seq, NEW e, \A n \in 1..Len(seq) : seq[n] # e
    PROVE  Count(seq, e) = 0
  <1>1. {n \in 1..Len(seq) : seq[n] = e} = {}
    OBVIOUS
  <1> QED BY <1>1, FS_EmptySet DEF Count

\* An event appended counts one more.
LEMMA CountAppend ==
    ASSUME NEW S, NEW seq \in Seq(S), NEW x \in S, NEW e
    PROVE  Count(Append(seq, x), e) = Count(seq, e) + (IF x = e THEN 1 ELSE 0)
  <1> DEFINE here == {n \in 1..Len(seq) : seq[n] = e}
             there == {n \in 1..Len(Append(seq, x)) : Append(seq, x)[n] = e}
  <1>1. /\ Len(Append(seq, x)) = Len(seq) + 1
        /\ \A n \in 1..Len(seq) : Append(seq, x)[n] = seq[n]
        /\ Append(seq, x)[Len(seq) + 1] = x
        /\ Len(seq) \in Nat
    OBVIOUS
  <1>2. IsFiniteSet(here) /\ Cardinality(here) \in Nat
    BY CountType DEF Count
  <1>3. CASE x = e
    <2>1. there = here \cup {Len(seq) + 1} /\ Len(seq) + 1 \notin here
      BY <1>1, <1>3
    <2>2. Cardinality(here \cup {Len(seq) + 1}) = Cardinality(here) + 1
      <3> HIDE DEF here
      <3> QED BY <1>2, <2>1, FS_AddElement
    <2> QED BY <1>2, <1>3, <2>1, <2>2 DEF Count
  <1>4. CASE x # e
    <2>1. there = here
      BY <1>1, <1>4
    <2>2. Count(seq, e) = Cardinality(here) /\ Count(Append(seq, x), e) = Cardinality(there)
      BY DEF Count
    <2> HIDE DEF here, there
    <2> QED BY <1>2, <1>4, <2>1, <2>2
  <1> QED BY <1>3, <1>4

\* The head taken off counts one less.
LEMMA CountTail ==
    ASSUME NEW S, NEW seq \in Seq(S), seq # <<>>, NEW e
    PROVE  Count(seq, e) = (IF Head(seq) = e THEN 1 ELSE 0) + Count(Tail(seq), e)
  <1> DEFINE here == {n \in 1..Len(Tail(seq)) : Tail(seq)[n] = e}
             there == {n \in 1..Len(seq) : seq[n] = e}
             f == [n \in here |-> n + 1]
  <1>1. /\ Len(seq) \in Nat \ {0} /\ Len(Tail(seq)) = Len(seq) - 1
        /\ Head(seq) = seq[1]
        /\ \A n \in 1..(Len(seq) - 1) : Tail(seq)[n] = seq[n + 1]
        /\ Tail(seq) \in Seq(S)
    OBVIOUS
  <1>2. IsFiniteSet(here) /\ Cardinality(here) \in Nat
    BY <1>1, CountType DEF Count
  <1>3. f \in Bijection(here, there \ {1})
    <2>1. \A n \in here : n \in Nat /\ n + 1 \in there \ {1}
      BY <1>1
    <2>2. \A m \in there \ {1} : m - 1 \in here /\ m = (m - 1) + 1
      BY <1>1
    <2>3. f \in [here -> there \ {1}]
      BY <2>1
    <2>4. \A n, m \in here : f[n] = f[m] => n = m
      BY <2>1
    <2>5. \A m \in there \ {1} : \E n \in here : f[n] = m
      BY <2>2
    <2> HIDE DEF here, there, f
    <2> QED BY <2>3, <2>4, <2>5, Fun_IsBij
  <1>4. /\ IsFiniteSet(there \ {1})
        /\ Cardinality(there \ {1}) = Cardinality(here)
    <2> HIDE DEF here, there, f
    <2>1. ExistsBijection(here, there \ {1})
      BY <1>3 DEF ExistsBijection
    <2> QED BY <1>2, <2>1, FS_Bijection
  <1>5. Count(Tail(seq), e) = Cardinality(here) /\ Count(seq, e) = Cardinality(there)
    BY DEF Count
  <1>6. CASE Head(seq) = e
    <2>1. there = (there \ {1}) \cup {1}
      BY <1>1, <1>6
    <2>2. Cardinality(there) = Cardinality(there \ {1}) + 1
      <3> HIDE DEF here, there, f
      <3> QED BY <1>4, <2>1, FS_AddElement
    <2> HIDE DEF here, there, f
    <2> QED BY <1>2, <1>4, <1>5, <1>6, <2>2
  <1>7. CASE Head(seq) # e
    <2>1. there = there \ {1}
      BY <1>1, <1>7
    <2> HIDE DEF here, there, f
    <2>2. Cardinality(there) = Cardinality(there \ {1})
      BY <2>1, Zenon
    <2> QED BY <1>2, <1>4, <1>5, <1>7, <2>2
  <1> QED BY <1>6, <1>7

\* The same of sequences of events.
LEMMA EventCounts ==
    ASSUME NEW e
    PROVE  /\ \A seq \in Seq(Events) : Count(seq, e) \in Nat
           /\ \A seq \in Seq(Events), x \in Events :
                 Count(Append(seq, x), e) = Count(seq, e) + (IF x = e THEN 1 ELSE 0)
           /\ \A seq \in Seq(Events) : seq # <<>> =>
                 /\ Tail(seq) \in Seq(Events) /\ Head(seq) \in Events
                 /\ Count(seq, e) = (IF Head(seq) = e THEN 1 ELSE 0) + Count(Tail(seq), e)
           /\ Count(<<>>, e) = 0
           /\ \A x \in Events : Count(<<x>>, e) = IF x = e THEN 1 ELSE 0
  <1>1. \A seq \in Seq(Events) : Count(seq, e) \in Nat
    BY CountType
  <1>2. ASSUME NEW seq \in Seq(Events), NEW x \in Events
        PROVE  Count(Append(seq, x), e) = Count(seq, e) + (IF x = e THEN 1 ELSE 0)
    BY CountAppend
  <1>3. ASSUME NEW seq \in Seq(Events), seq # <<>>
        PROVE  /\ Tail(seq) \in Seq(Events) /\ Head(seq) \in Events
               /\ Count(seq, e) = (IF Head(seq) = e THEN 1 ELSE 0) + Count(Tail(seq), e)
    BY <1>3, CountTail
  <1>4. Count(<<>>, e) = 0
    BY CountNone
  <1>5. ASSUME NEW x \in Events PROVE Count(<<x>>, e) = IF x = e THEN 1 ELSE 0
    <2>1. Append(<<>>, x) = <<x>> /\ <<>> \in Seq(Events)
      OBVIOUS
    <2>2. Count(Append(<<>>, x), e) = Count(<<>>, e) + (IF x = e THEN 1 ELSE 0)
      BY <1>2, <2>1
    <2>3. Count(Append(<<>>, x), e) = Count(<<x>>, e)
      BY <2>1
    <2> QED BY <1>4, <2>2, <2>3
  <1> QED BY <1>1, <1>2, <1>3, <1>4, <1>5

-----------------------------------------------------------------------------
(* The inductive invariant.                                                *)

\* The publishes under way carry different events, all of them published.
CarryInv ==
    /\ \A t \in Threads : /\ carries[t] <= published
                          /\ todo[t] # {} => carries[t] # 0
    /\ \A t, u \in Threads : t # u /\ carries[t] = carries[u] => carries[t] = 0

\* No stream has or owes an event that is yet to be published.
Past(seq) == \A n \in 1..Len(seq) : seq[n] <= published

PastInv ==
    \A s \in Streams : /\ \A e \in owed[s] : e <= published
                       /\ Past(sent[s]) /\ Past(held[s]) /\ Past(queue[s])

\* A stream that is not open owes nothing; an open one holds at most one event.
OpenInv ==
    \A s \in Streams : /\ at[s] = "unopened" => s \notin subs /\ owed[s] = {}
                       /\ Len(held[s]) <= 1

IInv == TypeOK /\ CarryInv /\ PastInv /\ OpenInv /\ NothingLostOrTwice

-----------------------------------------------------------------------------
(* Types.                                                                  *)

LEMMA InitIInv == ASSUME Init PROVE IInv
  <1>1. TypeOK /\ CarryInv /\ PastInv /\ OpenInv
    BY EventsAssumption DEF Init, TypeOK, CarryInv, PastInv, Past, OpenInv, Running, Events
  <1>2. NothingLostOrTwice
    BY DEF Init, NothingLostOrTwice
  <1> QED BY <1>1, <1>2 DEF IInv

LEMMA TypeStep == ASSUME TypeOK, CarryInv, Next PROVE TypeOK'
  <1> USE DEF Goto, loopVars, threadVars
  <1>0. MaxEvents \in Nat /\ NoStream \notin Streams
    BY EventsAssumption
  <1>1. ASSUME NEW t \in Threads, Publish(t) PROVE TypeOK'
    <2>1. published' \in Events /\ published' \in 0..MaxEvents
      BY <1>0, <1>1 DEF Publish, TypeOK, Events
    <2>2. owed' \in [Streams -> SUBSET Events]
      BY <1>1, <2>1 DEF Publish, TypeOK
    <2> QED BY <1>1, <2>1, <2>2 DEF Publish, TypeOK
  <1>2. ASSUME NEW t \in Threads, NEW s \in Streams, PutNowait(t, s) PROVE TypeOK'
    <2>1. carries[t] \in Events
      BY <1>0, <1>2 DEF PutNowait, TypeOK, CarryInv, Events
    <2> QED BY <1>2, <2>1 DEF PutNowait, TypeOK
  <1>3. ASSUME NEW t \in Threads, WakeGetter(t) PROVE TypeOK'
    BY <1>3 DEF WakeGetter, TypeOK
  <1>4. ASSUME NEW s \in Streams, Subscribe(s) PROVE TypeOK'
    BY <1>4 DEF Subscribe, TypeOK, Running
  <1>5. ASSUME NEW s \in Streams, Start(s) \/ NeverStarts(s) \/ FindEmpty(s) PROVE TypeOK'
    BY <1>5 DEF Start, NeverStarts, FindEmpty, TypeOK, Running
  <1>6. ASSUME NEW s \in Streams, CheckDisconnected(s) PROVE TypeOK'
    BY <1>6 DEF CheckDisconnected, TypeOK, Running
  <1>7. ASSUME NEW s \in Streams, GetHead(s) PROVE TypeOK'
    <2>1. Head(queue[s]) \in Events /\ Tail(queue[s]) \in Seq(Events)
      BY <1>7, HeadTailProperties DEF GetHead, TypeOK
    <2> HIDE DEF Events
    <2>2. <<Head(queue[s])>> \in Seq(Events) /\ <<Head(queue[s])>> # <<>>
      BY <2>1
    <2> QED BY <1>7, <2>1, <2>2 DEF GetHead, TypeOK, Running
  <1>8. ASSUME NEW s \in Streams, RegisterGetter(s) PROVE TypeOK'
    BY <1>8 DEF RegisterGetter, TypeOK, Running
  <1>9. ASSUME NEW s \in Streams, Resume(s) \/ Timeout(s) PROVE TypeOK'
    <2>1. /\ getter' = [getter EXCEPT ![s] = "none"] /\ at[s] = "asleep"
          /\ at' = [at EXCEPT ![s] = "get"] \/ at' = [at EXCEPT ![s] = "check"]
          /\ UNCHANGED <<subs, queue, held, client, sent, threadVars>>
      BY <1>9 DEF Resume, Timeout
    <2> QED BY <2>1 DEF TypeOK, Running
  <1>10. ASSUME NEW s \in Streams, Send(s) PROVE TypeOK'
    <2>1. sent' \in [Streams -> Seq(Events)]
      BY <1>10 DEF Send, TypeOK
    <2> QED BY <1>10, <2>1 DEF Send, TypeOK, Running
  <1>11. ASSUME NEW s \in Streams, Cancel(s) PROVE TypeOK'
    BY <1>11 DEF Cancel, TypeOK, Running
  <1>12. ASSUME NEW s \in Streams, Finally(s) PROVE TypeOK'
    BY <1>12 DEF Finally, Unsubscribed, TypeOK, Running
  <1>13. ASSUME NEW s \in Streams, Disconnect(s) PROVE TypeOK'
    BY <1>13 DEF Disconnect, TypeOK
  <1> QED
    BY <1>1, <1>2, <1>3, <1>4, <1>5, <1>6, <1>7, <1>8, <1>9, <1>10, <1>11,
       <1>12, <1>13 DEF Next, LoopStep


-----------------------------------------------------------------------------
(* Where events are.                                                       *)

\* What only a step of the loop does to a sequence of a stream.
LEMMA PastSequences ==
    ASSUME TypeOK, PastInv, NEW s \in Streams
    PROVE  /\ queue[s] # <<>> => Past(<<Head(queue[s])>>) /\ Past(Tail(queue[s]))
           /\ Past(<<>>)
           /\ Past(sent[s] \o held[s])
           /\ \A e \in Events : e <= published => Past(Append(queue[s], e))
  <1>1. /\ queue[s] \in Seq(Events) /\ held[s] \in Seq(Events) /\ sent[s] \in Seq(Events)
        /\ Past(queue[s]) /\ Past(held[s]) /\ Past(sent[s])
    BY DEF TypeOK, PastInv
  <1>2. queue[s] # <<>> => Past(<<Head(queue[s])>>) /\ Past(Tail(queue[s]))
    BY <1>1 DEF Past
  <1>3. Past(<<>>)
    BY DEF Past
  <1>4. Past(sent[s] \o held[s])
    <2> DEFINE m == Len(sent[s])
               k == Len(held[s])
    <2>1. /\ Len(sent[s] \o held[s]) = m + k
          /\ \A n \in 1..(m + k) : (sent[s] \o held[s])[n] =
               IF n <= m THEN sent[s][n] ELSE held[s][n - m]
      BY <1>1, ConcatProperties, Zenon
    <2>2. m \in Nat /\ k \in Nat
      BY <1>1
    <2>3. ASSUME NEW n \in 1..(m + k) PROVE (sent[s] \o held[s])[n] <= published
      <3>1. CASE n <= m
        <4>1. n \in 1..m
          BY <2>2, <3>1
        <4> QED BY <1>1, <2>1, <3>1, <4>1 DEF Past
      <3>2. CASE ~(n <= m)
        <4>1. n - m \in 1..k
          <5> HIDE DEF m, k
          <5> QED BY <2>2, <2>3, <3>2
        <4>2. (sent[s] \o held[s])[n] = held[s][n - m]
          BY <2>1, <3>2
        <4>3. held[s][n - m] <= published
          BY <1>1, <4>1 DEF Past
        <4> QED BY <4>2, <4>3
      <3> QED BY <3>1, <3>2
    <2> QED BY <2>1, <2>3 DEF Past
  <1>5. \A e \in Events : e <= published => Past(Append(queue[s], e))
    BY <1>1 DEF Past
  <1> QED BY <1>2, <1>3, <1>4, <1>5

LEMMA CarryStep == ASSUME TypeOK, CarryInv, Next PROVE CarryInv'
  <1>1. ASSUME NEW t \in Threads, Publish(t) PROVE CarryInv'
    <2>1. /\ published \in Nat /\ published' = published + 1
          /\ carries' = [carries EXCEPT ![t] = published + 1]
          /\ todo' = [todo EXCEPT ![t] = subs]
          /\ \A u \in Threads : carries[u] \in Nat /\ carries[u] <= published
      BY <1>1 DEF Publish, TypeOK, CarryInv
    <2> QED BY <2>1 DEF CarryInv, TypeOK
  <1>2. ASSUME NEW t \in Threads, NEW s \in Streams, PutNowait(t, s) PROVE CarryInv'
    BY <1>2 DEF PutNowait, TypeOK, CarryInv
  <1>3. CASE UNCHANGED <<carries, published, todo>>
    BY <1>3 DEF CarryInv
  <1> QED
    BY <1>1, <1>2, <1>3 DEF Next, LoopStep, WakeGetter, Subscribe, Resume, Cancel, Disconnect,
       Start, NeverStarts, CheckDisconnected, GetHead, FindEmpty, RegisterGetter, Timeout, Send,
       Finally, threadVars

LEMMA PastStep == ASSUME TypeOK, CarryInv, PastInv, Next PROVE PastInv'
  <1> USE DEF loopVars, threadVars
  <1>1. ASSUME NEW t \in Threads, Publish(t) PROVE PastInv'
    <2>1. /\ published \in Nat /\ published' = published + 1
          /\ UNCHANGED <<queue, sent, held>>
          /\ \A s \in Streams : owed'[s] \subseteq owed[s] \cup {published + 1}
          /\ \A s \in Streams : owed[s] \subseteq Nat
      BY <1>1 DEF Publish, TypeOK, Events
    <2>2. \A seq \in Seq(Events) : \A n \in 1..Len(seq) : seq[n] \in Nat
      <3>1. Events \subseteq Nat
        BY DEF Events
      <3>2. \A seq \in Seq(Events) : \A n \in 1..Len(seq) : seq[n] \in Events
        OBVIOUS
      <3> QED BY <3>1, <3>2
    <2>3. \A seq \in Seq(Events) :
             (\A n \in 1..Len(seq) : seq[n] <= published)
             => \A n \in 1..Len(seq) : seq[n] <= published + 1
      BY <2>1, <2>2
    <2>4. \A s \in Streams : \A e \in owed'[s] : e <= published'
      BY <2>1 DEF PastInv
    <2>5. ASSUME NEW s \in Streams PROVE (Past(sent[s]) /\ Past(held[s]) /\ Past(queue[s]))'
      <3>1. sent[s] \in Seq(Events) /\ held[s] \in Seq(Events) /\ queue[s] \in Seq(Events)
        BY DEF TypeOK
      <3> QED BY <2>1, <2>3, <3>1 DEF PastInv, Past
    <2> QED BY <2>4, <2>5 DEF PastInv
  <1>2. ASSUME NEW t \in Threads, NEW s \in Streams, PutNowait(t, s) PROVE PastInv'
    <2>1. /\ carries[t] \in Events /\ carries[t] <= published
          /\ queue' = [queue EXCEPT ![s] = Append(@, carries[t])]
          /\ UNCHANGED <<sent, held, owed, published>>
      BY <1>2, EventsAssumption DEF PutNowait, TypeOK, CarryInv, Events
    <2>2. Past(Append(queue[s], carries[t]))
      BY <2>1, PastSequences
    <2> QED BY <2>1, <2>2 DEF PastInv, Past, TypeOK
  <1>3. ASSUME NEW s \in Streams, GetHead(s) PROVE PastInv'
    <2>1. /\ held' = [held EXCEPT ![s] = <<Head(queue[s])>>]
          /\ queue' = [queue EXCEPT ![s] = Tail(@)]
          /\ UNCHANGED <<sent, owed, published>>
      BY <1>3 DEF GetHead
    <2>2. Past(<<Head(queue[s])>>) /\ Past(Tail(queue[s]))
      BY <1>3, PastSequences DEF GetHead
    <2> QED BY <2>1, <2>2 DEF PastInv, Past, TypeOK
  <1>4. ASSUME NEW s \in Streams, Send(s) PROVE PastInv'
    <2>1. /\ sent'[s] \in {sent[s], sent[s] \o held[s]}
          /\ held'[s] = <<>>
          /\ \A u \in Streams : u # s => sent'[u] = sent[u] /\ held'[u] = held[u]
          /\ UNCHANGED <<queue, owed, published>>
      BY <1>4 DEF Send, TypeOK
    <2>2. Past(<<>>) /\ Past(sent[s] \o held[s])
      BY PastSequences
    <2> QED BY <2>1, <2>2 DEF PastInv, Past
  <1>5. ASSUME NEW s \in Streams, Cancel(s) PROVE PastInv'
    <2>1. /\ held' = [held EXCEPT ![s] = <<>>] /\ UNCHANGED <<queue, sent, owed, published>>
      BY <1>5 DEF Cancel
    <2>2. Past(<<>>)
      BY PastSequences
    <2> QED BY <2>1, <2>2 DEF PastInv, Past, TypeOK
  <1>6. CASE UNCHANGED <<queue, sent, held, owed, published>>
    BY <1>6 DEF PastInv, Past
  <1> QED
    BY <1>1, <1>2, <1>3, <1>4, <1>5, <1>6 DEF Next, LoopStep, WakeGetter, Subscribe, Resume,
       Disconnect, Start, NeverStarts, CheckDisconnected, FindEmpty, RegisterGetter, Timeout,
       Finally

LEMMA OpenStep == ASSUME TypeOK, OpenInv, Next PROVE OpenInv'
  <1> USE DEF loopVars, threadVars, Goto
  <1>1. ASSUME NEW t \in Threads, Publish(t) PROVE OpenInv'
    BY <1>1 DEF Publish, OpenInv
  <1>2. ASSUME NEW s \in Streams, GetHead(s) PROVE OpenInv'
    <2>1. /\ held'[s] = <<Head(queue[s])>> /\ at'[s] = "send"
          /\ \A u \in Streams : u # s => held'[u] = held[u] /\ at'[u] = at[u]
          /\ UNCHANGED <<subs, owed>>
      BY <1>2 DEF GetHead, TypeOK
    <2>2. Len(held'[s]) <= 1
      BY <2>1
    <2> QED BY <2>1, <2>2 DEF OpenInv
  <1>3. ASSUME NEW s \in Streams, Send(s) \/ Cancel(s) PROVE OpenInv'
    <2>1. /\ held'[s] = <<>> /\ at'[s] # "unopened"
          /\ \A u \in Streams : u # s => held'[u] = held[u] /\ at'[u] = at[u]
          /\ UNCHANGED <<subs, owed>>
      BY <1>3 DEF Send, Cancel, TypeOK
    <2>2. Len(held'[s]) <= 1
      BY <2>1
    <2> QED BY <2>1, <2>2 DEF OpenInv
  <1>4. ASSUME NEW s \in Streams,
               \/ Subscribe(s) \/ Finally(s) \/ Resume(s) \/ Start(s) \/ NeverStarts(s)
               \/ CheckDisconnected(s) \/ FindEmpty(s) \/ RegisterGetter(s) \/ Timeout(s)
        PROVE  OpenInv'
    <2>1. /\ at'[s] # "unopened" /\ UNCHANGED <<held, owed>>
          /\ \A u \in Streams : u # s => at'[u] = at[u] /\ (u \in subs' => u \in subs)
      BY <1>4 DEF Subscribe, Finally, Unsubscribed, Resume, Start, NeverStarts,
         CheckDisconnected, FindEmpty, RegisterGetter, Timeout, TypeOK
    <2> QED BY <2>1 DEF OpenInv
  <1>5. CASE UNCHANGED <<subs, at, held, owed>>
    BY <1>5 DEF OpenInv
  <1> QED
    BY <1>1, <1>2, <1>3, <1>4, <1>5 DEF Next, LoopStep, WakeGetter, PutNowait, Disconnect


-----------------------------------------------------------------------------
(* Nothing is lost or sent twice.                                          *)

\* The publishes that have still to reach a stream with an event.
Carriers(s, e) == {t \in Threads : carries[t] = e /\ s \in todo[t]}

\* An event is published once.
LEMMA OneCarrier ==
    ASSUME CarryInv, NEW s \in Streams, NEW e, e # 0
    PROVE  /\ Carriers(s, e) = {} \/ \E t \in Threads : Carriers(s, e) = {t}
           /\ Cardinality(Carriers(s, e)) = IF Carriers(s, e) = {} THEN 0 ELSE 1
  <1>1. Carriers(s, e) = {} \/ \E t \in Threads : Carriers(s, e) = {t}
    BY DEF CarryInv, Carriers
  <1> QED BY <1>1, FS_EmptySet, FS_Singleton

\* Where an event can be, in numbers.
LEMMA OccurrencesSum ==
    ASSUME TypeOK, CarryInv, NEW s \in Streams, NEW e, e # 0
    PROVE  /\ Occurrences(s, e) = Count(sent[s], e) + Count(held[s], e) + Count(queue[s], e)
                                  + Cardinality(Carriers(s, e))
           /\ Count(sent[s], e) \in Nat /\ Count(held[s], e) \in Nat
           /\ Count(queue[s], e) \in Nat /\ Cardinality(Carriers(s, e)) \in {0, 1}
  <1>1. sent[s] \in Seq(Events) /\ held[s] \in Seq(Events) /\ queue[s] \in Seq(Events)
    BY DEF TypeOK
  <1>2. Count(sent[s], e) \in Nat /\ Count(held[s], e) \in Nat /\ Count(queue[s], e) \in Nat
    BY <1>1, CountType
  <1>3. Cardinality(Carriers(s, e)) \in {0, 1}
    BY OneCarrier
  <1> QED BY <1>2, <1>3 DEF Occurrences, Count, Carriers

\* A step that moves no event and publishes none.
LEMMA LostQuiet ==
    ASSUME NothingLostOrTwice, UNCHANGED <<sent, held, queue, carries, todo, owed>>,
           \A s \in Streams : client'[s] = "connected" => client[s] = "connected" \/ owed[s] = {}
    PROVE  NothingLostOrTwice'
  <1>1. ASSUME NEW s \in Streams, client'[s] = "connected", NEW e \in owed'[s]
        PROVE  Occurrences(s, e)' = 1
    <2>1. client[s] = "connected" /\ e \in owed[s]
      BY <1>1
    <2>2. Occurrences(s, e)' = Occurrences(s, e)
      BY DEF Occurrences
    <2> QED BY <2>1, <2>2 DEF NothingLostOrTwice
  <1> QED BY <1>1 DEF NothingLostOrTwice

\* A step that moves events of one stream only, keeping their numbers.
LEMMA LostMoved ==
    ASSUME IInv, TypeOK', CarryInv', NEW s \in Streams, UNCHANGED <<client, owed>>,
           \A u \in Streams : u # s =>
              /\ sent'[u] = sent[u] /\ held'[u] = held[u] /\ queue'[u] = queue[u]
              /\ \A e : Carriers(u, e)' = Carriers(u, e),
           \A e \in owed[s] : client[s] = "connected" =>
              Count(sent[s], e)' + Count(held[s], e)' + Count(queue[s], e)'
                 + Cardinality(Carriers(s, e))'
              = Count(sent[s], e) + Count(held[s], e) + Count(queue[s], e)
                + Cardinality(Carriers(s, e))
    PROVE  NothingLostOrTwice'
  <1>1. ASSUME NEW u \in Streams, client'[u] = "connected", NEW e \in owed'[u]
        PROVE  Occurrences(u, e)' = 1
    <2>1. e # 0
      BY <1>1 DEF TypeOK, Events
    <2>2. client[u] = "connected" /\ e \in owed[u] /\ Occurrences(u, e) = 1
      BY <1>1 DEF IInv, NothingLostOrTwice
    <2>3. Occurrences(u, e) = Count(sent[u], e) + Count(held[u], e) + Count(queue[u], e)
                              + Cardinality(Carriers(u, e))
      BY <2>1, OccurrencesSum DEF IInv
    <2>4. Occurrences(u, e)' = Count(sent[u], e)' + Count(held[u], e)' + Count(queue[u], e)'
                               + Cardinality(Carriers(u, e))'
      BY DEF Occurrences, Count, Carriers
    <2>5. CASE u = s
      BY <2>2, <2>3, <2>4, <2>5
    <2>6. CASE u # s
      <3>1. /\ Count(sent[u], e)' = Count(sent[u], e) /\ Count(held[u], e)' = Count(held[u], e)
            /\ Count(queue[u], e)' = Count(queue[u], e)
            /\ Cardinality(Carriers(u, e))' = Cardinality(Carriers(u, e))
        BY <2>6
      <3> QED BY <2>2, <2>3, <2>4, <3>1
    <2> QED BY <2>5, <2>6
  <1> QED BY <1>1 DEF NothingLostOrTwice

LEMMA LostPublish ==
    ASSUME IInv, NEW t \in Threads, Publish(t), TypeOK', CarryInv'
    PROVE  NothingLostOrTwice'
  <1> DEFINE new == published + 1
  <1>1. /\ published \in Nat /\ carries' = [carries EXCEPT ![t] = new]
        /\ todo[t] = {} /\ todo' = [todo EXCEPT ![t] = subs]
        /\ owed' = [s \in Streams |-> IF s \in subs THEN owed[s] \cup {new} ELSE owed[s]]
        /\ UNCHANGED <<sent, held, queue, client>>
    BY DEF Publish, IInv, TypeOK, loopVars
  <1>2. ASSUME NEW s \in Streams, client'[s] = "connected", NEW e \in owed'[s]
        PROVE  Occurrences(s, e)' = 1
    <2>1. Occurrences(s, e)' = Count(sent[s], e) + Count(held[s], e) + Count(queue[s], e)
                               + Cardinality(Carriers(s, e)')
      BY <1>1 DEF Occurrences, Count, Carriers
    <2>2. CASE e \in owed[s]
      <3>1. e # new /\ e # 0
        BY <1>1, <2>2 DEF IInv, PastInv, TypeOK, Events
      <3>2. Carriers(s, e)' = Carriers(s, e)
        BY <1>1, <3>1 DEF Carriers, IInv, TypeOK
      <3>3. Occurrences(s, e) = 1
        BY <1>1, <1>2, <2>2 DEF IInv, NothingLostOrTwice
      <3> QED BY <2>1, <3>1, <3>2, <3>3, OccurrencesSum DEF IInv
    <2>3. CASE e \notin owed[s]
      <3>1. e = new /\ s \in subs
        BY <1>1, <1>2, <2>3
      <3>2. Carriers(s, e)' = {t}
        <4>1. \A u \in Threads : carries[u] # new
          BY <1>1 DEF IInv, CarryInv, TypeOK
        <4> QED BY <1>1, <3>1, <4>1 DEF Carriers, IInv, TypeOK
      <3>3. Cardinality(Carriers(s, e)') = 1
        BY <3>2, FS_Singleton
      <3>4. /\ \A n \in 1..Len(sent[s]) : sent[s][n] # new
            /\ \A n \in 1..Len(held[s]) : held[s][n] # new
            /\ \A n \in 1..Len(queue[s]) : queue[s][n] # new
        BY <1>1 DEF IInv, PastInv, Past
      <3>5. Count(sent[s], e) = 0 /\ Count(held[s], e) = 0 /\ Count(queue[s], e) = 0
        BY <3>1, <3>4, CountNone
      <3> QED BY <2>1, <3>3, <3>5
    <2> QED BY <2>2, <2>3
  <1> QED BY <1>2 DEF NothingLostOrTwice

LEMMA LostPut ==
    ASSUME IInv, NEW t \in Threads, NEW s \in Streams, PutNowait(t, s), TypeOK', CarryInv'
    PROVE  NothingLostOrTwice'
  <1> DEFINE x == carries[t]
  <1>1. /\ x \in Events /\ x # 0 /\ s \in todo[t]
        /\ queue' = [queue EXCEPT ![s] = Append(@, x)]
        /\ todo' = [todo EXCEPT ![t] = @ \ {s}]
        /\ UNCHANGED <<sent, held, client, owed, carries>>
        /\ queue[s] \in Seq(Events)
    BY EventsAssumption DEF PutNowait, IInv, TypeOK, CarryInv, Events, loopVars
  <1>2. \A u \in Streams : u # s => queue'[u] = queue[u] /\ \A e : Carriers(u, e)' = Carriers(u, e)
    BY <1>1 DEF Carriers, IInv, TypeOK
  <1>3. ASSUME NEW e \in owed[s]
        PROVE  Count(sent[s], e)' + Count(held[s], e)' + Count(queue[s], e)'
                  + Cardinality(Carriers(s, e))'
               = Count(sent[s], e) + Count(held[s], e) + Count(queue[s], e)
                 + Cardinality(Carriers(s, e))
    <2>1. e # 0
      BY DEF IInv, TypeOK, Events
    <2>2. queue'[s] = Append(queue[s], x)
      BY <1>1 DEF IInv, TypeOK
    <2>3. Count(queue'[s], e) = Count(queue[s], e) + (IF x = e THEN 1 ELSE 0)
      BY <1>1, <2>2, CountAppend
    <2>4. Count(sent'[s], e) = Count(sent[s], e) /\ Count(held'[s], e) = Count(held[s], e)
      BY <1>1
    <2>5. Cardinality(Carriers(s, e)) = Cardinality(Carriers(s, e)') + (IF x = e THEN 1 ELSE 0)
      <3>1. CASE x = e
        <4>1. Carriers(s, e) = {t}
          <5>1. CarryInv /\ t \in Carriers(s, e)
            BY <1>1, <3>1 DEF Carriers, IInv
          <5> QED BY <2>1, <5>1, OneCarrier
        <4>2. Carriers(s, e)' = {}
          BY <1>1, <4>1 DEF Carriers, IInv, TypeOK
        <4>3. Cardinality(Carriers(s, e)) = 1 /\ Cardinality(Carriers(s, e)') = 0
          BY <4>1, <4>2, FS_EmptySet, FS_Singleton
        <4> QED BY <3>1, <4>3
      <3>2. CASE x # e
        <4>1. Carriers(s, e)' = Carriers(s, e)
          BY <1>1, <3>2 DEF Carriers, IInv, TypeOK
        <4> QED BY <2>1, <3>2, <4>1, OccurrencesSum DEF IInv
      <3> QED BY <3>1, <3>2
    <2>6. /\ Count(sent[s], e) \in Nat /\ Count(held[s], e) \in Nat /\ Count(queue[s], e) \in Nat
          /\ Cardinality(Carriers(s, e)) \in {0, 1}
      BY <2>1, OccurrencesSum DEF IInv
    <2>7. Cardinality(Carriers(s, e)') \in {0, 1}
      <3>1. \A u, w \in Threads : u \in Carriers(s, e)' /\ w \in Carriers(s, e)' => u = w
        BY <2>1 DEF CarryInv, Carriers
      <3>2. Carriers(s, e)' = {} \/ \E u \in Threads : Carriers(s, e)' = {u}
        BY <3>1 DEF Carriers
      <3> QED BY <3>2, FS_EmptySet, FS_Singleton
    <2> QED BY <2>3, <2>4, <2>5, <2>6, <2>7
  <1> QED BY <1>1, <1>2, <1>3, LostMoved

LEMMA LostGetHead ==
    ASSUME IInv, NEW s \in Streams, GetHead(s), TypeOK', CarryInv'
    PROVE  NothingLostOrTwice'
  <1>1. /\ held[s] = <<>> /\ held'[s] = <<Head(queue[s])>> /\ queue'[s] = Tail(queue[s])
        /\ queue[s] \in Seq(Events) /\ queue[s] # <<>>
        /\ \A u \in Streams : u # s => held'[u] = held[u] /\ queue'[u] = queue[u]
        /\ UNCHANGED <<sent, client, owed, carries, todo>>
    BY DEF GetHead, IInv, TypeOK, threadVars
  <1>2. \A u \in Streams : \A e : Carriers(u, e)' = Carriers(u, e)
    BY <1>1 DEF Carriers
  <1>3. ASSUME NEW e \in owed[s]
        PROVE  Count(sent[s], e)' + Count(held[s], e)' + Count(queue[s], e)'
                  + Cardinality(Carriers(s, e))'
               = Count(sent[s], e) + Count(held[s], e) + Count(queue[s], e)
                 + Cardinality(Carriers(s, e))
    <2>1. e # 0
      BY DEF IInv, TypeOK, Events
    <2>2. /\ Count(queue[s], e) = (IF Head(queue[s]) = e THEN 1 ELSE 0) + Count(Tail(queue[s]), e)
          /\ Tail(queue[s]) \in Seq(Events) /\ Head(queue[s]) \in Events
      BY <1>1, EventCounts
    <2>3. Count(<<>>, e) = 0
      BY EventCounts
    <2>4. Count(<<Head(queue[s])>>, e) = IF Head(queue[s]) = e THEN 1 ELSE 0
      BY <2>2, EventCounts
    <2>5. Count(Tail(queue[s]), e) \in Nat
      BY <2>2, EventCounts
    <2>6. /\ Count(sent[s], e) \in Nat /\ Cardinality(Carriers(s, e)) \in {0, 1}
      BY <2>1, OccurrencesSum DEF IInv
    <2> QED BY <1>1, <1>2, <2>2, <2>3, <2>4, <2>5, <2>6
  <1> QED BY <1>1, <1>2, <1>3, LostMoved

LEMMA LostSend ==
    ASSUME IInv, NEW s \in Streams, Send(s), TypeOK', CarryInv'
    PROVE  NothingLostOrTwice'
  <1>1. /\ held'[s] = <<>> /\ sent'[s] = IF client[s] = "gone" THEN sent[s] ELSE sent[s] \o held[s]
        /\ \A u \in Streams : u # s => held'[u] = held[u] /\ sent'[u] = sent[u]
        /\ UNCHANGED <<queue, client, owed, carries, todo>>
        /\ held[s] \in Seq(Events) /\ sent[s] \in Seq(Events)
        /\ held[s] # <<>> /\ Len(held[s]) <= 1
    BY DEF Send, IInv, TypeOK, OpenInv, threadVars
  <1>2. \A u \in Streams : \A e : Carriers(u, e)' = Carriers(u, e)
    BY <1>1 DEF Carriers
  <1>3. PICK x \in Events : held[s] = <<x>>
    <2> DEFINE one == held[s]
    <2>1. one \in Seq(Events) /\ one # <<>> /\ Len(one) <= 1
      BY <1>1
    <2> HIDE DEF one
    <2>2. Len(one) = 1
      <3> DEFINE len == Len(one)
      <3>1. len \in Nat /\ len # 0
        BY <2>1, EmptySeq
      <3>2. len <= 1
        BY <2>1
      <3> HIDE DEF len
      <3>3. len = 1
        BY <3>1, <3>2
      <3> QED BY <3>3 DEF len
    <2>3. one[1] \in Events /\ one = <<one[1]>>
      BY <2>1, <2>2
    <2> QED BY <2>3 DEF one
  <1>4. ASSUME NEW e \in owed[s], client[s] = "connected"
        PROVE  Count(sent[s], e)' + Count(held[s], e)' + Count(queue[s], e)'
                  + Cardinality(Carriers(s, e))'
               = Count(sent[s], e) + Count(held[s], e) + Count(queue[s], e)
                 + Cardinality(Carriers(s, e))
    <2>1. e # 0
      BY DEF IInv, TypeOK, Events
    <2>2. Count(<<>>, e) = 0
      BY EventCounts
    <2>3. sent'[s] = Append(sent[s], x)
      BY <1>1, <1>3, <1>4, AppendIsConcat
    <2>4. Count(sent'[s], e) = Count(sent[s], e) + (IF x = e THEN 1 ELSE 0)
      <3>1. Count(Append(sent[s], x), e) = Count(sent[s], e) + (IF x = e THEN 1 ELSE 0)
        BY <1>1, EventCounts
      <3> QED BY <2>3, <3>1
    <2>5. Count(held[s], e) = IF x = e THEN 1 ELSE 0
      BY <1>3, EventCounts
    <2>6. /\ Count(sent[s], e) \in Nat /\ Count(queue[s], e) \in Nat
          /\ Cardinality(Carriers(s, e)) \in {0, 1}
      BY <2>1, OccurrencesSum DEF IInv
    <2> QED BY <1>1, <1>2, <2>2, <2>4, <2>5, <2>6
  <1> QED BY <1>1, <1>2, <1>4, LostMoved

LEMMA LostStep == ASSUME IInv, Next, TypeOK', CarryInv' PROVE NothingLostOrTwice'
  <1>1. ASSUME NEW t \in Threads, Publish(t) PROVE NothingLostOrTwice'
    BY <1>1, LostPublish
  <1>2. ASSUME NEW t \in Threads, NEW s \in Streams, PutNowait(t, s) PROVE NothingLostOrTwice'
    BY <1>2, LostPut
  <1>3. ASSUME NEW s \in Streams, GetHead(s) PROVE NothingLostOrTwice'
    BY <1>3, LostGetHead
  <1>4. ASSUME NEW s \in Streams, Send(s) PROVE NothingLostOrTwice'
    BY <1>4, LostSend
  <1>5. ASSUME NEW s \in Streams, Cancel(s) PROVE NothingLostOrTwice'
    <2>1. /\ client[s] = "gone" /\ UNCHANGED <<sent, queue, carries, todo, owed, client>>
          /\ \A u \in Streams : u # s => held'[u] = held[u]
      BY <1>5 DEF Cancel, threadVars, IInv, TypeOK
    <2> QED BY <1>5, <2>1, LostMoved DEF Carriers
  <1>6. ASSUME NEW s \in Streams, Subscribe(s) PROVE NothingLostOrTwice'
    <2>1. /\ UNCHANGED <<sent, held, queue, carries, todo, owed>> /\ owed[s] = {}
          /\ \A u \in Streams : u # s => client'[u] = client[u]
      BY <1>6 DEF Subscribe, threadVars, IInv, TypeOK, OpenInv
    <2> QED BY <2>1, LostQuiet DEF IInv
  <1>7. ASSUME NEW s \in Streams, Disconnect(s) PROVE NothingLostOrTwice'
    <2>1. /\ UNCHANGED <<sent, held, queue, carries, todo, owed>>
          /\ \A u \in Streams : client'[u] = "connected" => client[u] = "connected"
      BY <1>7 DEF Disconnect, threadVars, IInv, TypeOK
    <2> QED BY <2>1, LostQuiet DEF IInv
  <1>8. CASE UNCHANGED <<sent, held, queue, carries, todo, owed, client>>
    BY <1>8, LostQuiet DEF IInv
  <1> QED
    BY <1>1, <1>2, <1>3, <1>4, <1>5, <1>6, <1>7, <1>8 DEF Next, LoopStep, WakeGetter, Resume,
       Start, NeverStarts, CheckDisconnected, FindEmpty, RegisterGetter, Timeout, Finally,
       loopVars, threadVars

-----------------------------------------------------------------------------
(* The theorem.                                                            *)

LEMMA StutterIInv == ASSUME IInv, UNCHANGED vars PROVE IInv'
  <1> USE DEF IInv, vars
  <1>1. TypeOK' /\ CarryInv' /\ PastInv' /\ OpenInv'
    BY DEF TypeOK, CarryInv, PastInv, Past, OpenInv
  <1>2. NothingLostOrTwice'
    BY LostQuiet
  <1> QED BY <1>1, <1>2

\* An open stream has sent, holds or has queued what was published since it
\* subscribed, or a publish is on its way with it, and each event once.
THEOREM StreamsCorrect == Spec => []StreamsSound
  <1>1. Init => IInv
    BY InitIInv
  <1>2. IInv /\ [Next]_vars => IInv'
    BY TypeStep, CarryStep, PastStep, OpenStep, LostStep, StutterIInv DEF IInv
  <1>3. IInv => StreamsSound
    BY DEF IInv, StreamsSound
  <1> QED BY <1>1, <1>2, <1>3, PTL DEF Spec

-----------------------------------------------------------------------------
(* The inductive invariant of the fleet's pushes.                          *)

Calls == [pc : {"idle", "list", "create", "write", "compile", "done", "failed"},
          backend : Backends \union {None}, name : Names \union {None},
          created : BOOLEAN, at : Nat]
Builds == [state : States, at : Nat, lines : 0..LogSize, kept : BOOLEAN]
Records == [log : Nat, finished : BOOLEAN, ok : BOOLEAN]

FleetShape ==
    /\ push \in [Pushes -> Calls] /\ job \in [Pushes -> Builds]
    /\ file \in [Backends -> [Names -> Nat]] /\ pending \subseteq Names
    /\ image \in [Names -> Nat] /\ djob \in [Pushes -> Records \union {None}]

\* A call is of a server and a device from its beginning, and what it wrote is
\* not newer than the file; its build is asked for when it is over.
CallOK(p) ==
    /\ push[p].pc # "idle" =>
          push[p].backend \in Backends /\ push[p].name \in Names /\ push[p].at <= FileOf(p)
    /\ job[p].state # None \/ djob[p] # None => push[p].pc \in {"done", "failed"}

\* A build read the file after its push wrote it.
BuildOK(p) ==
    /\ job[p].state = None => job[p] = NoJob
    /\ job[p].at > 0 \/ job[p].state \in {"working", "success"} =>
          push[p].at <= job[p].at /\ job[p].at <= FileOf(p)

\* A device's dashboard builds run one after the other, each reading a file at
\* least as new as the image before it.
ImageOK(p) ==
    /\ \A q \in Pushes :
          job[p].state = "working" /\ job[q].state = "working"
          /\ push[p].backend = push[q].backend /\ NameOf(p) = NameOf(q) => p = q
    /\ job[p].state = "working" /\ push[p].backend = "dashboard" => image[NameOf(p)] <= job[p].at

\* A record follows its build at the dashboard.
RecordOK(p) ==
    djob[p] # None =>
        /\ push[p].backend = "dashboard" /\ djob[p].log <= job[p].lines
        /\ djob[p].ok => job[p].state = "success" /\ push[p].at <= image[NameOf(p)]

FleetInv ==
    /\ FleetShape
    /\ \A p \in Pushes : CallOK(p) /\ BuildOK(p) /\ ImageOK(p) /\ RecordOK(p)
    /\ \A n \in Names : image[n] <= file["dashboard"][n]

-----------------------------------------------------------------------------
(* The inductive invariant of the dialog.                                  *)

Chunks == [run : Own, from : Nat, to : Nat]
Frames == [kind : {"data", "error"}, chunk : Chunks, finished : BOOLEAN]
Sources == [open : BOOLEAN, at : Nat, wire : Seq(Frames), serving : BOOLEAN]

DialogShape ==
    /\ shown \in Own \union {None} /\ choice \in Backends /\ pushing \in Own \union {None}
    /\ text \in Seq(Chunks) /\ finished \in BOOLEAN /\ failed \in BOOLEAN
    /\ verdict \in Verdicts \union {None}
    /\ ask \in [run : Own \union {None}, value : Verdicts \union {None, Taken}]
    /\ stream \in [Own -> Sources]

\* A run on the screen is that of a push that is over; no other is waited for.
ShownInv ==
    /\ shown # None => push[shown].pc = "done" /\ pushing = None
    /\ pushing # None => push[pushing].pc # "idle"

\* A verdict, and the request for one, are of the run on the screen.
VerdictInv ==
    /\ ask.run # None => ask.run = shown
    /\ ask.run = None => ask.value = None
    /\ shown = None => verdict = None
    /\ "passed" \in {verdict, ask.value} => job[shown].state = "success"

\* A stream carries its own run's log, frame after frame, and those of the run
\* on the screen go on where the screen stops.
Fits(p, s) ==
    /\ s.serving \/ s.wire # <<>> => s.open
    /\ \A i \in 1..Len(s.wire) :
          /\ s.wire[i].chunk.run = p
          /\ i < Len(s.wire) \/ s.serving => s.wire[i].kind = "data" /\ ~s.wire[i].finished
          /\ s.wire[i].kind = "data" /\ ~s.wire[i].finished => s.wire[i].chunk.from < s.wire[i].chunk.to
          /\ i > 1 /\ s.wire[i].kind = "data" => s.wire[i].chunk.from = s.wire[i - 1].chunk.to
    /\ s.serving /\ s.wire # <<>> => s.wire[Len(s.wire)].chunk.to = s.at
    /\ shown = p =>
          /\ s.serving /\ s.wire = <<>> => ReadTo(text, Len(text), p, s.at)
          /\ s.wire # <<>> /\ s.wire[1].kind = "data" => ReadTo(text, Len(text), p, s.wire[1].chunk.from)

WireInv == \A p \in Own : Fits(p, stream[p])

DialogInv == DialogShape /\ ShownInv /\ VerdictInv /\ WireInv /\ LogOfTheRun
-----------------------------------------------------------------------------
(* Steps of the servers and of the calls.                                  *)

\* A step of a call that leaves the builds alone; what it wrote is in the file.
LEMMA CallStep ==
    ASSUME FleetInv, NEW p \in Pushes, NEW r \in Calls, push' = [push EXCEPT ![p] = r],
           UNCHANGED <<job, djob, image>>, pending' \subseteq Names,
           file' \in [Backends -> [Names -> Nat]],
           \A b \in Backends, n \in Names : file[b][n] <= file'[b][n],
           \/ push[p].pc = "idle"
           \/ r.backend = push[p].backend /\ r.name = push[p].name /\ push[p].pc \notin {"done", "failed"},
           r.pc # "idle", r.backend \in Backends, r.name \in Names,
           r.at <= file'[r.backend][r.name]
    PROVE  FleetInv'
  <1>1. \A q \in Pushes : push'[q] = IF q = p THEN r ELSE push[q]
    BY DEF FleetInv, FleetShape
  <1>2. FleetShape'
    BY DEF FleetInv, FleetShape
  <1>3. job[p].state = None /\ job[p] = NoJob /\ djob[p] = None
    BY DEF FleetInv, CallOK, BuildOK
  <1>4. ASSUME NEW q \in Pushes PROVE CallOK(q)'
    <2>1. CallOK(q) /\ push[q] \in Calls
      BY DEF FleetInv, FleetShape
    <2>2. CASE q = p
      BY <1>1, <1>3, <2>2 DEF CallOK, FileOf, NameOf, Calls, NoJob
    <2>3. CASE q # p
      BY <1>1, <2>1, <2>3 DEF CallOK, FileOf, NameOf, Calls, FleetInv, FleetShape
    <2> QED BY <2>2, <2>3
  <1>5. ASSUME NEW q \in Pushes PROVE BuildOK(q)'
    <2>1. BuildOK(q) /\ CallOK(q) /\ push[q] \in Calls /\ job[q] \in Builds
      BY DEF FleetInv, FleetShape
    <2>2. CASE q = p
      BY <1>1, <1>3, <2>2, FleetAssumption DEF BuildOK, NoJob
    <2>3. CASE q # p
      BY <1>1, <2>1, <2>3, FleetAssumption DEF BuildOK, CallOK, FileOf, NameOf, Calls, FleetInv, FleetShape, Builds, NoJob
    <2> QED BY <2>2, <2>3
  <1>6. ASSUME NEW q \in Pushes PROVE ImageOK(q)' /\ RecordOK(q)'
    <2>1. ImageOK(q) /\ RecordOK(q) /\ push[q] \in Calls
      BY DEF FleetInv, FleetShape
    <2>2. \A s \in Pushes : job[s].state = "working" => s # p
      BY <1>3, FleetAssumption
    <2> QED BY <1>1, <1>3, <2>1, <2>2, FleetAssumption DEF ImageOK, RecordOK, NameOf, NoJob
  <1>7. \A n \in Names : image'[n] <= file'["dashboard"][n]
    BY DEF FleetInv, FleetShape, Backends
  <1> QED BY <1>2, <1>4, <1>5, <1>6, <1>7 DEF FleetInv

LEMMA BeginStep ==
    ASSUME FleetInv, NEW p \in Pushes, NEW b \in Backends, NEW n \in Names, Begin(p, b, n)
    PROVE  FleetInv'
  <1>1. PICK pc \in {"list", "failed"} :
            push' = [push EXCEPT ![p] = [NoPush EXCEPT !.pc = pc, !.backend = b, !.name = n]]
    BY DEF Begin
  <1> DEFINE r == [NoPush EXCEPT !.pc = pc, !.backend = b, !.name = n]
  <1>2. /\ r \in Calls /\ r.pc = pc /\ r.backend = b /\ r.name = n /\ r.at = 0
        /\ push[p].pc = "idle" /\ UNCHANGED <<file, pending, job, image, djob>>
    BY DEF Begin, NoPush, Calls
  <1>3. push' = [push EXCEPT ![p] = r]
    BY <1>1
  <1> HIDE DEF r
  <1>4. /\ file' \in [Backends -> [Names -> Nat]] /\ pending' \subseteq Names
        /\ \A c \in Backends, m \in Names : file[c][m] <= file'[c][m]
        /\ r.at <= file'[r.backend][r.name]
    BY <1>2 DEF FleetInv, FleetShape
  <1> QED BY <1>2, <1>3, <1>4, CallStep

\* A request before the write, answered or lost, and those that end a call.
LEMMA RequestStep ==
    ASSUME FleetInv, NEW p \in Pushes,
           \/ List(p) \/ Create(p) \/ CreateRefused(p) \/ WriteRefused(p) \/ TimesOut(p) \/ HangUp(p)
    PROVE  FleetInv'
  <1>1. /\ push[p] \in Calls /\ push[p].pc \notin {"idle", "done", "failed"}
        /\ push[p].backend \in Backends /\ push[p].name \in Names
        /\ push[p].at <= file[push[p].backend][push[p].name]
    BY DEF FleetInv, FleetShape, CallOK, FileOf, NameOf, List, Create, CreateRefused, WriteRefused,
           TimesOut, HangUp, Busy
  <1>2. UNCHANGED <<file, job, image, djob>> /\ pending' \subseteq Names
    BY <1>1 DEF FleetInv, FleetShape, NameOf, List, Create, CreateRefused, WriteRefused, TimesOut, HangUp
  <1> DEFINE Goes(r) == /\ push' = [push EXCEPT ![p] = r] /\ r.pc # "idle"
                        /\ r.backend = push[p].backend /\ r.name = push[p].name
                        /\ r.at = push[p].at
  <1>3. \E r \in Calls : Goes(r)
    <2>1. Failed(p) \in Calls /\ Failed(p).pc = "failed" /\ Failed(p).backend = push[p].backend
          /\ Failed(p).name = push[p].name /\ Failed(p).at = push[p].at
      BY <1>1 DEF Failed, Calls
    <2>2. CASE push' = [push EXCEPT ![p] = Failed(p)]
      BY <2>1, <2>2
    <2>3. ASSUME List(p), push' # [push EXCEPT ![p] = Failed(p)] PROVE \E r \in Calls : Goes(r)
      <3>1. PICK pc \in {"create", "write"}, new \in BOOLEAN :
                push' = [push EXCEPT ![p] = [[push[p] EXCEPT !.created = new] EXCEPT !.pc = pc]]
        BY <2>3 DEF List, Step
      <3> DEFINE r == [[push[p] EXCEPT !.created = new] EXCEPT !.pc = pc]
      <3>2. r \in Calls /\ r.pc = pc /\ r.backend = push[p].backend /\ r.name = push[p].name
            /\ r.at = push[p].at
        BY <1>1 DEF Calls
      <3> QED BY <3>1, <3>2
    <2>4. ASSUME Create(p), push' # [push EXCEPT ![p] = Failed(p)] PROVE \E r \in Calls : Goes(r)
      <3>1. push' = [push EXCEPT ![p] = [push[p] EXCEPT !.pc = "write"]]
        BY <2>4 DEF Create, Step
      <3> DEFINE r == [push[p] EXCEPT !.pc = "write"]
      <3>2. r \in Calls /\ r.pc = "write" /\ r.backend = push[p].backend /\ r.name = push[p].name
            /\ r.at = push[p].at
        BY <1>1 DEF Calls
      <3> QED BY <3>1, <3>2
    <2> QED BY <2>2, <2>3, <2>4 DEF CreateRefused, WriteRefused, TimesOut, HangUp
  <1>4. PICK r \in Calls : Goes(r)
    BY <1>3
  <1>5. /\ file' \in [Backends -> [Names -> Nat]]
        /\ \A c \in Backends, m \in Names : file[c][m] <= file'[c][m]
        /\ r.at <= file'[r.backend][r.name]
    BY <1>1, <1>2, <1>4 DEF FleetInv, FleetShape
  <1> QED BY <1>1, <1>2, <1>4, <1>5, CallStep

LEMMA WriteStep ==
    ASSUME FleetInv, NEW p \in Pushes, Write(p)
    PROVE  FleetInv'
  <1> DEFINE b == push[p].backend
             n == push[p].name
             newer == [push[p] EXCEPT !.at = FileOf(p) + 1]
             kept == [newer EXCEPT !.created = FALSE]
             written == [kept EXCEPT !.pc = AfterWrite(p)]
  <1>1. /\ push[p] \in Calls /\ push[p].pc = "write"
        /\ b \in Backends /\ n \in Names /\ push[p].at <= file[b][n] /\ FileOf(p) = file[b][n]
        /\ file[b][n] \in Nat
    BY DEF FleetInv, FleetShape, CallOK, FileOf, NameOf, Write
  <1>2. UNCHANGED <<job, image, djob>> /\ pending' \subseteq Names
    BY DEF FleetInv, FleetShape, NameOf, Write
  <1>3. /\ file' \in [Backends -> [Names -> Nat]]
        /\ \A c \in Backends, m \in Names : file[c][m] <= file'[c][m]
        /\ file'[b][n] = file[b][n] + 1
    <2>1. file \in [Backends -> [Names -> Nat]]
      BY DEF FleetInv, FleetShape
    <2>2. file' = [file EXCEPT ![b] = [file[b] EXCEPT ![n] = file[b][n] + 1]]
      BY DEF Write, NameOf
    <2> DEFINE row == [file[b] EXCEPT ![n] = file[b][n] + 1]
    <2>3. row \in [Names -> Nat] /\ row[n] = file[b][n] + 1
          /\ \A m \in Names : file[b][m] <= row[m]
      BY <1>1, <2>1
    <2>4. file' = [file EXCEPT ![b] = row]
      BY <2>2
    <2> HIDE DEF row
    <2> QED BY <1>1, <2>1, <2>3, <2>4
  <1>4. PICK r \in Calls : /\ push' = [push EXCEPT ![p] = r] /\ r.pc # "idle"
                           /\ r.backend = b /\ r.name = n /\ r.at <= file'[b][n]
    <2>1. Failed(p) \in Calls /\ Failed(p).pc = "failed" /\ Failed(p).backend = push[p].backend
          /\ Failed(p).name = push[p].name /\ Failed(p).at = push[p].at
      BY <1>1 DEF Failed, Calls
    <2>2. AfterWrite(p) \in {"compile", "done"}
      BY DEF AfterWrite
    <2>3. /\ written \in Calls /\ written.pc = AfterWrite(p) /\ written.backend = b
          /\ written.name = n /\ written.at = file[b][n] + 1
      <3>1. kept \in Calls /\ kept.backend = b /\ kept.name = n /\ kept.at = file[b][n] + 1
        <4>1. newer \in Calls /\ newer.backend = b /\ newer.name = n /\ newer.at = file[b][n] + 1
          BY <1>1 DEF Calls
        <4> HIDE DEF newer
        <4> QED BY <4>1 DEF Calls
      <3> HIDE DEF kept
      <3> QED BY <1>1, <2>2, <3>1 DEF Calls
    <2>4. push' = [push EXCEPT ![p] = Failed(p)] \/ push' = [push EXCEPT ![p] = written]
      <3>1. Step(p, kept, AfterWrite(p))
        BY DEF Write
      <3> HIDE DEF kept
      <3> QED BY <3>1 DEF Step
    <2>5. Failed(p).at <= file'[b][n] /\ written.at <= file'[b][n]
      BY <1>1, <1>3, <2>1, <2>3 DEF Calls
    <2> HIDE DEF written
    <2>6. CASE push' = [push EXCEPT ![p] = Failed(p)]
      BY <2>1, <2>5, <2>6
    <2>7. CASE push' = [push EXCEPT ![p] = written]
      BY <2>2, <2>3, <2>5, <2>7
    <2> QED BY <2>4, <2>6, <2>7
  <1> QED BY <1>1, <1>2, <1>3, <1>4, CallStep

\* A step that sets one build and its record, and the device's image with it.
LEMMA BuildStep ==
    ASSUME FleetInv, NEW p \in Pushes, NEW j \in Builds, NEW d \in Records \union {None},
           job' = [job EXCEPT ![p] = j], djob' = [djob EXCEPT ![p] = d],
           UNCHANGED <<push, file, pending>>,
           push[p].pc \in {"done", "failed"}, j.state = None => j = NoJob,
           j.at > 0 \/ j.state \in {"working", "success"} => push[p].at <= j.at /\ j.at <= FileOf(p),
           image' \in [Names -> Nat],
           \A n \in Names : image[n] <= image'[n] /\ image'[n] <= file["dashboard"][n],
           \A q \in Pushes : job'[q].state = "working" /\ push[q].backend = "dashboard"
               => image'[NameOf(q)] <= job'[q].at,
           j.state = "working" =>
               \A q \in Pushes : job[q].state = "working" /\ push[q].backend = push[p].backend
                                 /\ NameOf(q) = NameOf(p) => q = p,
           d # None => /\ push[p].backend = "dashboard" /\ d.log <= j.lines
                       /\ d.ok => j.state = "success" /\ push[p].at <= image'[NameOf(p)]
    PROVE  FleetInv'
  <1>1. \A q \in Pushes : /\ job'[q] = IF q = p THEN j ELSE job[q]
                          /\ djob'[q] = IF q = p THEN d ELSE djob[q]
    BY DEF FleetInv, FleetShape
  <1>2. FleetShape'
    BY DEF FleetInv, FleetShape
  <1>3. \A q \in Pushes : CallOK(q)'
    BY <1>1 DEF CallOK, FileOf, NameOf, FleetInv
  <1>4. ASSUME NEW q \in Pushes PROVE BuildOK(q)'
    <2>1. BuildOK(q) /\ NoJob' = NoJob /\ FileOf(q)' = FileOf(q) /\ FileOf(p)' = FileOf(p)
      BY DEF FleetInv, FileOf, NameOf, NoJob
    <2>2. CASE q = p
      BY <1>1, <2>1, <2>2 DEF BuildOK
    <2>3. CASE q # p
      BY <1>1, <2>1, <2>3 DEF BuildOK
    <2> QED BY <2>2, <2>3
  <1>5. \A q \in Pushes : ImageOK(q)'
    BY <1>1 DEF ImageOK, NameOf, FleetInv
  <1>6. ASSUME NEW q \in Pushes PROVE RecordOK(q)'
    <2>1. RecordOK(q) /\ CallOK(q) /\ push[q] \in Calls /\ UNCHANGED NameOf(q)
      BY DEF FleetInv, FleetShape, NameOf
    <2>2. CASE q = p
      BY <1>1, <2>1, <2>2 DEF RecordOK
    <2>3. ASSUME q # p, djob[q] # None PROVE RecordOK(q)'
      <3>1. NameOf(q) \in Names
        BY <2>1, <2>3 DEF CallOK, NameOf
      <3>2. image[NameOf(q)] <= image'[NameOf(q)] /\ image[NameOf(q)] \in Nat /\ image'[NameOf(q)] \in Nat
        BY <3>1 DEF FleetInv, FleetShape
      <3> QED BY <1>1, <2>1, <2>3, <3>2 DEF RecordOK, Calls
    <2> QED BY <1>1, <2>2, <2>3 DEF RecordOK
  <1> QED BY <1>2, <1>3, <1>4, <1>5, <1>6 DEF FleetInv, FleetShape

\* What is known of a build that is under way.
LEMMA BuildFacts ==
    ASSUME FleetInv, NEW p \in Pushes
    PROVE  /\ push[p] \in Calls /\ job[p] \in Builds /\ djob[p] \in Records \union {None}
           /\ job' = job => job' = [job EXCEPT ![p] = job[p]]
           /\ djob' = djob => djob' = [djob EXCEPT ![p] = djob[p]]
           /\ job[p].state # None \/ djob[p] # None =>
                 /\ push[p].pc \in {"done", "failed"}
                 /\ push[p].backend \in Backends /\ NameOf(p) \in Names
                 /\ FileOf(p) \in Nat /\ push[p].at <= FileOf(p)
           /\ \A n \in Names : image[n] <= image[n] /\ image[n] <= file["dashboard"][n] /\ image[n] \in Nat
           /\ image' = image => image' \in [Names -> Nat]
           /\ CallOK(p) /\ BuildOK(p) /\ RecordOK(p)
           /\ \A q \in Pushes : ImageOK(q)
  BY DEF FleetInv, FleetShape, CallOK, FileOf, NameOf

\* The build of a call is queued.
LEMMA CompileStep == ASSUME FleetInv, NEW p \in Pushes, Compile(p) PROVE FleetInv'
  <1>1. /\ push[p] \in Calls /\ push[p].pc = "compile"
        /\ push[p].backend \in Backends /\ push[p].name \in Names /\ push[p].at <= FileOf(p)
        /\ job[p] = NoJob /\ job[p].state = None /\ djob[p] = None
    BY DEF Compile, FleetInv, FleetShape, CallOK, BuildOK
  <1>2. PICK r \in Calls : /\ push' = [push EXCEPT ![p] = r] /\ r.pc \in {"done", "failed"}
                           /\ r.backend = push[p].backend /\ r.name = push[p].name /\ r.at = push[p].at
    <2> DEFINE answered == [push[p] EXCEPT !.pc = "done"]
               lost == [push[p] EXCEPT !.pc = "failed"]
    <2>1. /\ answered \in Calls /\ answered.pc = "done" /\ answered.backend = push[p].backend
          /\ answered.name = push[p].name /\ answered.at = push[p].at
      BY <1>1 DEF Calls
    <2>2. /\ Failed(p) \in Calls /\ Failed(p).pc = "failed" /\ Failed(p).backend = push[p].backend
          /\ Failed(p).name = push[p].name /\ Failed(p).at = push[p].at
      <3>1. /\ lost \in Calls /\ lost.pc = "failed" /\ lost.backend = push[p].backend
            /\ lost.name = push[p].name /\ lost.at = push[p].at
        BY <1>1 DEF Calls
      <3>2. Failed(p) = [lost EXCEPT !.created = FALSE]
        BY DEF Failed
      <3> HIDE DEF lost
      <3> QED BY <3>1, <3>2 DEF Calls
    <2>3. push' = [push EXCEPT ![p] = Failed(p)] \/ push' = [push EXCEPT ![p] = answered]
      <3>1. \/ Step(p, push[p], "done")
            \/ push' = [push EXCEPT ![p] = answered]
        BY DEF Compile
      <3> QED BY <3>1 DEF Step
    <2> HIDE DEF answered
    <2>4. CASE push' = [push EXCEPT ![p] = Failed(p)]
      BY <2>2, <2>4
    <2>5. CASE push' = [push EXCEPT ![p] = answered]
      BY <2>1, <2>5
    <2> QED BY <2>3, <2>4, <2>5
  <1>3. PICK j \in Builds, d \in Records \union {None} :
            /\ job' = [job EXCEPT ![p] = j] /\ djob' = [djob EXCEPT ![p] = d]
            /\ j.state \in {None, "pending"} /\ j.at = 0 /\ j.lines = 0
            /\ j.state = None => j = NoJob
            /\ d # None => push[p].backend = "dashboard" /\ d = NoRecord
    <2>1. NoJob \in Builds /\ NoJob.state = None /\ NoJob.at = 0 /\ NoJob.lines = 0
      BY FleetAssumption DEF NoJob, Builds, States
    <2>2. [NoJob EXCEPT !.state = "pending"] \in Builds
      <3>1. "pending" \in States
        BY DEF States, InFlight
      <3> QED BY <2>1, <3>1 DEF Builds
    <2>3. NoRecord \in Records
      BY DEF NoRecord, Records
    <2>4. CASE push[p].backend = "fleet" /\ job' = [job EXCEPT ![p].state = "pending"] /\ djob' = djob
      <3>1. job' = [job EXCEPT ![p] = [NoJob EXCEPT !.state = "pending"]]
        BY <1>1, <2>4
      <3>2. djob' = [djob EXCEPT ![p] = None]
        BY <1>1, <2>4, BuildFacts
      <3> QED BY <1>1, <2>2, <3>1, <3>2 DEF NoJob
    <2>5. CASE push[p].backend = "dashboard" /\ djob' = [djob EXCEPT ![p] = NoRecord] /\ job' = job
      <3>1. job' = [job EXCEPT ![p] = NoJob]
        BY <1>1, <2>5, BuildFacts
      <3> QED BY <2>1, <2>3, <2>5, <3>1
    <2> QED BY <2>4, <2>5 DEF Compile
  <1>4. \A q \in Pushes : /\ push'[q] = IF q = p THEN r ELSE push[q]
                          /\ job'[q] = IF q = p THEN j ELSE job[q]
                          /\ djob'[q] = IF q = p THEN d ELSE djob[q]
                          /\ FileOf(q)' = FileOf(q) /\ NameOf(q)' = NameOf(q)
                          /\ push'[q].backend = push[q].backend /\ push'[q].at = push[q].at
    <2>1. UNCHANGED file
      BY DEF Compile
    <2>2. \A q \in Pushes : /\ push'[q] = IF q = p THEN r ELSE push[q]
                            /\ job'[q] = IF q = p THEN j ELSE job[q]
                            /\ djob'[q] = IF q = p THEN d ELSE djob[q]
      BY <1>2, <1>3 DEF FleetInv, FleetShape
    <2> QED BY <1>2, <2>1, <2>2 DEF FileOf, NameOf
  <1>5. FleetShape' /\ \A n \in Names : image'[n] <= file'["dashboard"][n]
    <2>1. UNCHANGED <<file, pending, image>>
      BY DEF Compile
    <2> QED BY <1>2, <1>3, <2>1 DEF FleetInv, FleetShape
  <1>6. \A q \in Pushes : CallOK(q)'
    BY <1>1, <1>2, <1>4 DEF FleetInv, CallOK
  <1>7. ASSUME NEW q \in Pushes PROVE BuildOK(q)'
    <2>1. BuildOK(q) /\ UNCHANGED NoJob
      BY DEF FleetInv, NoJob
    <2>2. j.state \notin {"working", "success"}
      BY <1>3, FleetAssumption
    <2>3. CASE q = p
      BY <1>3, <1>4, <2>1, <2>2, <2>3 DEF BuildOK
    <2>4. CASE q # p
      BY <1>4, <2>1, <2>4 DEF BuildOK
    <2> QED BY <2>3, <2>4
  <1>8. \A q \in Pushes : ImageOK(q)'
    <2>1. UNCHANGED image
      BY DEF Compile
    <2>2. j.state # "working"
      BY <1>3, FleetAssumption
    <2> QED BY <1>4, <2>1, <2>2 DEF FleetInv, ImageOK
  <1>9. ASSUME NEW q \in Pushes PROVE RecordOK(q)'
    <2>1. RecordOK(q) /\ UNCHANGED image
      BY DEF FleetInv, Compile
    <2>2. NoRecord.log = 0 /\ ~NoRecord.ok
      BY DEF NoRecord
    <2>3. CASE q = p
      BY <1>3, <1>4, <2>2, <2>3 DEF RecordOK
    <2>4. CASE q # p
      BY <1>4, <2>1, <2>4 DEF RecordOK
    <2> QED BY <2>3, <2>4
  <1> QED BY <1>5, <1>6, <1>7, <1>8, <1>9 DEF FleetInv

\* The same, of a step that makes no image.
LEMMA SameImageStep ==
    ASSUME FleetInv, NEW p \in Pushes, NEW j \in Builds, NEW d \in Records \union {None},
           job' = [job EXCEPT ![p] = j], djob' = [djob EXCEPT ![p] = d],
           UNCHANGED <<push, file, pending, image>>,
           job[p].state # None \/ djob[p] # None, j.state = None => j = NoJob,
           j.at > 0 \/ j.state \in {"working", "success"} => push[p].at <= j.at /\ j.at <= FileOf(p),
           \/ j.state # "working"
           \/ job[p].state = "working" /\ j.at = job[p].at
           \/ /\ j.at = FileOf(p)
              /\ \A q \in Pushes : job[q].state = "working" =>
                     ~(push[q].backend = push[p].backend /\ NameOf(q) = NameOf(p)),
           d # None => /\ djob[p] # None /\ d.log <= j.lines
                       /\ d.ok => djob[p].ok /\ j.state = job[p].state
    PROVE  FleetInv'
  <1>1. \A q \in Pushes : job'[q] = IF q = p THEN j ELSE job[q]
    BY DEF FleetInv, FleetShape
  <1>2. push[p].pc \in {"done", "failed"} /\ NameOf(p) \in Names
    BY BuildFacts
  <1>3. /\ image' \in [Names -> Nat]
        /\ \A n \in Names : image[n] <= image'[n] /\ image'[n] <= file["dashboard"][n]
    BY BuildFacts
  <1>4. ASSUME NEW q \in Pushes, job'[q].state = "working", push[q].backend = "dashboard"
        PROVE  image'[NameOf(q)] <= job'[q].at
    <2>1. ImageOK(q) /\ UNCHANGED image
      BY DEF FleetInv
    <2>2. CASE q # p
      BY <1>1, <1>4, <2>1, <2>2 DEF ImageOK
    <2>3. CASE q = p /\ job[p].state = "working" /\ j.at = job[p].at
      BY <1>1, <1>4, <2>1, <2>3 DEF ImageOK
    <2>4. CASE q = p /\ j.at = FileOf(p)
      <3>1. FileOf(p) = file["dashboard"][NameOf(p)] /\ NameOf(q) = NameOf(p)
        BY <1>4, <2>4 DEF FileOf, NameOf
      <3>2. job'[q].at = FileOf(p)
        BY <1>1, <2>4
      <3> QED BY <1>2, <1>3, <3>1, <3>2
    <2> QED BY <1>1, <1>4, <2>2, <2>3, <2>4
  <1>5. j.state = "working" =>
            \A q \in Pushes : job[q].state = "working" /\ push[q].backend = push[p].backend
                              /\ NameOf(q) = NameOf(p) => q = p
    BY DEF FleetInv, ImageOK
  <1>6. d # None => /\ push[p].backend = "dashboard" /\ d.log <= j.lines
                    /\ d.ok => j.state = "success" /\ push[p].at <= image'[NameOf(p)]
    BY DEF FleetInv, RecordOK
  <1> QED BY <1>2, <1>3, <1>4, <1>5, <1>6, BuildStep

\* The dashboard queues the build of a record.
LEMMA FollowStep == ASSUME FleetInv, NEW p \in Pushes, Follow(p) PROVE FleetInv'
  <1> DEFINE j == [job[p] EXCEPT !.state = "pending"]
  <1>1. /\ job[p].state = None /\ djob[p] # None /\ job[p] = NoJob
        /\ job' = [job EXCEPT ![p] = j] /\ djob' = [djob EXCEPT ![p] = djob[p]]
        /\ UNCHANGED <<push, file, pending, image>>
    <2>1. job[p].state = None /\ djob[p] # None /\ djob' = djob /\ BuildOK(p)
      BY BuildFacts DEF Follow
    <2>2. djob' = [djob EXCEPT ![p] = djob[p]]
      BY <2>1, BuildFacts
    <2>3. job' = [job EXCEPT ![p] = j] /\ UNCHANGED <<push, file, pending, image>>
      BY DEF Follow
    <2> HIDE DEF j
    <2> QED BY <2>1, <2>2, <2>3 DEF BuildOK
  <1>2. job[p] \in Builds /\ djob[p] \in Records \union {None}
    BY BuildFacts
  <1>3. j \in Builds /\ j.state = "pending" /\ j.at = 0 /\ j.lines = job[p].lines
    <2>1. "pending" \in States /\ NoJob.at = 0
      BY DEF States, InFlight, NoJob
    <2> QED BY <1>1, <1>2, <2>1 DEF Builds
  <1>4. djob[p] # None => /\ djob[p] # None /\ djob[p].log <= j.lines
                          /\ djob[p].ok => djob[p].ok /\ j.state = job[p].state
    BY <1>1, <1>2, <1>3, BuildFacts, FleetAssumption DEF RecordOK, Records
  <1>5. /\ j.state # None /\ j.state # "working"
        /\ ~(j.at > 0 \/ j.state \in {"working", "success"})
    BY <1>3, FleetAssumption
  <1> HIDE DEF j
  <1> QED BY <1>1, <1>2, <1>3, <1>4, <1>5, SameImageStep

LEMMA WorkStep == ASSUME FleetInv, NEW p \in Pushes, Work(p) PROVE FleetInv'
  <1> DEFINE j == [job[p] EXCEPT !.state = "working", !.at = FileOf(p)]
  <1>1. /\ job[p].state = "pending" /\ job[p].state # None
        /\ job' = [job EXCEPT ![p] = j] /\ djob' = [djob EXCEPT ![p] = djob[p]]
        /\ UNCHANGED <<push, file, pending, image>>
        /\ \A q \in Pushes : job[q].state = "working" =>
               ~(push[q].backend = push[p].backend /\ NameOf(q) = NameOf(p))
    BY BuildFacts, FleetAssumption DEF Work
  <1>2. job[p] \in Builds /\ djob[p] \in Records \union {None}
        /\ FileOf(p) \in Nat /\ push[p].at <= FileOf(p)
    BY <1>1, BuildFacts
  <1>3. j \in Builds /\ j.state = "working" /\ j.at = FileOf(p) /\ j.lines = job[p].lines
    <2> DEFINE taken == [job[p] EXCEPT !.state = "working"]
    <2>1. "working" \in States
      BY DEF States, InFlight
    <2>2. taken \in Builds /\ taken.state = "working" /\ taken.lines = job[p].lines
      BY <1>2, <2>1 DEF Builds
    <2>3. j = [taken EXCEPT !.at = FileOf(p)]
      OBVIOUS
    <2> HIDE DEF taken, j
    <2> QED BY <1>2, <2>2, <2>3 DEF Builds
  <1>4. djob[p] # None => /\ djob[p] # None /\ djob[p].log <= j.lines
                          /\ djob[p].ok => djob[p].ok /\ j.state = job[p].state
    BY <1>1, <1>2, <1>3, BuildFacts DEF RecordOK, Records
  <1>5. j.state # None /\ push[p].at <= j.at /\ j.at <= FileOf(p)
    BY <1>2, <1>3, FleetAssumption
  <1> HIDE DEF j
  <1> QED BY <1>1, <1>2, <1>3, <1>4, <1>5, SameImageStep

LEMMA PrintLineStep == ASSUME FleetInv, NEW p \in Pushes, PrintLine(p) PROVE FleetInv'
  <1> DEFINE j == [job[p] EXCEPT !.lines = @ + 1]
             d == IF Relayed(p) THEN [djob[p] EXCEPT !.log = @ + 1] ELSE djob[p]
  <1>1. /\ job[p].state = "working" /\ job[p].state # None /\ job[p].lines < LogSize
        /\ job' = [job EXCEPT ![p] = j]
        /\ UNCHANGED <<push, file, pending, image>>
    BY FleetAssumption DEF PrintLine
  <1>2. /\ job[p] \in Builds /\ djob[p] \in Records \union {None} /\ BuildOK(p)
        /\ djob[p] # None => djob[p] \in Records /\ djob[p].log <= job[p].lines /\ ~djob[p].ok
    BY <1>1, BuildFacts DEF RecordOK, Records
  <1>3. djob' = [djob EXCEPT ![p] = d]
    <2>1. CASE Relayed(p)
      BY <2>1 DEF PrintLine
    <2>2. CASE ~Relayed(p)
      BY <2>2, BuildFacts DEF PrintLine
    <2> QED BY <2>1, <2>2
  <1>4. j \in Builds /\ j.state = "working" /\ j.at = job[p].at /\ j.lines = job[p].lines + 1
    BY <1>1, <1>2, FleetAssumption DEF Builds
  <1>5. /\ d \in Records \union {None}
        /\ d # None => djob[p] # None /\ d.log <= job[p].lines + 1 /\ ~d.ok
    <2>1. CASE Relayed(p)
      <3>1. djob[p] \in Records /\ djob[p] # None /\ d = [djob[p] EXCEPT !.log = @ + 1]
        BY <1>2, <2>1 DEF Relayed
      <3> QED BY <1>2, <3>1 DEF Records, Builds
    <2>2. CASE ~Relayed(p)
      BY <1>2, <2>2 DEF Builds, Records
    <2> QED BY <2>1, <2>2
  <1>6. push[p].at <= j.at /\ j.at <= FileOf(p)
    BY <1>1, <1>2, <1>4 DEF BuildOK
  <1> HIDE DEF j, d
  <1> QED BY <1>1, <1>3, <1>4, <1>5, <1>6, SameImageStep

LEMMA RelayBreaksStep == ASSUME FleetInv, NEW p \in Pushes, RelayBreaks(p) PROVE FleetInv'
  <1> DEFINE d == [djob[p] EXCEPT !.finished = TRUE]
  <1>1. /\ djob[p] # None /\ job' = [job EXCEPT ![p] = job[p]] /\ djob' = [djob EXCEPT ![p] = d]
        /\ UNCHANGED <<push, file, pending, image>>
    BY BuildFacts DEF RelayBreaks, Relayed
  <1>2. /\ job[p] \in Builds /\ djob[p] \in Records /\ BuildOK(p)
        /\ djob[p].log <= job[p].lines
    BY <1>1, BuildFacts DEF RecordOK
  <1>3. d \in Records /\ d.log = djob[p].log /\ d.ok = djob[p].ok
    BY <1>2 DEF Records
  <1>4. /\ job[p].state = None => job[p] = NoJob
        /\ job[p].at > 0 \/ job[p].state \in {"working", "success"} =>
              push[p].at <= job[p].at /\ job[p].at <= FileOf(p)
    BY <1>2 DEF BuildOK
  <1> HIDE DEF d
  <1> QED BY <1>1, <1>2, <1>3, <1>4, SameImageStep

LEMMA ClearStep == ASSUME FleetInv, NEW p \in Pushes, Clear(p) PROVE FleetInv'
  <1> DEFINE j == [job[p] EXCEPT !.kept = FALSE]
  <1>1. /\ job[p].state # None /\ job' = [job EXCEPT ![p] = j] /\ djob' = [djob EXCEPT ![p] = djob[p]]
        /\ UNCHANGED <<push, file, pending, image>>
    BY BuildFacts DEF Clear, Ended
  <1>2. /\ job[p] \in Builds /\ djob[p] \in Records \union {None} /\ BuildOK(p)
        /\ djob[p] # None => djob[p].log <= job[p].lines
    BY <1>1, BuildFacts DEF RecordOK
  <1>3. j \in Builds /\ j.state = job[p].state /\ j.at = job[p].at /\ j.lines = job[p].lines
    BY <1>2 DEF Builds
  <1>4. j.at > 0 \/ j.state \in {"working", "success"} => push[p].at <= j.at /\ j.at <= FileOf(p)
    BY <1>2, <1>3 DEF BuildOK
  <1> HIDE DEF j
  <1> QED BY <1>1, <1>2, <1>3, <1>4, SameImageStep

\* A build that ends well at the dashboard becomes the device's image.
LEMMA FinishStep ==
    ASSUME FleetInv, NEW p \in Pushes, NEW st \in Outcomes, Finish(p, st) PROVE FleetInv'
  <1> DEFINE j == [job[p] EXCEPT !.state = st]
             d == IF Relayed(p) THEN [[djob[p] EXCEPT !.finished = TRUE] EXCEPT !.ok = st = "success"]
                  ELSE djob[p]
  <1>1. /\ st \in States /\ st \notin {None, "working", "pending"}
        /\ job[p].state \notin {None, "success"}
        /\ st = "success" => job[p].state = "working"
        /\ job' = [job EXCEPT ![p] = j] /\ UNCHANGED <<push, file, pending>>
    BY FleetAssumption DEF Finish, States, Failing
  <1>2. /\ job[p] \in Builds /\ djob[p] \in Records \union {None} /\ BuildOK(p) /\ RecordOK(p)
        /\ push[p].pc \in {"done", "failed"} /\ NameOf(p) \in Names
        /\ push[p].backend \in Backends
    BY <1>1, BuildFacts
  <1>3. /\ j \in Builds /\ j.state = st /\ j.at = job[p].at /\ j.lines = job[p].lines
        /\ job[p].at \in Nat
    BY <1>1, <1>2 DEF Builds
  <1>4. djob' = [djob EXCEPT ![p] = d]
    <2>1. CASE Relayed(p)
      BY <2>1 DEF Finish
    <2>2. CASE ~Relayed(p)
      BY <2>2, BuildFacts DEF Finish
    <2> QED BY <2>1, <2>2
  <1>5. /\ d \in Records \union {None}
        /\ d # None => djob[p] # None /\ d.log = djob[p].log /\ (d.ok => st = "success" \/ djob[p].ok)
    <2>1. CASE Relayed(p)
      <3> DEFINE over == [djob[p] EXCEPT !.finished = TRUE]
      <3>1. djob[p] \in Records /\ djob[p] # None /\ d = [over EXCEPT !.ok = st = "success"]
        BY <1>2, <2>1 DEF Relayed
      <3>2. over \in Records /\ over.log = djob[p].log
        BY <3>1 DEF Records
      <3> HIDE DEF over
      <3> QED BY <3>1, <3>2 DEF Records
    <2>2. CASE ~Relayed(p)
      BY <1>2, <2>2
    <2> QED BY <2>1, <2>2
  <1>6. j.at > 0 \/ j.state \in {"working", "success"} => push[p].at <= j.at /\ j.at <= FileOf(p)
    BY <1>1, <1>2, <1>3 DEF BuildOK
  <1> DEFINE made == st = "success" /\ push[p].backend = "dashboard"
  <1>7. /\ made => image' = [image EXCEPT ![NameOf(p)] = job[p].at]
        /\ ~made => image' = image
    BY DEF Finish
  <1>8. /\ image' \in [Names -> Nat]
        /\ \A n \in Names : image[n] <= image'[n] /\ image'[n] <= file["dashboard"][n]
        /\ made => image'[NameOf(p)] = job[p].at
    <2>1. CASE ~made
      BY <1>7, <2>1, BuildFacts
    <2>2. CASE made
      <3>1. image' = [image EXCEPT ![NameOf(p)] = job[p].at]
        BY <1>7, <2>2
      <3>2. image \in [Names -> Nat] /\ \A n \in Names : image[n] <= file["dashboard"][n]
        BY DEF FleetInv, FleetShape
      <3>3. image[NameOf(p)] <= job[p].at
        BY <1>1, <2>2 DEF FleetInv, ImageOK
      <3>4. job[p].at <= file["dashboard"][NameOf(p)]
        BY <1>1, <1>2, <2>2 DEF BuildOK, FileOf, NameOf
      <3> HIDE DEF made
      <3> QED BY <1>2, <1>3, <3>1, <3>2, <3>3, <3>4, BuildFacts
    <2> QED BY <2>1, <2>2
  <1>9. ASSUME NEW q \in Pushes, job'[q].state = "working", push[q].backend = "dashboard"
        PROVE  image'[NameOf(q)] <= job'[q].at
    <2>1. q # p /\ job'[q] = job[q]
      <3> HIDE DEF j
      <3> QED BY <1>1, <1>3, <1>9 DEF FleetInv, FleetShape
    <2>2. image[NameOf(q)] <= job[q].at /\ NameOf(q) \in Names
      BY <1>9, <2>1, FleetAssumption DEF FleetInv, ImageOK, CallOK, NameOf
    <2>3. made => NameOf(q) # NameOf(p)
      BY <1>1, <1>9, <2>1 DEF FleetInv, ImageOK
    <2>4. image'[NameOf(q)] = image[NameOf(q)]
      <3>1. image \in [Names -> Nat]
        BY DEF FleetInv, FleetShape
      <3> HIDE DEF made
      <3> QED BY <1>7, <2>2, <2>3, <3>1
    <2> QED BY <2>1, <2>2, <2>4
  <1>10. d # None => /\ push[p].backend = "dashboard" /\ d.log <= j.lines
                     /\ d.ok => j.state = "success" /\ push[p].at <= image'[NameOf(p)]
    <2> HAVE d # None
    <2>1. /\ djob[p] # None /\ push[p].backend = "dashboard" /\ djob[p].log <= job[p].lines
          /\ ~djob[p].ok
      <3>1. djob[p] # None /\ djob[p] \in Records
        BY <1>2, <1>5
      <3> QED BY <1>1, <1>2, <3>1 DEF RecordOK, Records
    <2>2. d.ok => st = "success" /\ push[p].at <= image'[NameOf(p)]
      BY <1>1, <1>3, <1>5, <1>6, <1>8, <2>1
    <2> HIDE DEF d, j, made
    <2> QED BY <1>3, <1>5, <2>1, <2>2
  <1> HIDE DEF d, j, made
  <1>11. j.state # None /\ j.state # "working"
    BY <1>1, <1>3
  <1> QED BY <1>1, <1>2, <1>3, <1>4, <1>5, <1>6, <1>8, <1>9, <1>10, <1>11, BuildStep

\* A restart ends the calls and forgets the records.
LEMMA FleetRestartStep == ASSUME FleetInv, FleetRestart PROVE FleetInv'
  <1>1. /\ \A q \in Pushes : /\ push'[q] = IF Busy(q) THEN Failed(q) ELSE push[q]
                             /\ djob'[q] = None
        /\ push' = [q \in Pushes |-> push'[q]] /\ djob' = [q \in Pushes |-> None]
        /\ UNCHANGED <<file, pending, job, image>>
    BY DEF FleetRestart
  <1>2. \A q \in Pushes : /\ push'[q] \in Calls /\ push'[q].backend = push[q].backend
                          /\ push'[q].name = push[q].name /\ push'[q].at = push[q].at
                          /\ push'[q].pc = IF Busy(q) THEN "failed" ELSE push[q].pc
    <2> TAKE q \in Pushes
    <2> DEFINE lost == [push[q] EXCEPT !.pc = "failed"]
    <2>1. push[q] \in Calls
      BY DEF FleetInv, FleetShape
    <2>2. lost \in Calls /\ lost.pc = "failed" /\ lost.backend = push[q].backend
          /\ lost.name = push[q].name /\ lost.at = push[q].at
      BY <2>1 DEF Calls
    <2>3. Failed(q) = [lost EXCEPT !.created = FALSE]
      BY DEF Failed
    <2> HIDE DEF lost
    <2>4. /\ Failed(q) \in Calls /\ Failed(q).pc = "failed" /\ Failed(q).backend = push[q].backend
          /\ Failed(q).name = push[q].name /\ Failed(q).at = push[q].at
      BY <2>2, <2>3 DEF Calls
    <2> QED BY <1>1, <2>1, <2>4
  <1>3. FleetShape' /\ \A n \in Names : image'[n] <= file'["dashboard"][n]
    BY <1>1, <1>2 DEF FleetInv, FleetShape
  <1>4. \A q \in Pushes : /\ NameOf(q)' = NameOf(q) /\ FileOf(q)' = FileOf(q) /\ NoJob' = NoJob
    BY <1>1, <1>2 DEF NameOf, FileOf, NoJob
  <1>5. \A q \in Pushes : CallOK(q)'
    BY <1>1, <1>2, <1>4 DEF FleetInv, CallOK, Busy
  <1>6. \A q \in Pushes : BuildOK(q)' /\ ImageOK(q)' /\ RecordOK(q)'
    BY <1>1, <1>2, <1>4 DEF FleetInv, BuildOK, ImageOK, RecordOK
  <1> QED BY <1>3, <1>5, <1>6 DEF FleetInv

-----------------------------------------------------------------------------
(* The fleet's invariant, over every step.                                 *)

LEMMA FleetInitInv == ASSUME DialogInit PROVE FleetInv
  <1>1. /\ NoPush \in Calls /\ NoPush.pc = "idle" /\ NoJob \in Builds /\ NoJob.state = None /\ NoJob.at = 0
    BY FleetAssumption DEF NoPush, NoJob, Calls, Builds, States
  <1>2. /\ \A p \in Pushes : push[p] = NoPush /\ job[p] = NoJob /\ djob[p] = None
        /\ \A n \in Names : image[n] = 0 /\ file["dashboard"][n] = 0
    BY DEF DialogInit, FleetInit, Backends
  <1>3. FleetShape
    BY <1>1 DEF DialogInit, FleetInit, FleetShape
  <1>4. \A p \in Pushes : CallOK(p) /\ BuildOK(p) /\ ImageOK(p) /\ RecordOK(p)
    BY <1>1, <1>2, FleetAssumption DEF CallOK, BuildOK, ImageOK, RecordOK
  <1> QED BY <1>2, <1>3, <1>4 DEF FleetInv

LEMMA ServerStep == ASSUME FleetInv, NEW p \in Pushes, Server(p) PROVE FleetInv'
  <1>1. CASE \/ List(p) \/ Create(p) \/ CreateRefused(p) \/ WriteRefused(p) \/ TimesOut(p) \/ HangUp(p)
    BY <1>1, RequestStep
  <1>2. CASE Write(p) \/ Compile(p)
    BY <1>2, WriteStep, CompileStep
  <1>3. CASE Follow(p) \/ Work(p) \/ PrintLine(p)
    BY <1>3, FollowStep, WorkStep, PrintLineStep
  <1>4. CASE \E st \in Outcomes : Finish(p, st)
    BY <1>4, FinishStep
  <1>5. CASE RelayBreaks(p) \/ Clear(p)
    BY <1>5, RelayBreaksStep, ClearStep
  <1> QED BY <1>1, <1>2, <1>3, <1>4, <1>5 DEF Server

LEMMA FleetNext ==
    ASSUME FleetInv, choice \in Backends, [DialogNext]_fleetVars
    PROVE  FleetInv'
  <1>1. ASSUME UNCHANGED serverVars PROVE FleetInv'
    BY <1>1 DEF serverVars, FleetInv, FleetShape, CallOK, BuildOK, ImageOK, RecordOK, FileOf, NameOf, NoJob,
                Calls, Builds, Records, States
  <1>2. CASE \E p \in Pushes : Server(p)
    BY <1>2, ServerStep
  <1>3. CASE \E p \in Pushes, b \in Backends, n \in Names : Begin(p, b, n)
    BY <1>3, BeginStep
  <1>4. CASE Restart
    BY <1>4, FleetRestartStep DEF Restart
  <1>5. CASE \E p \in Own, n \in Names : HandlePush(p, n)
    BY <1>3, <1>5, OwnAssumption DEF HandlePush
  <1>6. CASE \/ PushAnswered \/ SwitchBackend \/ AskVerdict \/ ServeVerdict \/ ReceiveVerdict
             \/ \E p \in Own : Relay(p) \/ RelayError(p) \/ Receive(p) \/ StreamBreaks(p)
    BY <1>1, <1>6 DEF PushAnswered, SwitchBackend, AskVerdict, ServeVerdict, ReceiveVerdict, Relay, RelayError,
                      Receive, StreamBreaks
  <1>7. CASE UNCHANGED fleetVars
    BY <1>1, <1>7 DEF fleetVars
  <1> QED BY <1>2, <1>3, <1>4, <1>5, <1>6, <1>7 DEF DialogNext, AgentPush

-----------------------------------------------------------------------------
(* Steps of the dialog.                                                    *)

\* A push stays over, and a build successful.
Keeps ==
    \A q \in Pushes : /\ push[q].pc = "done" => push'[q].pc = "done"
                      /\ push[q].pc # "idle" => push'[q].pc # "idle"
                      /\ job[q].state = "success" => job'[q].state = "success"

LEMMA FleetKeeps ==
    ASSUME FleetInv, \/ \E p \in Pushes : Server(p)
                     \/ \E p \in Pushes, b \in Backends, n \in Names : Begin(p, b, n)
                     \/ FleetRestart
    PROVE  Keeps
  <1>1. \A q \in Pushes : Failed(q).pc = "failed"
    <2> TAKE q \in Pushes
    <2>1. push[q] \in Calls
      BY DEF FleetInv, FleetShape
    <2> DEFINE lost == [push[q] EXCEPT !.pc = "failed"]
    <2>2. lost \in Calls /\ lost.pc = "failed"
      BY <2>1 DEF Calls
    <2>3. Failed(q) = [lost EXCEPT !.created = FALSE]
      BY DEF Failed
    <2> HIDE DEF lost
    <2> QED BY <2>2, <2>3 DEF Calls
  <1>2. ASSUME NEW p \in Pushes, NEW r, push' = [push EXCEPT ![p] = r], push[p].pc # "done",
               r.pc # "idle", job' = job
        PROVE  Keeps
    BY <1>2 DEF Keeps, FleetInv, FleetShape
  <1>3. ASSUME push' = push, NEW p \in Pushes, NEW j, job' = [job EXCEPT ![p] = j],
               job[p].state = "success" => j.state = "success"
        PROVE  Keeps
    BY <1>3 DEF Keeps, FleetInv, FleetShape
  <1>4. ASSUME NEW p \in Pushes, NEW r, NEW pc, Step(p, r, pc), push[p].pc # "done", job' = job,
               r \in Calls, pc # "idle"
        PROVE  Keeps
    <2>1. [r EXCEPT !.pc = pc].pc = pc
      BY <1>4 DEF Calls
    <2> QED BY <1>1, <1>2, <1>4, <2>1 DEF Step
  <1>5. ASSUME NEW p \in Pushes, Server(p) PROVE Keeps
    <2>1. push[p] \in Calls /\ job[p] \in Builds
      BY DEF FleetInv, FleetShape
    <2>2. CASE List(p)
      <3>1. PICK new \in BOOLEAN, pc \in {"create", "write"} : Step(p, [push[p] EXCEPT !.created = new], pc)
        BY <2>2 DEF List
      <3>2. [push[p] EXCEPT !.created = new] \in Calls
        BY <2>1 DEF Calls
      <3> QED BY <1>4, <2>2, <3>1, <3>2 DEF List
    <2>3. CASE Create(p)
      BY <1>4, <2>1, <2>3 DEF Create
    <2>4. CASE Write(p)
      <3> DEFINE kept == [push[p] EXCEPT !.at = FileOf(p) + 1, !.created = FALSE]
                 newer == [push[p] EXCEPT !.at = FileOf(p) + 1]
      <3>1. /\ newer \in Calls
        <4>1. FileOf(p) \in Nat
          BY <2>4 DEF Write, FileOf, NameOf, FleetInv, FleetShape, CallOK
        <4> QED BY <2>1, <4>1 DEF Calls
      <3>2. kept = [newer EXCEPT !.created = FALSE]
        OBVIOUS
      <3>3. Step(p, kept, AfterWrite(p)) /\ AfterWrite(p) # "idle" /\ push[p].pc = "write" /\ job' = job
        BY <2>4 DEF Write, AfterWrite
      <3> HIDE DEF kept, newer
      <3>4. kept \in Calls
        BY <3>1, <3>2 DEF Calls
      <3> QED BY <1>4, <3>3, <3>4
    <2>5. CASE CreateRefused(p) \/ WriteRefused(p) \/ TimesOut(p) \/ HangUp(p)
      BY <1>1, <1>2, <2>5 DEF CreateRefused, WriteRefused, TimesOut, HangUp, Busy
    <2>6. CASE Compile(p)
      <3>1. job[p].state = None /\ push[p].pc = "compile"
        BY <2>6 DEF Compile, FleetInv, CallOK
      <3>2. job[p].state # "success"
        BY <3>1, FleetAssumption
      <3>3. \A q \in Pushes : job[q].state = "success" => job'[q].state = "success"
        BY <2>6, <3>2 DEF Compile, FleetInv, FleetShape
      <3>4. [push[p] EXCEPT !.pc = "done"].pc = "done"
        BY <2>1 DEF Calls
      <3>5. \/ push' = [push EXCEPT ![p] = [push[p] EXCEPT !.pc = "done"]]
            \/ push' = [push EXCEPT ![p] = Failed(p)]
        <4>1. \/ Step(p, push[p], "done")
              \/ push' = [push EXCEPT ![p] = [push[p] EXCEPT !.pc = "done"]]
          BY <2>6 DEF Compile
        <4> QED BY <4>1 DEF Step
      <3>6. PICK r : push' = [push EXCEPT ![p] = r] /\ r.pc \in {"done", "failed"}
        BY <1>1, <3>4, <3>5
      <3>7. \A q \in Pushes : push'[q] = push[q] \/ (q = p /\ push'[q].pc \in {"done", "failed"})
        <4>1. push \in [Pushes -> Calls]
          BY DEF FleetInv, FleetShape
        <4> QED BY <3>6, <4>1
      <3> QED BY <3>1, <3>3, <3>7 DEF Keeps
    <2>7. CASE Follow(p)
      BY <1>3, <2>7, FleetAssumption DEF Follow
    <2>8. CASE Work(p)
      BY <1>3, <2>8 DEF Work
    <2>9. CASE PrintLine(p)
      BY <1>3, <2>9 DEF PrintLine
    <2>10. CASE \E st \in Outcomes : Finish(p, st)
      BY <1>3, <2>10 DEF Finish
    <2>11. CASE RelayBreaks(p)
      BY <2>11 DEF RelayBreaks, Keeps
    <2>12. CASE Clear(p)
      <3>1. [job[p] EXCEPT !.kept = FALSE].state = job[p].state
        BY <2>1 DEF Builds
      <3> QED BY <1>3, <2>12, <3>1 DEF Clear
    <2> QED BY <1>5, <2>2, <2>3, <2>4, <2>5, <2>6, <2>7, <2>8, <2>9, <2>10, <2>11, <2>12 DEF Server
  <1>6. ASSUME NEW p \in Pushes, NEW b \in Backends, NEW n \in Names, Begin(p, b, n) PROVE Keeps
    <2>1. PICK pc \in {"list", "failed"} :
              push' = [push EXCEPT ![p] = [NoPush EXCEPT !.pc = pc, !.backend = b, !.name = n]]
      BY <1>6 DEF Begin
    <2>2. [NoPush EXCEPT !.pc = pc, !.backend = b, !.name = n].pc = pc
      BY DEF NoPush
    <2> QED BY <1>2, <1>6, <2>1, <2>2 DEF Begin
  <1>7. CASE FleetRestart
    <2>1. \A q \in Pushes : push'[q] = IF Busy(q) THEN Failed(q) ELSE push[q]
      BY <1>7 DEF FleetRestart
    <2> QED BY <1>1, <1>7, <2>1 DEF FleetRestart, Keeps, Busy
  <1> QED BY <1>5, <1>6, <1>7

\* Of a dialog that shows no run no verdict is known.
LEMMA PassedIsShown ==
    ASSUME DialogInv, "passed" \in {verdict, ask.value}
    PROVE  shown \in Own /\ job[shown].state = "success"
  <1>1. shown # None
    BY FleetAssumption DEF DialogInv, VerdictInv
  <1> QED BY <1>1 DEF DialogInv, DialogShape, VerdictInv

\* A step that leaves the dialog alone.
LEMMA DialogStands == ASSUME DialogInv, Keeps, UNCHANGED dialogVars PROVE DialogInv'
  <1> USE DEF dialogVars
  <1>1. DialogShape'
    BY DEF DialogInv, DialogShape, Sources, Frames, Chunks, Verdicts
  <1>2. ShownInv'
    BY OwnAssumption DEF DialogInv, DialogShape, ShownInv, Keeps
  <1>3. VerdictInv'
    <2>1. "passed" \in {verdict, ask.value} => job'[shown].state = "success"
      BY PassedIsShown, OwnAssumption DEF Keeps
    <2> QED BY <2>1 DEF DialogInv, VerdictInv
  <1>4. WireInv' /\ LogOfTheRun'
    BY DEF DialogInv, WireInv, Fits, LogOfTheRun, ReadTo
  <1> QED BY <1>1, <1>2, <1>3, <1>4 DEF DialogInv

\* A step that leaves the servers alone.
LEMMA NothingKeeps == ASSUME UNCHANGED serverVars PROVE Keeps
  BY DEF serverVars, Keeps

LEMMA BeginFacts ==
    ASSUME FleetInv, NEW p \in Pushes, NEW b \in Backends, NEW n \in Names, Begin(p, b, n)
    PROVE  Keeps /\ push'[p].pc # "idle" /\ push[p].pc = "idle"
  <1>1. PICK pc \in {"list", "failed"} :
            push' = [push EXCEPT ![p] = [NoPush EXCEPT !.pc = pc, !.backend = b, !.name = n]]
    BY DEF Begin
  <1>2. [NoPush EXCEPT !.pc = pc, !.backend = b, !.name = n].pc = pc
    BY DEF NoPush
  <1> QED BY <1>1, <1>2, FleetKeeps DEF Begin, FleetInv, FleetShape

\* The steps that show no run.
LEMMA NothingShown ==
    ASSUME DialogInv, Keeps, shown' = None, verdict' = None, ask' = Quiet, choice' \in Backends,
           pushing' \in Own \union {None}, pushing' # None => push'[pushing'].pc # "idle",
           text' \in {text, <<>>}, UNCHANGED <<finished, failed, stream>>
    PROVE  DialogInv'
  <1>1. text' \in Seq(Chunks)
    <2>1. text \in Seq(Chunks) /\ <<>> \in Seq(Chunks)
      BY DEF DialogInv, DialogShape
    <2> QED BY <2>1
  <1>2. DialogShape'
    BY <1>1 DEF DialogInv, DialogShape, Sources, Frames, Chunks, Verdicts, Quiet, Backends, Taken
  <1>3. ShownInv' /\ VerdictInv'
    BY FleetAssumption DEF ShownInv, VerdictInv, Quiet
  <1>4. ASSUME NEW p \in Own PROVE Fits(p, stream[p])'
    <2>1. p # None
      BY FleetAssumption, OwnAssumption
    <2> QED BY <2>1 DEF DialogInv, WireInv, Fits
  <1>5. WireInv' /\ LogOfTheRun'
    BY <1>4 DEF WireInv, LogOfTheRun
  <1> QED BY <1>2, <1>3, <1>5 DEF DialogInv

LEMMA HandlePushStep ==
    ASSUME FleetInv, DialogInv, NEW p \in Own, NEW n \in Names, HandlePush(p, n)
    PROVE  DialogInv'
  <1>1. p \in Pushes /\ choice \in Backends /\ Begin(p, choice, n)
    BY OwnAssumption DEF DialogInv, DialogShape, HandlePush
  <1>2. Keeps /\ push'[p].pc # "idle"
    BY <1>1, BeginFacts
  <1> QED BY <1>1, <1>2, NothingShown DEF HandlePush, DropAsk

LEMMA SwitchBackendStep == ASSUME DialogInv, SwitchBackend PROVE DialogInv'
  <1>1. Keeps
    BY NothingKeeps DEF SwitchBackend
  <1>2. pushing \in Own \union {None} /\ (pushing # None => push[pushing].pc # "idle")
    BY DEF DialogInv, DialogShape, ShownInv
  <1>3. push' = push
    BY DEF SwitchBackend, serverVars
  <1> QED BY <1>1, <1>2, <1>3, NothingShown DEF SwitchBackend, DropAsk

\* The answer of a push; the run's log begins with nothing on the screen.
LEMMA PushAnsweredStep == ASSUME DialogInv, PushAnswered PROVE DialogInv'
  <1> DEFINE run == [Closed EXCEPT !.open = TRUE, !.serving = TRUE]
  <1>0. /\ pushing \in Own /\ pushing # None /\ pushing' = None /\ shown = None
        /\ UNCHANGED <<push, job, choice, verdict, ask>> /\ verdict = None /\ ask.run = None /\ ask.value = None
    BY DEF PushAnswered, DialogInv, DialogShape, ShownInv, VerdictInv, serverVars
  <1>1. CASE UNCHANGED <<shown, text, finished, failed, stream>>
    <2>1. DialogShape'
      BY <1>0, <1>1 DEF DialogInv, DialogShape, Sources, Frames, Chunks, Verdicts, Backends, Taken
    <2>2. ShownInv' /\ VerdictInv'
      BY <1>0, <1>1, FleetAssumption DEF ShownInv, VerdictInv
    <2>3. WireInv' /\ LogOfTheRun'
      BY <1>0, <1>1 DEF DialogInv, WireInv, Fits, LogOfTheRun, ReadTo
    <2> QED BY <2>1, <2>2, <2>3 DEF DialogInv
  <1>2. ASSUME HasRun(pushing), shown' = pushing, text' = <<>>, finished' = FALSE, failed' = FALSE,
               stream' = [stream EXCEPT ![pushing] = run]
        PROVE  DialogInv'
    <2>1. run.open /\ run.at = 0 /\ run.wire = <<>> /\ run.serving /\ run \in Sources
      <3> DEFINE opened == [Closed EXCEPT !.open = TRUE]
      <3>1. Closed \in Sources /\ Closed.at = 0 /\ Closed.wire = <<>>
        BY DEF Closed, Sources
      <3>2. opened \in Sources /\ opened.open /\ opened.at = 0 /\ opened.wire = <<>>
        BY <3>1 DEF Sources
      <3>3. run = [opened EXCEPT !.serving = TRUE]
        OBVIOUS
      <3> HIDE DEF run, opened
      <3> QED BY <3>2, <3>3 DEF Sources
    <2> HIDE DEF run
    <2>0. stream \in [Own -> Sources] /\ text' \in Seq(Chunks)
      <3>1. stream \in [Own -> Sources] /\ <<>> \in Seq(Chunks)
        BY DEF DialogInv, DialogShape
      <3> QED BY <1>2, <3>1
    <2>a. stream' \in [Own -> Sources]
      BY <1>0, <1>2, <2>0, <2>1
    <2>2. DialogShape'
      <3>1. /\ shown' \in Own \union {None} /\ choice' \in Backends /\ pushing' \in Own \union {None}
            /\ finished' \in BOOLEAN /\ failed' \in BOOLEAN
            /\ verdict' \in Verdicts \union {None}
            /\ ask' \in [run : Own \union {None}, value : Verdicts \union {None, Taken}]
        BY <1>0, <1>2 DEF DialogInv, DialogShape
      <3> QED BY <3>1, <2>0, <2>a DEF DialogShape, Sources, Frames, Chunks, Verdicts, Backends, Taken
    <2>3. ShownInv' /\ VerdictInv'
      BY <1>0, <1>2, FleetAssumption DEF ShownInv, VerdictInv, HasRun
    <2>4. stream'[pushing] = run /\ \A q \in Own : q # pushing => stream'[q] = stream[q]
      BY <1>0, <1>2, <2>0
    <2>5. ASSUME NEW q \in Own PROVE Fits(q, stream[q])'
      <3>1. CASE q = pushing
        <4>1. ReadTo(text', Len(text'), q, 0)
          BY <1>2 DEF ReadTo
        <4> QED BY <2>1, <2>4, <3>1, <4>1 DEF Fits
      <3>2. CASE q # pushing
        <4>1. Fits(q, stream[q]) /\ shown' # q /\ stream'[q] = stream[q]
          BY <1>2, <2>4, <3>2 DEF DialogInv, WireInv
        <4> QED BY <4>1 DEF Fits
      <3> QED BY <3>1, <3>2
    <2>6. LogOfTheRun'
      BY <1>2 DEF LogOfTheRun
    <2> QED BY <2>2, <2>3, <2>5, <2>6 DEF DialogInv, WireInv
  <1> QED BY <1>1, <1>2 DEF PushAnswered

\* A chunk put on the screen moves its own run's place and no other's.
LEMMA ReadToAppend ==
    ASSUME NEW c \in Chunks, text \in Seq(Chunks), text' = Append(text, c)
    PROVE  /\ \A j \in 0..Len(text), q \in Own, n \in Nat : ReadTo(text, j, q, n) => ReadTo(text', j, q, n)
           /\ \A q \in Own \ {c.run}, n \in Nat : ReadTo(text, Len(text), q, n) => ReadTo(text', Len(text'), q, n)
           /\ ReadTo(text', Len(text'), c.run, c.to)
  <1>1. /\ Len(text') = Len(text) + 1 /\ Len(text) \in Nat
        /\ \A i \in 1..Len(text) : text'[i] = text[i]
        /\ text'[Len(text) + 1] = c
    OBVIOUS
  <1>2. ASSUME NEW j \in 0..Len(text), NEW q \in Own, NEW n \in Nat, ReadTo(text, j, q, n)
        PROVE  ReadTo(text', j, q, n)
    <2>1. \A i \in 1..j : text'[i] = text[i]
      BY <1>1
    <2> QED BY <1>2, <2>1 DEF ReadTo
  <1>3. ASSUME NEW q \in Own \ {c.run}, NEW n \in Nat, ReadTo(text, Len(text), q, n)
        PROVE  ReadTo(text', Len(text'), q, n)
    <2>1. \A i \in 1..(Len(text) + 1) : i \in 1..Len(text) \/ text'[i].run # q
      BY <1>1
    <2>2. CASE n = 0 /\ \A i \in 1..Len(text) : text[i].run # q
      BY <1>1, <2>1, <2>2 DEF ReadTo
    <2>3. CASE \E i \in 1..Len(text) :
                   /\ text[i].run = q /\ text[i].to = n
                   /\ \A k \in (i + 1)..Len(text) : text[k].run # q
      <3>1. PICK i \in 1..Len(text) : /\ text[i].run = q /\ text[i].to = n
                                      /\ \A k \in (i + 1)..Len(text) : text[k].run # q
        BY <2>3
      <3>2. \A k \in (i + 1)..(Len(text) + 1) : text'[k].run # q
        BY <1>1, <2>1, <3>1
      <3>3. i \in 1..(Len(text) + 1) /\ text'[i].run = q /\ text'[i].to = n
        BY <1>1, <3>1
      <3> QED BY <1>1, <3>2, <3>3 DEF ReadTo
    <2> QED BY <1>3, <2>2, <2>3 DEF ReadTo
  <1>4. ReadTo(text', Len(text'), c.run, c.to)
    <2>1. Len(text) + 1 \in 1..(Len(text) + 1) /\ \A k \in (Len(text) + 1 + 1)..(Len(text) + 1) : FALSE
      BY <1>1
    <2> QED BY <1>1, <2>1 DEF ReadTo
  <1> QED BY <1>2, <1>3, <1>4

\* A step of one stream that leaves the screen alone.
LEMMA StreamStep ==
    ASSUME DialogInv, Keeps, NEW p \in Own, NEW s \in Sources, Fits(p, s),
           stream' = [stream EXCEPT ![p] = s],
           UNCHANGED <<shown, choice, pushing, text, finished, failed, verdict, ask>>
    PROVE  DialogInv'
  <1>1. stream \in [Own -> Sources]
    BY DEF DialogInv, DialogShape
  <1>2. stream' \in [Own -> Sources] /\ \A q \in Own : stream'[q] = IF q = p THEN s ELSE stream[q]
    BY <1>1
  <1>3. DialogShape'
    BY <1>2 DEF DialogInv, DialogShape, Sources, Frames, Chunks, Verdicts
  <1>4. ShownInv'
    BY OwnAssumption DEF DialogInv, DialogShape, ShownInv, Keeps
  <1>5. VerdictInv'
    <2>1. "passed" \in {verdict, ask.value} => job'[shown].state = "success"
      BY PassedIsShown, OwnAssumption DEF Keeps
    <2> QED BY <2>1 DEF DialogInv, VerdictInv
  <1>6. ASSUME NEW q \in Own PROVE Fits(q, stream[q])'
    <2>1. Fits(q, stream'[q])
      BY <1>2 DEF DialogInv, WireInv
    <2> QED BY <2>1 DEF Fits, ReadTo
  <1>7. LogOfTheRun'
    BY DEF DialogInv, LogOfTheRun, ReadTo
  <1> QED BY <1>3, <1>4, <1>5, <1>6, <1>7 DEF DialogInv, WireInv

LEMMA ClosedFits == Closed \in Sources /\ \A p \in Own : Fits(p, Closed)
  BY DEF Closed, Sources, Fits

LEMMA StreamBreaksStep == ASSUME DialogInv, NEW p \in Own, StreamBreaks(p) PROVE DialogInv'
  <1>1. Keeps
    BY NothingKeeps DEF StreamBreaks
  <1> QED BY <1>1, ClosedFits, StreamStep DEF StreamBreaks

\* What a handler appends to its stream.
LEMMA AppendFits ==
    ASSUME DialogInv, NEW p \in Own, NEW f \in Frames, NEW upto \in Nat, NEW on \in BOOLEAN,
           stream[p].serving, f.chunk.run = p,
           f.kind = "data" => f.chunk.from = stream[p].at,
           f.kind = "data" /\ ~f.finished => f.chunk.from < f.chunk.to,
           on => f.kind = "data" /\ ~f.finished /\ f.chunk.to = upto
    PROVE  LET s == [stream[p] EXCEPT !.wire = Append(@, f), !.at = upto, !.serving = on]
           IN s \in Sources /\ Fits(p, s)
  <1> DEFINE w == Append(stream[p].wire, f)
             longer == [stream[p] EXCEPT !.wire = w]
             moved == [longer EXCEPT !.at = upto]
             s == [moved EXCEPT !.serving = on]
  <1>1. /\ stream[p] \in Sources /\ stream[p].open /\ Fits(p, stream[p])
        /\ stream[p].wire \in Seq(Frames)
    BY DEF DialogInv, DialogShape, WireInv, Fits, Sources
  <1>2. /\ w \in Seq(Frames) /\ Len(w) = Len(stream[p].wire) + 1 /\ w # <<>> /\ w[Len(w)] = f
        /\ Len(stream[p].wire) \in Nat
        /\ \A i \in 1..Len(stream[p].wire) : w[i] = stream[p].wire[i]
    BY <1>1
  <1> HIDE DEF w
  <1>3. s \in Sources /\ s.open /\ s.wire = w /\ s.at = upto /\ s.serving = on
    <2>1. longer \in Sources /\ longer.open /\ longer.wire = w
      BY <1>1, <1>2 DEF Sources
    <2> HIDE DEF longer
    <2>2. moved \in Sources /\ moved.open /\ moved.wire = w /\ moved.at = upto
      BY <2>1 DEF Sources
    <2> HIDE DEF moved
    <2> QED BY <2>2 DEF Sources
  <1>4. s = [stream[p] EXCEPT !.wire = Append(@, f), !.at = upto, !.serving = on]
    BY DEF w
  <1> HIDE DEF s
  <1>5. ASSUME NEW i \in 1..Len(w)
        PROVE  /\ w[i].chunk.run = p
               /\ i < Len(w) \/ on => w[i].kind = "data" /\ ~w[i].finished
               /\ w[i].kind = "data" /\ ~w[i].finished => w[i].chunk.from < w[i].chunk.to
               /\ i > 1 /\ w[i].kind = "data" => w[i].chunk.from = w[i - 1].chunk.to
    <2>1. CASE i \in 1..Len(stream[p].wire)
      <3>1. w[i] = stream[p].wire[i] /\ (i > 1 => w[i - 1] = stream[p].wire[i - 1])
        BY <1>2, <2>1
      <3> QED BY <1>1, <1>2, <2>1, <3>1 DEF Fits
    <2>2. CASE i = Len(w)
      <3>1. i > 1 /\ f.kind = "data" => f.chunk.from = w[i - 1].chunk.to
        <4> HAVE i > 1 /\ f.kind = "data"
        <4>1. w[i - 1] = stream[p].wire[Len(stream[p].wire)] /\ stream[p].wire # <<>>
          BY <1>1, <1>2, <2>2
        <4> QED BY <1>1, <4>1 DEF Fits
      <3> QED BY <1>2, <2>2, <3>1
    <2> QED BY <1>2, <2>1, <2>2
  <1>6. shown = p /\ w[1].kind = "data" => ReadTo(text, Len(text), p, w[1].chunk.from)
    <2> HAVE shown = p /\ w[1].kind = "data"
    <2>1. CASE stream[p].wire = <<>>
      <3>1. w[1] = f
        BY <1>2, <2>1
      <3> QED BY <1>1, <2>1, <3>1 DEF Fits
    <2>2. CASE stream[p].wire # <<>>
      <3>1. w[1] = stream[p].wire[1]
        BY <1>1, <1>2, <2>2
      <3> QED BY <1>1, <2>2, <3>1 DEF Fits
    <2> QED BY <2>1, <2>2
  <1>7. Fits(p, s)
    BY <1>2, <1>3, <1>5, <1>6 DEF Fits
  <1> QED BY <1>3, <1>4, <1>7

LEMMA RelayStep == ASSUME FleetInv, DialogInv, NEW p \in Own, Relay(p) PROVE DialogInv'
  <1> DEFINE log == LogOf(p)
             f == Frame("data", Chunk(p, stream[p].at, log.size), log.finished)
             s == [stream[p] EXCEPT !.wire = Append(@, f), !.at = log.size, !.serving = ~log.finished]
  <1>1. p \in Pushes /\ stream[p] \in Sources /\ stream[p].wire \in Seq(Frames) /\ stream[p].at \in Nat
    BY OwnAssumption DEF DialogInv, DialogShape, Sources
  <1>2. log.size \in Nat /\ log.finished \in BOOLEAN
    <2>1. job[p] \in Builds /\ djob[p] \in Records \union {None}
      BY <1>1 DEF FleetInv, FleetShape
    <2>2. Ended(p) \in BOOLEAN /\ job[p].lines \in Nat
      BY <2>1, FleetAssumption DEF Ended, Builds
    <2>3. log # None
      BY DEF Relay
    <2>4. CASE push[p].backend = "fleet"
      <3>1. log = [size |-> job[p].lines, finished |-> Ended(p)]
        BY <2>3, <2>4 DEF LogOf
      <3> HIDE DEF log
      <3> QED BY <2>2, <3>1
    <2>5. CASE push[p].backend # "fleet"
      <3>1. djob[p] \in Records /\ log = [size |-> djob[p].log, finished |-> djob[p].finished]
        BY <2>1, <2>3, <2>5 DEF LogOf
      <3> HIDE DEF log
      <3> QED BY <3>1 DEF Records
    <2> QED BY <2>4, <2>5
  <1>3. f \in Frames /\ f.kind = "data" /\ f.chunk.run = p /\ f.chunk.from = stream[p].at
        /\ f.chunk.to = log.size /\ f.finished = log.finished
    BY <1>1, <1>2 DEF Frame, Chunk, Frames, Chunks
  <1>4. /\ stream[p].serving /\ (log.size > stream[p].at \/ log.finished)
        /\ stream' = [stream EXCEPT ![p] = s]
    <2> DEFINE more == IF log.size > stream[p].at \/ log.finished THEN <<f>> ELSE <<>>
    <2>1. /\ more # <<>> /\ stream[p].serving
          /\ stream' = [stream EXCEPT ![p] = [stream[p] EXCEPT
                           !.wire = stream[p].wire \o more, !.at = log.size, !.serving = ~log.finished]]
      BY DEF Relay, Advance
    <2>2. more = <<f>> /\ (log.size > stream[p].at \/ log.finished)
      BY <2>1
    <2>3. stream[p].wire \o <<f>> = Append(stream[p].wire, f)
      <3> HIDE DEF f
      <3> QED BY <1>1, <1>3
    <2>4. stream' = [stream EXCEPT ![p] = [stream[p] EXCEPT
                         !.wire = @ \o <<f>>, !.at = log.size, !.serving = ~log.finished]]
      <3> HIDE DEF more
      <3> QED BY <2>1, <2>2
    <2> HIDE DEF f, log, more
    <2> QED BY <2>1, <2>2, <2>3, <2>4
  <1>5. Keeps /\ UNCHANGED <<shown, choice, pushing, text, finished, failed, verdict, ask>>
    BY NothingKeeps DEF Relay
  <1> HIDE DEF f, log
  <1>6. s \in Sources /\ Fits(p, s)
    <2>1. /\ f.kind = "data" /\ ~f.finished => f.chunk.from < f.chunk.to
          /\ ~log.finished => f.kind = "data" /\ ~f.finished /\ f.chunk.to = log.size
          /\ f.kind = "data" => f.chunk.from = stream[p].at
      BY <1>1, <1>2, <1>3, <1>4
    <2>2. (~log.finished) \in BOOLEAN
      BY <1>2
    <2> QED BY <1>1, <1>2, <1>3, <1>4, <2>1, <2>2, AppendFits
  <1> HIDE DEF s
  <1> QED BY <1>4, <1>5, <1>6, StreamStep

LEMMA RelayErrorStep == ASSUME DialogInv, NEW p \in Own, RelayError(p) PROVE DialogInv'
  <1> DEFINE f == Frame("error", Chunk(p, 0, 0), FALSE)
             done == [stream[p] EXCEPT !.wire = Append(@, f), !.serving = FALSE]
             s == [stream[p] EXCEPT !.wire = Append(@, f), !.at = stream[p].at, !.serving = FALSE]
  <1>1. stream[p] \in Sources /\ stream[p].at \in Nat /\ stream[p].serving
        /\ stream' = [stream EXCEPT ![p] = done]
    <2>1. stream[p] \in Sources /\ stream[p].at \in Nat
      BY DEF DialogInv, DialogShape, Sources
    <2>2. stream[p].serving /\ stream' = [stream EXCEPT ![p] = done]
      BY DEF RelayError
    <2> HIDE DEF done
    <2> QED BY <2>1, <2>2
  <1>2. f \in Frames /\ f.kind = "error" /\ f.chunk.run = p
    BY DEF Frame, Chunk, Frames, Chunks
  <1> HIDE DEF f
  <1>3. s \in Sources /\ Fits(p, s)
    BY <1>1, <1>2, AppendFits
  <1>4. s = done
    <2> DEFINE longer == [stream[p] EXCEPT !.wire = Append(stream[p].wire, f)]
    <2>1. longer \in [{"open", "at", "wire", "serving"} -> {longer.open, longer.at, longer.wire, longer.serving}]
          /\ longer.at = stream[p].at
      BY <1>1 DEF Sources
    <2>2. s = [[longer EXCEPT !.at = stream[p].at] EXCEPT !.serving = FALSE]
          /\ done = [longer EXCEPT !.serving = FALSE]
      OBVIOUS
    <2> HIDE DEF longer
    <2>3. [longer EXCEPT !.at = stream[p].at] = longer
      BY <2>1
    <2> QED BY <2>2, <2>3
  <1>5. Keeps /\ UNCHANGED <<shown, choice, pushing, text, finished, failed, verdict, ask>>
    BY NothingKeeps DEF RelayError
  <1> HIDE DEF s, done
  <1> QED BY <1>1, <1>3, <1>4, <1>5, StreamStep

\* A frame that is read: its chunk goes to the end of what its run shows.
LEMMA ReceiveStep == ASSUME DialogInv, NEW p \in Own, Receive(p) PROVE DialogInv'
  <1> DEFINE wire == stream[p].wire
             f == Head(wire)
             s == IF f.finished \/ f.kind = "error" THEN Closed ELSE [stream[p] EXCEPT !.wire = Tail(@)]
             shows == f.kind = "data" /\ f.chunk.to > f.chunk.from
  <1>1. /\ stream \in [Own -> Sources] /\ stream[p] \in Sources /\ wire \in Seq(Frames) /\ wire # <<>>
        /\ text \in Seq(Chunks) /\ Fits(p, stream[p])
    BY DEF DialogInv, DialogShape, WireInv, Sources, Receive
  <1>2. /\ f \in Frames /\ f = wire[1] /\ 1 \in 1..Len(wire) /\ Len(wire) \in Nat
        /\ Tail(wire) \in Seq(Frames) /\ Len(Tail(wire)) = Len(wire) - 1
        /\ \A i \in 1..(Len(wire) - 1) : Tail(wire)[i] = wire[i + 1]
    BY <1>1
  <1>3. /\ f.chunk \in Chunks /\ f.chunk.run = p /\ f.kind \in {"data", "error"} /\ f.finished \in BOOLEAN
        /\ f.chunk.from \in Nat /\ f.chunk.to \in Nat
    BY <1>1, <1>2 DEF Frames, Chunks, Fits
  <1>4. /\ text' = IF shows THEN Append(text, f.chunk) ELSE text
        /\ finished' \in BOOLEAN /\ failed' \in BOOLEAN
        /\ stream' = [stream EXCEPT ![p] = s]
        /\ UNCHANGED <<serverVars, shown, choice, pushing, verdict, ask>>
    <2>1. /\ text' = IF f.kind = "data" THEN Append1(text, f.chunk) ELSE text
          /\ finished' = (finished \/ f.finished) /\ failed' = (failed \/ f.kind = "error")
          /\ stream' = [stream EXCEPT ![p] = s]
          /\ UNCHANGED <<serverVars, faults, shown, choice, pushing, verdict, ask>>
      BY DEF Receive
    <2>2. finished \in BOOLEAN /\ failed \in BOOLEAN
      BY DEF DialogInv, DialogShape
    <2> HIDE DEF f, s
    <2>3. text' = IF shows THEN Append(text, f.chunk) ELSE text
      BY <1>3, <2>1 DEF Append1
    <2> QED BY <1>3, <2>1, <2>2, <2>3
  <1> HIDE DEF f
  <1>5. s \in Sources
    BY <1>1, <1>2, ClosedFits DEF Sources
  <1>6. /\ \A j \in 0..Len(text), q \in Own, n \in Nat : ReadTo(text, j, q, n) => ReadTo(text', j, q, n)
        /\ \A q \in Own \ {p}, n \in Nat : ReadTo(text, Len(text), q, n) => ReadTo(text', Len(text'), q, n)
        /\ shows => ReadTo(text', Len(text'), p, f.chunk.to)
        /\ text' \in Seq(Chunks)
    <2>1. CASE shows
      <3>1. text' = Append(text, f.chunk) /\ text' \in Seq(Chunks)
        BY <1>1, <1>3, <1>4, <2>1
      <3> DEFINE c == f.chunk
      <3>2. c \in Chunks /\ text' = Append(text, c) /\ c.run = p
        BY <1>3, <3>1
      <3> HIDE DEF c
      <3>3. /\ \A j \in 0..Len(text), q \in Own, n \in Nat : ReadTo(text, j, q, n) => ReadTo(text', j, q, n)
            /\ \A q \in Own \ {c.run}, n \in Nat : ReadTo(text, Len(text), q, n) => ReadTo(text', Len(text'), q, n)
            /\ ReadTo(text', Len(text'), c.run, c.to)
        BY <1>1, <3>2, ReadToAppend
      <3>4. ReadTo(text', Len(text'), p, c.to)
        BY <3>2, <3>3
      <3> HIDE DEF shows
      <3> QED BY <3>1, <3>2, <3>3, <3>4 DEF c
    <2>2. CASE ~shows
      <3>1. text' = text
        BY <1>4, <2>2
      <3> HIDE DEF shows
      <3> QED BY <1>1, <2>2, <3>1
    <2> QED BY <2>1, <2>2
  <1>7. stream' \in [Own -> Sources] /\ \A q \in Own : stream'[q] = IF q = p THEN s ELSE stream[q]
    <2> HIDE DEF s
    <2> QED BY <1>1, <1>4, <1>5
  <1>8. DialogShape'
    BY <1>4, <1>6, <1>7 DEF DialogInv, DialogShape, Sources, Frames, Chunks, Verdicts
  <1>9. ShownInv' /\ VerdictInv'
    BY <1>4 DEF DialogInv, ShownInv, VerdictInv, serverVars
  <1>10. ASSUME NEW q \in Own PROVE Fits(q, stream[q])'
    <2>1. CASE q # p
      <3>1. stream'[q] = stream[q] /\ stream[q] \in Sources /\ Fits(q, stream[q])
        BY <1>1, <1>7, <2>1 DEF DialogInv, WireInv
      <3>2. /\ stream[q].at \in Nat
            /\ stream[q].wire # <<>> => stream[q].wire[1].chunk.from \in Nat
        <4>1. stream[q].at \in Nat /\ stream[q].wire \in Seq(Frames)
          BY <3>1 DEF Sources
        <4>2. stream[q].wire # <<>> => stream[q].wire[1] \in Frames
          BY <4>1
        <4> QED BY <4>1, <4>2 DEF Frames, Chunks
      <3> QED BY <1>4, <1>6, <2>1, <3>1, <3>2 DEF Fits
    <2>2. CASE q = p /\ (f.finished \/ f.kind = "error")
      <3>1. stream'[q] = Closed
        BY <1>7, <2>2
      <3> QED BY <3>1 DEF Fits, Closed
    <2>3. CASE q = p /\ ~f.finished /\ f.kind # "error"
      <3> DEFINE w == Tail(wire)
      <3>1. s.wire = w /\ s.open = stream[p].open /\ s.at = stream[p].at /\ s.serving = stream[p].serving
        BY <1>1, <2>3 DEF Sources
      <3>2. f.kind = "data" /\ shows
        BY <1>1, <1>2, <1>3, <2>3 DEF Fits
      <3>3. ReadTo(text', Len(text'), p, f.chunk.to)
        BY <1>6, <3>2
      <3>4. stream'[q] = s
        BY <1>7, <2>3
      <3>5. Len(w) \in Nat /\ Len(w) = Len(wire) - 1 /\ (w = <<>> <=> Len(wire) = 1)
            /\ \A i \in 1..Len(w) : w[i] = wire[i + 1] /\ (i > 1 => w[i - 1] = wire[i])
        <4>1. w \in Seq(Frames) /\ Len(w) = Len(wire) - 1 /\ \A i \in 1..(Len(wire) - 1) : w[i] = wire[i + 1]
          BY <1>2
        <4> HIDE DEF w
        <4>2. w = <<>> <=> Len(w) = 0
          BY <4>1, EmptySeq
        <4> HIDE DEF wire
        <4> QED BY <1>2, <4>1, <4>2
      <3> HIDE DEF s, w, shows
      <3>6. ASSUME NEW i \in 1..Len(w)
            PROVE  /\ w[i].chunk.run = p
                   /\ i < Len(w) \/ s.serving => w[i].kind = "data" /\ ~w[i].finished
                   /\ w[i].kind = "data" /\ ~w[i].finished => w[i].chunk.from < w[i].chunk.to
                   /\ i > 1 /\ w[i].kind = "data" => w[i].chunk.from = w[i - 1].chunk.to
        <4>1. i + 1 \in 1..Len(wire) /\ w[i] = wire[i + 1] /\ (i > 1 => w[i - 1] = wire[(i + 1) - 1])
              /\ (i < Len(w) => i + 1 < Len(wire)) /\ i + 1 > 1
          BY <1>2, <3>5
        <4> QED BY <1>1, <3>1, <4>1 DEF Fits
      <3>7. s.serving /\ w # <<>> => w[Len(w)].chunk.to = s.at
        <4> HAVE s.serving /\ w # <<>>
        <4>1. Len(w) \in 1..Len(w) /\ Len(w) + 1 = Len(wire)
          BY <1>2, <3>5
        <4>2. w[Len(w)] = wire[Len(wire)]
          BY <3>5, <4>1
        <4> QED BY <1>1, <3>1, <4>1, <4>2 DEF Fits
      <3>8. s.serving /\ w = <<>> => s.at = f.chunk.to
        <4> HAVE s.serving /\ w = <<>>
        <4>1. wire[Len(wire)] = f
          BY <1>2, <3>5
        <4> QED BY <1>1, <3>1, <4>1 DEF Fits
      <3>9. w # <<>> /\ w[1].kind = "data" => w[1].chunk.from = f.chunk.to
        <4> HAVE w # <<>> /\ w[1].kind = "data"
        <4>1. w[1] = wire[2] /\ 2 \in 1..Len(wire)
          BY <1>2, <3>5
        <4>2. wire[2].chunk.from = wire[2 - 1].chunk.to
          BY <1>1, <4>1 DEF Fits
        <4> QED BY <1>2, <4>1, <4>2
      <3>10. s.serving \/ w # <<>> => s.open
        BY <1>1, <3>1 DEF Fits
      <3>11. Fits(p, stream[p])'
        BY <1>4, <2>3, <3>1, <3>3, <3>4, <3>6, <3>7, <3>8, <3>9, <3>10 DEF Fits
      <3> QED BY <2>3, <3>11
    <2> QED BY <1>3, <2>1, <2>2, <2>3
  <1>11. LogOfTheRun'
    <2> SUFFICES ASSUME NEW r \in Own, shown = r, NEW j \in 1..Len(text'), text'[j].run = r
                 PROVE  ReadTo(text', j - 1, r, text'[j].from)
      <3>1. shown' = shown /\ shown \in Own \union {None}
        BY <1>4 DEF DialogInv, DialogShape
      <3> QED BY <3>1 DEF LogOfTheRun
    <2>1. CASE j \in 1..Len(text)
      <3>1. text'[j] = text[j] /\ text[j] \in Chunks /\ j - 1 \in 0..Len(text)
        BY <1>1, <1>3, <1>4, <2>1
      <3>2. ReadTo(text, j - 1, r, text[j].from) /\ text[j].from \in Nat
        <4>1. r # None
          BY FleetAssumption, OwnAssumption
        <4> QED BY <2>1, <3>1, <4>1 DEF DialogInv, LogOfTheRun, Chunks
      <3>3. \A n \in Nat : ReadTo(text, j - 1, r, n) => ReadTo(text', j - 1, r, n)
        BY <1>6, <3>1
      <3> QED BY <3>1, <3>2, <3>3
    <2>2. CASE j \notin 1..Len(text)
      <3>1. shows /\ j = Len(text) + 1 /\ text'[j] = f.chunk /\ Len(text) \in Nat
        BY <1>1, <1>3, <1>4, <2>2
      <3>2. r = p
        BY <1>3, <3>1
      <3>3. ReadTo(text, Len(text), p, f.chunk.from)
        BY <1>1, <1>2, <3>1, <3>2 DEF Fits
      <3>4. Len(text) \in 0..Len(text) /\ j - 1 = Len(text)
        BY <3>1
      <3>5. \A n \in Nat : ReadTo(text, j - 1, p, n) => ReadTo(text', j - 1, p, n)
        BY <1>6, <3>4
      <3> QED BY <1>3, <3>1, <3>2, <3>3, <3>4, <3>5
    <2> QED BY <2>1, <2>2
  <1> QED BY <1>8, <1>9, <1>10, <1>11 DEF DialogInv, WireInv

\* What the routes answer for a verdict: never a pass of a build that is not over.
LEMMA VerdictFacts ==
    ASSUME FleetInv, NEW p \in Pushes, NEW b \in Backends, VerdictAt(p, b) # None
    PROVE  /\ VerdictAt(p, b) \in Verdicts
           /\ VerdictAt(p, b) = "passed" => job[p].state = "success"
  <1>1. \A S : /\ Verdict(S) \in Verdicts
               /\ Verdict(S) = "passed" => S = {"success"}
    BY DEF Verdict, Verdicts
  <1>2. CASE b = "fleet"
    <2> DEFINE S == IF push[p].backend = "fleet" THEN Queued(p) ELSE {}
    <2>1. VerdictAt(p, b) = Verdict(S) /\ S \subseteq {job[p].state}
      BY <1>2 DEF VerdictAt, Queued
    <2> HIDE DEF S
    <2> QED BY <1>1, <2>1
  <1>3. CASE b # "fleet"
    <2>1. djob[p] # None
      BY <1>3 DEF VerdictAt
    <2>2. djob[p] \in Records /\ RecordOK(p)
      BY <2>1 DEF FleetInv, FleetShape
    <2>3. CASE djob[p].finished
      <3>1. VerdictAt(p, b) = IF djob[p].ok THEN "passed" ELSE "failed"
        BY <1>3, <2>1, <2>3 DEF VerdictAt
      <3> QED BY <2>1, <2>2, <3>1 DEF Verdicts, RecordOK
    <2>4. CASE ~djob[p].finished
      <3>1. VerdictAt(p, b) = "running"
        BY <1>3, <2>1, <2>4 DEF VerdictAt
      <3> QED BY <3>1 DEF Verdicts
    <2> QED BY <2>3, <2>4
  <1> QED BY <1>2, <1>3

LEMMA VerdictSteps ==
    ASSUME FleetInv, DialogInv, AskVerdict \/ ServeVerdict \/ ReceiveVerdict PROVE DialogInv'
  <1>1. /\ UNCHANGED <<push, job, shown, choice, pushing, text, finished, failed, stream>>
        /\ choice \in Backends /\ shown \in Own \union {None}
        /\ verdict \in Verdicts \union {None}
        /\ ask \in [run : Own \union {None}, value : Verdicts \union {None, Taken}]
    BY DEF DialogInv, DialogShape, AskVerdict, ServeVerdict, ReceiveVerdict, serverVars
  <1>2. WireInv' /\ LogOfTheRun' /\ ShownInv'
    BY <1>1 DEF DialogInv, WireInv, Fits, LogOfTheRun, ShownInv
  <1>3. ASSUME verdict' \in Verdicts \union {None},
               ask' \in [run : Own \union {None}, value : Verdicts \union {None, Taken}], VerdictInv'
        PROVE  DialogInv'
    <2>1. DialogShape'
      BY <1>1, <1>3 DEF DialogInv, DialogShape, Sources, Frames, Chunks, Verdicts, Backends, Taken
    <2> QED BY <1>2, <1>3, <2>1 DEF DialogInv
  <1>4. CASE AskVerdict
    <2>1. ask' = [run |-> shown, value |-> None] /\ shown # None /\ verdict' = verdict
      BY <1>4 DEF AskVerdict
    <2>2. VerdictInv'
      BY <1>1, <2>1, FleetAssumption DEF DialogInv, VerdictInv
    <2> QED BY <1>1, <1>3, <2>1, <2>2
  <1>5. CASE ServeVerdict
    <2> DEFINE v == VerdictAt(ask.run, choice)
    <2>1. ask.run # None /\ ask.run = shown /\ ask.run \in Pushes /\ v # None
          /\ ask' = [ask EXCEPT !.value = v] /\ verdict' = verdict
      BY <1>1, <1>5, OwnAssumption DEF ServeVerdict, DialogInv, VerdictInv
    <2>2. v \in Verdicts /\ (v = "passed" => job[shown].state = "success")
      BY <1>1, <2>1, VerdictFacts
    <2> HIDE DEF v
    <2>3. /\ ask' \in [run : Own \union {None}, value : Verdicts \union {None, Taken}]
          /\ ask'.run = ask.run /\ ask'.value = v
      BY <1>1, <2>1, <2>2
    <2>4. VerdictInv'
      BY <1>1, <2>1, <2>2, <2>3 DEF DialogInv, VerdictInv
    <2> QED BY <1>1, <1>3, <2>1, <2>3, <2>4
  <1>6. CASE ReceiveVerdict
    <2>1. verdict' = ask.value /\ ask.value \in Verdicts /\ ask' = [ask EXCEPT !.value = Taken]
          /\ ask.value # None
      BY <1>1, <1>6 DEF ReceiveVerdict
    <2>2. ask' \in [run : Own \union {None}, value : Verdicts \union {None, Taken}]
          /\ ask'.run = ask.run /\ ask'.value = Taken
      BY <1>1, <2>1
    <2>3. ask.run # None /\ ask.run = shown
      BY <2>1 DEF DialogInv, VerdictInv
    <2>4. VerdictInv'
      BY <1>1, <2>1, <2>2, <2>3 DEF DialogInv, VerdictInv, Taken
    <2> QED BY <1>3, <2>1, <2>2, <2>4
  <1> QED BY <1>4, <1>5, <1>6

\* A restart closes the streams.
LEMMA RestartStep == ASSUME FleetInv, DialogInv, Restart PROVE DialogInv'
  <1>1. /\ Keeps /\ stream' = [p \in Own |-> Closed]
        /\ UNCHANGED <<shown, choice, pushing, text, finished, failed, verdict, ask>>
    BY FleetKeeps DEF Restart
  <1>2. DialogShape'
    <2>1. stream' \in [Own -> Sources]
      BY <1>1, ClosedFits
    <2> QED BY <1>1, <2>1 DEF DialogInv, DialogShape, Sources, Frames, Chunks, Verdicts
  <1>3. ShownInv'
    BY <1>1, OwnAssumption DEF DialogInv, DialogShape, ShownInv, Keeps
  <1>4. VerdictInv'
    <2>1. "passed" \in {verdict, ask.value} => job'[shown].state = "success"
      BY <1>1, PassedIsShown, OwnAssumption DEF Keeps
    <2> QED BY <1>1, <2>1 DEF DialogInv, VerdictInv
  <1>5. WireInv' /\ LogOfTheRun'
    <2>1. \A p \in Own : stream'[p] = Closed
      BY <1>1
    <2> QED BY <1>1, <2>1 DEF DialogInv, WireInv, Fits, LogOfTheRun, Closed
  <1> QED BY <1>2, <1>3, <1>4, <1>5 DEF DialogInv

LEMMA DialogInitInv == ASSUME DialogInit PROVE DialogInv
  <1>1. text = <<>> /\ text \in Seq(Chunks) /\ stream = [p \in Own |-> Closed] /\ shown = None
    BY DEF DialogInit
  <1>2. DialogShape
    BY <1>1, ClosedFits DEF DialogInit, DialogShape, Quiet
  <1>3. ShownInv /\ VerdictInv /\ LogOfTheRun
    BY FleetAssumption DEF DialogInit, ShownInv, VerdictInv, LogOfTheRun, Quiet
  <1>4. WireInv
    BY <1>1, ClosedFits DEF WireInv
  <1> QED BY <1>2, <1>3, <1>4 DEF DialogInv

LEMMA DialogNextInv == ASSUME FleetInv, DialogInv, [DialogNext]_fleetVars PROVE DialogInv'
  <1>1. ASSUME NEW p \in Pushes, Server(p) /\ UNCHANGED dialogVars PROVE DialogInv'
    BY <1>1, FleetKeeps, DialogStands
  <1>2. ASSUME NEW p \in Pushes, NEW b \in Backends, NEW n \in Names, AgentPush(p, b, n) PROVE DialogInv'
    BY <1>2, FleetKeeps, DialogStands DEF AgentPush
  <1>3. ASSUME NEW p \in Own, NEW n \in Names, HandlePush(p, n) PROVE DialogInv'
    BY <1>3, HandlePushStep
  <1>4. ASSUME NEW p \in Own, Relay(p) \/ RelayError(p) \/ Receive(p) \/ StreamBreaks(p) PROVE DialogInv'
    BY <1>4, RelayStep, RelayErrorStep, ReceiveStep, StreamBreaksStep
  <1>5. CASE PushAnswered \/ SwitchBackend
    BY <1>5, PushAnsweredStep, SwitchBackendStep
  <1>6. CASE AskVerdict \/ ServeVerdict \/ ReceiveVerdict
    BY <1>6, VerdictSteps
  <1>7. CASE Restart
    BY <1>7, RestartStep
  <1>8. CASE UNCHANGED fleetVars
    BY <1>8, NothingKeeps, DialogStands DEF fleetVars
  <1> QED BY <1>1, <1>2, <1>3, <1>4, <1>5, <1>6, <1>7, <1>8 DEF DialogNext

LEMMA FleetInvariant == DialogSpec => [](FleetInv /\ DialogInv)
  <1>1. DialogInit => FleetInv /\ DialogInv
    BY FleetInitInv, DialogInitInv
  <1>2. FleetInv /\ DialogInv /\ [DialogNext]_fleetVars => FleetInv' /\ DialogInv'
    <2>1. DialogInv => choice \in Backends
      BY DEF DialogInv, DialogShape
    <2> QED BY <2>1, FleetNext, DialogNextInv
  <1> QED BY <1>1, <1>2, PTL DEF DialogSpec

\* A build, and the image that would be fetched for it, is never of something
\* older than its own push wrote (esphome_dashboard.push_device,
\* fleet/client.py push_device).
THEOREM NothingOlder == DialogSpec => []NeverOlder
  <1>1. FleetInv => NeverOlder
    <2> SUFFICES ASSUME FleetInv, NEW p \in Pushes
                 PROVE  /\ job[p].at > 0 => job[p].at >= push[p].at
                        /\ Image(p) > 0 => Image(p) >= push[p].at
      BY DEF NeverOlder
    <2>1. /\ push[p] \in Calls /\ job[p] \in Builds /\ djob[p] \in Records \union {None}
          /\ CallOK(p) /\ BuildOK(p) /\ RecordOK(p) /\ image \in [Names -> Nat]
      BY DEF FleetInv, FleetShape
    <2>2. push[p].at \in Nat /\ job[p].at \in Nat
      BY <2>1 DEF Calls, Builds
    <2>3. job[p].at > 0 => job[p].at >= push[p].at
      BY <2>1, <2>2 DEF BuildOK
    <2>4. CASE push[p].backend = "fleet"
      <3>1. Image(p) = IF job[p].state = "success" /\ job[p].kept THEN job[p].at ELSE 0
        BY <2>4 DEF Image
      <3> QED BY <2>2, <2>3, <3>1
    <2>5. CASE push[p].backend # "fleet"
      <3>1. Image(p) = IF djob[p] # None /\ djob[p].ok THEN image[NameOf(p)] ELSE 0
        BY <2>5 DEF Image
      <3>2. djob[p] # None /\ djob[p].ok => NameOf(p) \in Names /\ push[p].at <= image[NameOf(p)]
        BY <2>1, FleetAssumption DEF RecordOK, CallOK, NameOf
      <3>3. CASE djob[p] # None /\ djob[p].ok
        BY <2>1, <2>2, <2>3, <3>1, <3>2, <3>3
      <3>4. CASE ~(djob[p] # None /\ djob[p].ok)
        BY <2>3, <3>1, <3>4
      <3> QED BY <3>3, <3>4
    <2> QED BY <2>3, <2>4, <2>5
  <1> QED BY <1>1, FleetInvariant, PTL

\* The dialog shows its own run's log, without a gap or a repetition, and a
\* pass only of a build that succeeded (PushToFleetDialog.tsx).
THEOREM ScreenCorrect == DialogSpec => []ScreenSound
  <1>1. FleetInv /\ DialogInv => DialogTypeOK
    <2> SUFFICES ASSUME FleetInv, DialogInv PROVE DialogTypeOK
      OBVIOUS
    <2>1. ASSUME NEW p \in Pushes
          PROVE  /\ push[p].pc \in {"idle", "list", "create", "write", "compile", "done", "failed"}
                 /\ push[p].pc # "idle" => push[p].backend \in Backends /\ push[p].name \in Names
                 /\ job[p].state \in States /\ job[p].lines \in 0..LogSize
                 /\ djob[p] # None => push[p].backend = "dashboard" /\ djob[p].log <= job[p].lines
      <3>1. push[p] \in Calls /\ job[p] \in Builds /\ CallOK(p) /\ RecordOK(p)
        BY DEF FleetInv, FleetShape
      <3> QED BY <3>1 DEF Calls, Builds, CallOK, RecordOK
    <2>2. \A p \in Own : stream[p].wire # <<>> => stream[p].open
      BY DEF DialogInv, WireInv, Fits
    <2>3. /\ pending \subseteq Names
          /\ shown # None => push[shown].pc = "done" /\ shown \in Own
          /\ verdict \in {None} \union Verdicts
      BY DEF FleetInv, FleetShape, DialogInv, DialogShape, ShownInv
    <2> QED BY <2>1, <2>2, <2>3 DEF DialogTypeOK
  <1>2. DialogInv => LogOfTheRun /\ PassedIsTrue
    BY DEF DialogInv, VerdictInv, PassedIsTrue
  <1> QED BY <1>1, <1>2, FleetInvariant, PTL DEF ScreenSound
=============================================================================
