------------------------- MODULE AuditPipelineProofs -------------------------
(***************************************************************************)
(* Theorems about AuditPipeline for any sizes of the queue and the batch,  *)
(* any number of records and processes, with or without failed inserts and *)
(* crashes: every record is accounted for once, in the order of requests,  *)
(* and a writer that ends by itself leaves nothing behind.                 *)
(***************************************************************************)
EXTENDS AuditPipeline, SequenceTheorems, TLAPS

-----------------------------------------------------------------------------
(* Sequences of records by their members: a record moves from one sequence *)
(* to another, and the order of the whole is that of the parts and of one  *)
(* part before the other.                                                  *)

Below(S, T) == \A a \in S, b \in T : a < b

\* A concatenation is in order if its parts are, the first before the second.
LEMMA IncreasingConcat ==
  ASSUME NEW s \in Seq(Nat), NEW t \in Seq(Nat)
  PROVE  /\ s \o t \in Seq(Nat)
         /\ Range(s \o t) = Range(s) \cup Range(t)
         /\ Increasing(s \o t) <=>
               Increasing(s) /\ Increasing(t) /\ Below(Range(s), Range(t))
<1>1. /\ s \o t \in Seq(Nat)
      /\ Len(s \o t) = Len(s) + Len(t)
      /\ \A i \in 1 .. Len(s) + Len(t) :
            (s \o t)[i] = IF i <= Len(s) THEN s[i] ELSE t[i - Len(s)]
  BY ConcatProperties
<1>2. Range(s \o t) = Range(s) \cup Range(t)
  BY RangeConcatenation
<1>3. /\ Len(s) \in Nat /\ Len(t) \in Nat
      /\ DOMAIN s = 1..Len(s) /\ DOMAIN t = 1..Len(t)
      /\ DOMAIN (s \o t) = 1..(Len(s) + Len(t))
      /\ \A i \in DOMAIN s : s[i] \in Nat
      /\ \A i \in DOMAIN t : t[i] \in Nat
  BY <1>1, LenProperties
<1>4. ASSUME Increasing(s \o t)
      PROVE  Increasing(s) /\ Increasing(t) /\ Below(Range(s), Range(t))
  <2>1. Increasing(s)
    BY <1>1, <1>3, <1>4, SMTT(30) DEF Increasing
  <2>2. Increasing(t)
    <3>1. ASSUME NEW i \in DOMAIN t, NEW j \in DOMAIN t, i < j
          PROVE  t[i] < t[j]
      <4>1. /\ i + Len(s) \in 1..(Len(s) + Len(t))
            /\ j + Len(s) \in 1..(Len(s) + Len(t))
            /\ i + Len(s) < j + Len(s)
            /\ ~(i + Len(s) <= Len(s)) /\ ~(j + Len(s) <= Len(s))
            /\ (i + Len(s)) - Len(s) = i /\ (j + Len(s)) - Len(s) = j
        BY <1>3, <3>1
      <4>2. (s \o t)[i + Len(s)] = t[i] /\ (s \o t)[j + Len(s)] = t[j]
        BY <1>1, <4>1
      <4>3. QED
        BY <1>3, <1>4, <4>1, <4>2 DEF Increasing
    <3>2. QED
      BY <3>1 DEF Increasing
  <2>3. ASSUME NEW i \in DOMAIN s, NEW j \in DOMAIN t PROVE s[i] < t[j]
    <3>1. /\ i \in 1..(Len(s) + Len(t)) /\ j + Len(s) \in 1..(Len(s) + Len(t))
          /\ i < j + Len(s) /\ i <= Len(s) /\ ~(j + Len(s) <= Len(s))
          /\ (j + Len(s)) - Len(s) = j
      BY <1>3
    <3>2. (s \o t)[i] = s[i] /\ (s \o t)[j + Len(s)] = t[j]
      BY <1>1, <3>1
    <3>3. QED
      BY <1>3, <1>4, <3>1, <3>2 DEF Increasing
  <2>4. QED
    BY <2>1, <2>2, <2>3 DEF Below, Range
<1>5. ASSUME Increasing(s), Increasing(t), Below(Range(s), Range(t))
      PROVE  Increasing(s \o t)
  <2>1. ASSUME NEW i \in DOMAIN (s \o t), NEW j \in DOMAIN (s \o t), i < j
        PROVE  (s \o t)[i] < (s \o t)[j]
    <3>1. CASE j <= Len(s)
      BY <1>1, <1>3, <1>5, <2>1, <3>1 DEF Increasing
    <3>2. CASE i <= Len(s) /\ ~(j <= Len(s))
      <4>1. i \in DOMAIN s /\ j - Len(s) \in DOMAIN t
        BY <1>3, <3>2
      <4>2. s[i] \in Range(s) /\ t[j - Len(s)] \in Range(t)
        BY <4>1 DEF Range
      <4>3. QED
        BY <1>1, <1>3, <1>5, <3>2, <4>2 DEF Below
    <3>3. CASE ~(i <= Len(s))
      <4>1. /\ i - Len(s) \in DOMAIN t /\ j - Len(s) \in DOMAIN t
            /\ i - Len(s) < j - Len(s) /\ ~(j <= Len(s))
        BY <1>3, <2>1, <3>3
      <4>2. QED
        BY <1>1, <1>3, <1>5, <3>3, <4>1 DEF Increasing
    <3>4. QED
      BY <3>1, <3>2, <3>3
  <2>2. QED
    BY <2>1 DEF Increasing
<1>6. QED
  BY <1>1, <1>2, <1>4, <1>5

\* A sequence of one record.
LEMMA IncreasingOne ==
  ASSUME NEW x \in Nat
  PROVE  <<x>> \in Seq(Nat) /\ Range(<<x>>) = {x} /\ Increasing(<<x>>)
  BY DEF Range, Increasing

\* No record.
LEMMA IncreasingNone == <<>> \in Seq(Nat) /\ Range(<<>>) = {} /\ Increasing(<<>>)
  BY DEF Range, Increasing

\* What is put at the end of a queue.
LEMMA IncreasingAppend ==
  ASSUME NEW s \in Seq(Nat), NEW x \in Nat
  PROVE  /\ Append(s, x) \in Seq(Nat)
         /\ Range(Append(s, x)) = Range(s) \cup {x}
         /\ Increasing(Append(s, x)) <=> Increasing(s) /\ Below(Range(s), {x})
<1>1. PICK one : one = <<x>>
  OBVIOUS
<1>2. one \in Seq(Nat) /\ Range(one) = {x} /\ Increasing(one)
  BY <1>1, IncreasingOne
<1>3. Append(s, x) = s \o one
  BY <1>1, AppendIsConcat
<1>4. Increasing(s \o one) <=>
         Increasing(s) /\ Increasing(one) /\ Below(Range(s), Range(one))
  BY <1>2, IncreasingConcat, Zenon
<1>5. Increasing(Append(s, x)) <=> Increasing(s) /\ Below(Range(s), {x})
  BY ONLY <1>2, <1>3, <1>4, Zenon
<1>6. /\ Append(s, x) \in Seq(Nat)
      /\ Range(Append(s, x)) = Range(s) \cup {x}
  BY ONLY <1>2, <1>3, s \in Seq(Nat), IncreasingConcat
<1>7. QED
  BY <1>5, <1>6, Zenon

\* What is taken from its front.
LEMMA IncreasingTail ==
  ASSUME NEW s \in Seq(Nat), s # <<>>
  PROVE  /\ Head(s) \in Nat /\ Tail(s) \in Seq(Nat)
         /\ Range(s) = {Head(s)} \cup Range(Tail(s))
         /\ Increasing(s) => Increasing(Tail(s)) /\ Below({Head(s)}, Range(Tail(s)))
<1>1. Head(s) \in Nat /\ Tail(s) \in Seq(Nat)
  BY HeadTailProperties
<1>2. PICK one : one = <<Head(s)>>
  OBVIOUS
<1>3. one \in Seq(Nat) /\ Range(one) = {Head(s)} /\ Increasing(one)
  BY <1>1, <1>2, IncreasingOne
<1>4. s = one \o Tail(s)
  BY <1>2
<1>5. Range(one \o Tail(s)) = Range(one) \cup Range(Tail(s))
  BY ONLY <1>1, <1>3, IncreasingConcat
<1>6. Increasing(one \o Tail(s)) =>
         Increasing(Tail(s)) /\ Below(Range(one), Range(Tail(s)))
  BY ONLY <1>1, <1>3, IncreasingConcat, Zenon
<1>7. PICK whole : whole = one \o Tail(s)
  OBVIOUS
<1>8. Range(s) = {Head(s)} \cup Range(Tail(s))
  BY ONLY <1>3, <1>4, <1>5
<1>9. Increasing(s) => Increasing(Tail(s)) /\ Below({Head(s)}, Range(Tail(s)))
  BY ONLY <1>3, <1>4, <1>6, <1>7, Zenon
<1>10. QED
  BY <1>1, <1>8, <1>9, Zenon

\* What is written of a batch and what is not.
LEMMA IncreasingSplit ==
  ASSUME NEW s \in Seq(Nat), NEW n \in 0..Len(s)
  PROVE  LET a == SubSeq(s, 1, n)
             b == SubSeq(s, n + 1, Len(s))
         IN  /\ a \in Seq(Nat) /\ b \in Seq(Nat)
             /\ Range(s) = Range(a) \cup Range(b)
             /\ Increasing(s) => /\ Increasing(a) /\ Increasing(b)
                                 /\ Below(Range(a), Range(b))
<1> DEFINE a == SubSeq(s, 1, n)
           b == SubSeq(s, n + 1, Len(s))
<1>1. Len(s) \in Nat /\ n \in Nat /\ n <= Len(s)
  BY LenProperties
<1>2. a \in Seq(Nat)
  BY <1>1, LenProperties, SubSeqProperties
<1>3. b \in Seq(Nat)
  BY <1>1, LenProperties, SubSeqProperties
<1>4. a \o b = s
  <2>1. /\ 1 \in 1..Len(s) + 1 /\ n \in (1 - 1)..Len(s)
        /\ Len(s) \in n..Len(s)
    BY <1>1
  <2>2. SubSeq(s, 1, n) \o SubSeq(s, n + 1, Len(s)) = SubSeq(s, 1, Len(s))
    BY ONLY <2>1, s \in Seq(Nat), ConcatAdjacentSubSeq
  <2>3. QED
    BY <2>2, SubSeqFull
<1> HIDE DEF a, b
<1>5. Range(a \o b) = Range(a) \cup Range(b)
  BY ONLY <1>2, <1>3, IncreasingConcat
<1>6. Increasing(a \o b) => /\ Increasing(a) /\ Increasing(b)
                            /\ Below(Range(a), Range(b))
  BY ONLY <1>2, <1>3, IncreasingConcat, Zenon
<1>7. PICK whole : whole = a \o b
  OBVIOUS
<1>8. Range(s) = Range(a) \cup Range(b)
  BY ONLY <1>4, <1>5
<1>9. Increasing(s) => /\ Increasing(a) /\ Increasing(b)
                      /\ Below(Range(a), Range(b))
  BY ONLY <1>4, <1>6, <1>7, Zenon
<1>10. QED
  BY <1>2, <1>3, <1>8, <1>9, Zenon DEF a, b

-----------------------------------------------------------------------------
(* Types *)

\* The constants are numbers.
LEMMA Sizes ==
  /\ QueueSize \in Nat /\ QueueSize > 0 /\ BatchSize \in Nat
  /\ MaxRecords \in Nat /\ MaxStarts \in Nat /\ MaxStarts > 0
  BY SizesAssumption, BoundsAssumption

\* What a batch leaves in the table and what it does not, as records.
LEMMA Written ==
  ASSUME NEW s \in Seq(Ids), NEW n \in 0..Len(s)
  PROVE  /\ SubSeq(s, 1, n) \in Seq(Ids)
         /\ SubSeq(s, n + 1, Len(s)) \in Seq(Ids)
         /\ Range(SubSeq(s, n + 1, Len(s))) \subseteq Ids
<1>1. /\ Len(s) \in Nat /\ n \in Nat /\ n <= Len(s)
      /\ \A i \in 1..Len(s) : s[i] \in Ids
  BY LenProperties
<1>2. SubSeq(s, 1, n) \in Seq(Ids)
  BY <1>1, SubSeqProperties
<1>3. SubSeq(s, n + 1, Len(s)) \in Seq(Ids)
  BY <1>1, SubSeqProperties
<1>4. QED
  BY <1>2, <1>3, RangeOfSeq

\* Every step keeps the types and the size of the queue.
LEMMA TypeStep ==
  ASSUME TypeOK, [Next]_vars
  PROVE  TypeOK'
<1> USE Sizes DEF TypeOK, Ids, memory, fates, Alive, Stopped
<1>1. CASE Enqueue
  <2>1. last + 1 \in Ids
    BY <1>1 DEF Enqueue
  <2>2. /\ Append(queue, last + 1) \in Seq(Ids)
        /\ Len(Append(queue, last + 1)) = Len(queue) + 1
    BY <2>1, AppendProperties
  <2>3. queue' \in Seq(Ids) /\ Len(queue') <= QueueSize
    <3>1. CASE Len(queue) < QueueSize
      <4>1. queue' = Append(queue, last + 1)
        BY ONLY <1>1, <3>1 DEF Enqueue
      <4>2. Len(queue) + 1 <= QueueSize
        BY <3>1, LenProperties
      <4>3. QED
        BY ONLY <2>2, <4>1, <4>2
    <3>2. CASE ~(Len(queue) < QueueSize)
      BY <1>1, <3>2 DEF Enqueue
    <3>3. QED
      BY <3>1, <3>2
  <2>4. QED
    BY <1>1, <2>1, <2>3 DEF Enqueue
<1>2. CASE ConfigureSyslog
  BY <1>2 DEF ConfigureSyslog
<1>3. ASSUME queue # <<>>, batch' = Append(batch, Head(queue)), queue' = Tail(queue)
      PROVE  /\ queue' \in Seq(Ids) /\ Len(queue') <= QueueSize
             /\ batch' \in Seq(Ids)
  <2>1. /\ Head(queue) \in Ids /\ Tail(queue) \in Seq(Ids)
        /\ Len(Tail(queue)) = Len(queue) - 1
    BY <1>3, HeadTailProperties
  <2>2. Append(batch, Head(queue)) \in Seq(Ids)
    BY <2>1, AppendProperties
  <2>3. QED
    BY <1>3, <2>1, <2>2, LenProperties
<1>4. CASE Get
  BY <1>3, <1>4 DEF Get
<1>5. CASE Flush
  BY <1>5 DEF Flush
<1>6. CASE LeaveLoop
  BY <1>6 DEF LeaveLoop
<1>7. CASE Drain
  BY <1>3, <1>7 DEF Drain
<1>8. CASE Insert
  <2>1. PICK n \in 0..Len(batch) :
           /\ rows' = rows \o SubSeq(batch, 1, n)
           /\ lost' = lost \cup Range(SubSeq(batch, n + 1, Len(batch)))
    BY <1>8 DEF Insert
  <2>2. /\ SubSeq(batch, 1, n) \in Seq(Ids)
        /\ Range(SubSeq(batch, n + 1, Len(batch))) \subseteq Ids
    BY Written
  <2>3. rows' \in Seq(Ids) /\ lost' \subseteq Ids
    BY <2>1, <2>2, ConcatProperties
  <2>4. batch' \in Seq(Ids) /\ unsent' \in Seq(Ids)
    BY <1>8, EmptySeq DEF Insert
  <2>5. QED
    BY <1>8, <2>3, <2>4 DEF Insert
<1>9. CASE Forward
  BY <1>9, HeadTailProperties DEF Forward
<1>10. CASE Forwarded
  BY <1>10 DEF Forwarded
<1>11. CASE Purge
  BY <1>11, HeadTailProperties, SMTT(30) DEF Purge
<1>12. CASE StopWriter
  BY <1>12 DEF StopWriter
<1>13. CASE CloseAuditDb
  BY <1>13 DEF CloseAuditDb
<1>14. CASE End
  <2>1. PICK n \in 0..Len(batch) :
           /\ rows' = rows \o SubSeq(batch, 1, n)
           /\ gone' = gone \cup Range(SubSeq(batch, n + 1, Len(batch)) \o queue)
    BY <1>14 DEF End
  <2>2. /\ SubSeq(batch, 1, n) \in Seq(Ids)
        /\ SubSeq(batch, n + 1, Len(batch)) \in Seq(Ids)
    BY Written
  <2>3. rows' \in Seq(Ids)
    BY <2>1, <2>2, ConcatProperties
  <2>4. Range(SubSeq(batch, n + 1, Len(batch)) \o queue) \subseteq Ids
    <3>1. SubSeq(batch, n + 1, Len(batch)) \o queue \in Seq(Ids)
      BY <2>2, ConcatProperties
    <3>2. QED
      BY <3>1, RangeOfSeq
  <2>5. /\ queue' \in Seq(Ids) /\ batch' \in Seq(Ids) /\ unsent' \in Seq(Ids)
        /\ Len(queue') <= QueueSize
    BY <1>14, EmptySeq DEF End
  <2>6. QED
    BY <1>14, <2>1, <2>3, <2>4, <2>5 DEF End
<1>15. CASE Start
  BY <1>15 DEF Start
<1>16. CASE UNCHANGED vars
  BY <1>16 DEF vars
<1>17. QED
  BY <1>1, <1>2, <1>4, <1>5, <1>6, <1>7, <1>8, <1>9, <1>10, <1>11, <1>12,
     <1>13, <1>14, <1>15, <1>16 DEF Next, Writer, Process

\* The first process starts with nothing.
LEMMA TypeInit == Init => TypeOK
<1>1. <<>> \in Seq(Ids) /\ Len(<<>>) = 0
  BY EmptySeq
<1>2. SUFFICES ASSUME Init PROVE TypeOK
  OBVIOUS
<1>3. /\ queue \in Seq(Ids) /\ Len(queue) <= QueueSize
      /\ batch \in Seq(Ids) /\ unsent \in Seq(Ids) /\ rows \in Seq(Ids)
  <2>1. Len(<<>>) <= QueueSize
    BY <1>1, Sizes
  <2>2. queue = <<>> /\ batch = <<>> /\ unsent = <<>> /\ rows = <<>>
    BY <1>2 DEF Init
  <2>3. QED
    BY ONLY <1>1, <2>1, <2>2, Zenon
<1>4. dropped \cup lost \cup purged \cup gone \subseteq Ids
  BY <1>2 DEF Init
<1>5. last \in 0..MaxRecords /\ lastSent \in 0..MaxRecords /\ starts \in 1..MaxStarts
  <2>1. last = 0 /\ lastSent = 0 /\ starts = 1
    BY <1>2 DEF Init
  <2>2. QED
    BY ONLY <2>1, Sizes
<1>6. QED
  BY <1>2, <1>3, <1>4, <1>5, Zenon DEF Init, TypeOK

-----------------------------------------------------------------------------
(* Order and accounts. The invariant speaks of the members of the table,   *)
(* the batch, the queue and the list for syslog: a record that moves from  *)
(* one to the next stays before those behind it. InOrder does not say that *)
(* what syslog still gets comes before the next batch, and without         *)
(* Accounted nothing says that a new record is larger than the old ones.   *)

InTable == Range(rows)
InBatch == Range(batch)
InQueue == Range(queue)
InUnsent == Range(unsent)
InTrail == InTable \cup InBatch \cup InQueue

Sorted ==
    /\ Increasing(rows) /\ Increasing(batch)
    /\ Increasing(queue) /\ Increasing(unsent)

Behind ==
    /\ Below(InTable, InBatch \cup InQueue)
    /\ Below(InBatch, InQueue)
    /\ Below({lastSent}, InUnsent)
    /\ Below({lastSent} \cup InUnsent, InBatch \cup InQueue)
    /\ {lastSent} \cup InUnsent \subseteq 0..last

Accounts ==
    /\ InTrail \cup dropped \cup lost \cup purged \cup gone = 1..last
    /\ InTrail \cap (dropped \cup lost \cup purged \cup gone) = {}
    /\ dropped \cap (lost \cup purged \cup gone) = {}
    /\ lost \cap (purged \cup gone) = {}
    /\ purged \cap gone = {}

Stream == Sorted /\ Behind /\ Accounts

streamVars == <<last, rows, batch, queue, unsent, lastSent, fates>>

\* The records are numbers.
LEMMA Records ==
  ASSUME TypeOK
  PROVE  /\ last \in Nat /\ lastSent \in Nat
         /\ rows \in Seq(Nat) /\ batch \in Seq(Nat)
         /\ queue \in Seq(Nat) /\ unsent \in Seq(Nat)
<1>1. Ids \subseteq Nat
  BY Sizes DEF Ids
<1>2. last \in Nat /\ lastSent \in Nat
  BY Sizes DEF TypeOK
<1>3. \A s \in Seq(Ids) : s \in Seq(Nat)
  BY <1>1, SeqMonotonic
<1>4. QED
  BY <1>2, <1>3 DEF TypeOK

\* A new record is larger than all before it, wherever it goes.
LEMMA EnqueueStep ==
  ASSUME TypeOK, Stream, Enqueue
  PROVE  Stream'
<1>1. last \in Nat /\ lastSent \in Nat /\ queue \in Seq(Nat)
  BY Records
<1>2. CASE Len(queue) < QueueSize
  <2>1. queue' = Append(queue, last + 1)
    BY <1>2 DEF Enqueue
  <2>2. InQueue' = InQueue \cup {last + 1}
    <3>1. last + 1 \in Nat
      BY <1>1
    <3>2. Range(Append(queue, last + 1)) = Range(queue) \cup {last + 1}
      BY ONLY <1>1, <3>1, IncreasingAppend
    <3>3. QED
      BY ONLY <2>1, <3>2 DEF InQueue
  <2>3. /\ last' = last + 1 /\ lastSent' = lastSent
        /\ dropped' = dropped /\ lost' = lost /\ purged' = purged /\ gone' = gone
        /\ InTable' = InTable /\ InBatch' = InBatch /\ InUnsent' = InUnsent
    BY <1>2 DEF Enqueue, InTable, InBatch, InUnsent
  <2>4. Increasing(queue')
    <3>1. Below(InQueue, {last + 1})
      BY <1>1 DEF Stream, Accounts, InTrail, Below
    <3>2. Increasing(queue)
      BY DEF Stream, Sorted
    <3>3. last + 1 \in Nat
      BY <1>1
    <3>4. QED
      BY ONLY <1>1, <2>1, <3>1, <3>2, <3>3, IncreasingAppend, Zenon DEF InQueue
  <2>5. Sorted'
    <3>1. rows' = rows /\ batch' = batch /\ unsent' = unsent
      BY DEF Enqueue
    <3>2. QED
      BY <2>4, <3>1, Zenon DEF Sorted, Stream
  <2>6. Behind'
    BY <1>1, <2>2, <2>3 DEF Stream, Behind, Accounts, Below, InTrail
  <2>7. Accounts'
    BY <1>1, <2>2, <2>3 DEF Stream, Accounts, InTrail
  <2>8. QED
    BY <2>5, <2>6, <2>7, Zenon DEF Stream
<1>3. CASE ~(Len(queue) < QueueSize)
  <2>1. /\ last' = last + 1 /\ lastSent' = lastSent
        /\ dropped' = dropped \cup {last + 1}
        /\ lost' = lost /\ purged' = purged /\ gone' = gone
        /\ queue' = queue /\ rows' = rows /\ batch' = batch /\ unsent' = unsent
    BY <1>3 DEF Enqueue
  <2>2. /\ InTable' = InTable /\ InBatch' = InBatch /\ InUnsent' = InUnsent
        /\ InQueue' = InQueue
    BY <2>1 DEF InTable, InBatch, InUnsent, InQueue
  <2>3. Sorted'
    BY <2>1, Zenon DEF Sorted, Stream
  <2>4. Behind'
    BY <1>1, <2>1, <2>2 DEF Stream, Behind
  <2>5. Accounts'
    BY <1>1, <2>1, <2>2 DEF Stream, Accounts, InTrail
  <2>6. QED
    BY <2>3, <2>4, <2>5, Zenon DEF Stream
<1>4. QED
  BY <1>2, <1>3

\* The writer takes the oldest record of the queue, which is younger than its
\* batch: one get() of the loop or of the drain.
LEMMA TakeStep ==
  ASSUME TypeOK, Stream, queue # <<>>,
         batch' = Append(batch, Head(queue)), queue' = Tail(queue),
         UNCHANGED <<last, unsent, rows, lastSent, fates>>
  PROVE  Stream'
<1> DEFINE x == Head(queue)
<1>1. /\ last \in Nat /\ lastSent \in Nat
      /\ queue \in Seq(Nat) /\ batch \in Seq(Nat)
  BY Records
<1>2. /\ x \in Nat
      /\ InQueue = {x} \cup InQueue'
      /\ InBatch' = InBatch \cup {x}
  <2>1. x \in Nat /\ Range(queue) = {x} \cup Range(Tail(queue))
    BY <1>1, IncreasingTail
  <2>2. Range(Append(batch, x)) = Range(batch) \cup {x}
    BY <1>1, <2>1, IncreasingAppend
  <2>3. QED
    BY <2>1, <2>2 DEF InQueue, InBatch
<1>3. Increasing(queue') /\ Below({x}, InQueue')
  <2>1. Increasing(queue)
    BY DEF Stream, Sorted
  <2>2. Increasing(Tail(queue)) /\ Below({x}, Range(Tail(queue)))
    BY <1>1, <2>1, IncreasingTail, Zenon
  <2>3. QED
    BY <2>2, Zenon DEF InQueue
<1> HIDE DEF x
<1>4. Increasing(batch')
  <2>1. Below(InBatch, {x})
    BY <1>2 DEF Stream, Behind, Below
  <2>2. batch' = Append(batch, x)
    BY DEF x
  <2>3. Increasing(batch)
    BY DEF Stream, Sorted
  <2>4. QED
    BY ONLY <1>1, <1>2, <2>1, <2>2, <2>3, IncreasingAppend, Zenon DEF InBatch
<1>5. /\ last' = last /\ lastSent' = lastSent
      /\ dropped' = dropped /\ lost' = lost /\ purged' = purged /\ gone' = gone
      /\ rows' = rows /\ unsent' = unsent
      /\ InTable' = InTable /\ InUnsent' = InUnsent
  BY DEF InTable, InUnsent, fates
<1>6. Sorted'
  BY <1>3, <1>4, <1>5, Zenon DEF Stream, Sorted
<1>7. Behind'
  BY <1>2, <1>3, <1>5 DEF Stream, Behind, Below
<1>8. Accounts'
  BY <1>2, <1>5 DEF Stream, Accounts, InTrail
<1>9. QED
  BY <1>6, <1>7, <1>8, Zenon DEF Stream

\* Part of a batch enters the table, behind what is there, and the rest gets
\* one fate. The list for syslog is what is left of it or the whole batch.
LEMMA WriteStep ==
  ASSUME TypeOK, Stream, NEW n \in 0..Len(batch),
         rows' = rows \o SubSeq(batch, 1, n), batch' = <<>>
  PROVE  LET rest == Range(SubSeq(batch, n + 1, Len(batch)))
         IN  /\ Increasing(rows') /\ Increasing(batch')
             /\ InBatch = (InTable' \ InTable) \cup rest
             /\ InTable \subseteq InTable'
             /\ InTable' \cap rest = {} /\ InBatch' = {}
<1> DEFINE written == SubSeq(batch, 1, n)
           left == SubSeq(batch, n + 1, Len(batch))
           rest == Range(left)
<1>1. /\ rows \in Seq(Nat) /\ batch \in Seq(Nat)
      /\ Increasing(rows) /\ Increasing(batch)
  BY Records DEF Stream, Sorted
<1>2. /\ written \in Seq(Nat) /\ left \in Seq(Nat)
      /\ InBatch = Range(written) \cup rest
  BY <1>1, IncreasingSplit DEF InBatch
<1>3. Increasing(written) /\ Below(Range(written), rest)
  BY <1>1, IncreasingSplit, Zenon
<1>4. rows' = rows \o written
  OBVIOUS
<1>5. rest \subseteq Nat
  BY <1>2, RangeOfSeq
<1> HIDE DEF written, left
<1>6. InTable' = InTable \cup Range(written)
  BY ONLY <1>1, <1>2, <1>4, IncreasingConcat DEF InTable
<1>7. Increasing(rows')
  <2>1. Below(InTable, Range(written))
    BY <1>2 DEF Stream, Behind, Below
  <2>2. Increasing(rows \o written)
    BY ONLY <1>1, <1>2, <1>3, <2>1, IncreasingConcat, Zenon DEF InTable
  <2>3. QED
    BY ONLY <1>4, <2>2, Zenon
<1>8. Increasing(batch') /\ InBatch' = {}
  BY IncreasingNone DEF InBatch
<1>9. InTable \cap InBatch = {}
  <2>1. InBatch \subseteq Nat
    BY <1>1, RangeOfSeq DEF InBatch
  <2>2. Below(InTable, InBatch)
    BY DEF Stream, Behind, Below
  <2>3. ASSUME NEW x \in InTable, x \in InBatch PROVE FALSE
    <3>1. x \in Nat /\ x < x
      BY <2>1, <2>2, <2>3 DEF Below
    <3>2. QED
      BY ONLY <3>1
  <2>4. QED
    BY ONLY <2>3
<1>10. Range(written) \cap rest = {}
  BY ONLY <1>3, <1>5 DEF Below
<1>11. InBatch = (InTable' \ InTable) \cup rest /\ InTable \subseteq InTable'
       /\ InTable' \cap rest = {}
  BY ONLY <1>2, <1>6, <1>9, <1>10
<1>12. QED
  BY <1>7, <1>8, <1>11, Zenon DEF left

\* An insert writes some of the batch and loses the rest.
LEMMA InsertStep ==
  ASSUME TypeOK, Stream, Insert
  PROVE  Stream'
<1>1. PICK n \in 0..Len(batch) :
         /\ rows' = rows \o SubSeq(batch, 1, n)
         /\ lost' = lost \cup Range(SubSeq(batch, n + 1, Len(batch)))
  BY DEF Insert
<1>2. batch' = <<>>
  BY DEF Insert
<1>3. PICK rest : rest = Range(SubSeq(batch, n + 1, Len(batch)))
  OBVIOUS
<1>4. /\ InBatch = (InTable' \ InTable) \cup rest
      /\ InTable \subseteq InTable' /\ InTable' \cap rest = {} /\ InBatch' = {}
  BY <1>1, <1>2, <1>3, WriteStep
<1>5. Increasing(rows') /\ Increasing(batch')
  BY <1>1, <1>2, WriteStep, Zenon
<1>6. unsent' = batch \/ unsent' = <<>>
  BY DEF Insert
<1>7. InUnsent' \subseteq InBatch
  BY <1>6, IncreasingNone DEF InUnsent, InBatch
<1>8. Increasing(unsent')
  <2>1. Increasing(batch)
    BY DEF Stream, Sorted
  <2>2. QED
    BY ONLY <1>6, <2>1, IncreasingNone, Zenon
<1>9. /\ last' = last /\ lastSent' = lastSent
      /\ dropped' = dropped /\ lost' = lost \cup rest
      /\ purged' = purged /\ gone' = gone
      /\ queue' = queue /\ InQueue' = InQueue
  BY <1>1, <1>3 DEF Insert, InQueue
<1>10. Sorted'
  BY <1>5, <1>8, <1>9, Zenon DEF Stream, Sorted
<1>11. /\ InTable' \subseteq InTable \cup InBatch
       /\ InUnsent' \subseteq InBatch /\ InBatch' = {}
  BY <1>4, <1>7
<1>12. Behind'
  <2>1. last \in Nat /\ lastSent \in Nat
    BY Records
  <2>2. InBatch \subseteq 1..last
    BY DEF Stream, Accounts, InTrail
  <2>3. Below(InTable', InBatch' \cup InQueue') /\ Below(InBatch', InQueue')
    BY <1>9, <1>11 DEF Stream, Behind, Below
  <2>4. Below({lastSent}, InUnsent') /\ Below({lastSent} \cup InUnsent', InBatch' \cup InQueue')
    BY <1>9, <1>11 DEF Stream, Behind, Below
  <2>5. {lastSent} \cup InUnsent' \subseteq 0..last
    BY <1>11, <2>1, <2>2 DEF Stream, Behind
  <2>6. QED
    BY <1>9, <2>3, <2>4, <2>5 DEF Behind
<1>13. InBatch \cap InQueue = {}
  <2>1. Below(InBatch, InQueue) /\ InQueue \subseteq Nat
    BY Records, RangeOfSeq DEF Stream, Behind, InQueue
  <2>2. ASSUME NEW x \in InBatch, x \in InQueue PROVE FALSE
    <3>1. x \in Nat /\ x < x
      BY <2>1, <2>2 DEF Below
    <3>2. QED
      BY ONLY <3>1
  <2>3. QED
    BY ONLY <2>2
<1>14. Accounts'
  BY <1>4, <1>9, <1>13 DEF Stream, Accounts, InTrail
<1>15. QED
  BY <1>10, <1>12, <1>14, Zenon DEF Stream

\* Syslog gets the oldest record it has not got.
LEMMA ForwardStep ==
  ASSUME TypeOK, Stream, Forward
  PROVE  Stream'
<1> DEFINE x == Head(unsent)
<1>1. unsent \in Seq(Nat) /\ unsent # <<>> /\ unsent' = Tail(unsent)
  BY Records DEF Forward
<1>2. x \in Nat /\ InUnsent = {x} \cup InUnsent'
  BY <1>1, IncreasingTail DEF InUnsent
<1>3. Increasing(unsent') /\ Below({x}, InUnsent')
  <2>1. Increasing(unsent)
    BY DEF Stream, Sorted
  <2>2. Increasing(Tail(unsent)) /\ Below({x}, Range(Tail(unsent)))
    BY <1>1, <2>1, IncreasingTail, Zenon
  <2>3. QED
    BY <1>1, <2>2, Zenon DEF InUnsent
<1>4. lastSent' \in {lastSent, x}
  BY DEF Forward
<1> HIDE DEF x
<1>5. /\ last' = last /\ rows' = rows /\ batch' = batch /\ queue' = queue
      /\ dropped' = dropped /\ lost' = lost /\ purged' = purged /\ gone' = gone
      /\ InTable' = InTable /\ InBatch' = InBatch /\ InQueue' = InQueue
  BY DEF Forward, fates, InTable, InBatch, InQueue
<1>6. Sorted'
  BY <1>3, <1>5, Zenon DEF Stream, Sorted
<1>7. Behind'
  BY <1>2, <1>3, <1>4, <1>5 DEF Stream, Behind, Below
<1>8. Accounts'
  BY <1>5 DEF Stream, Accounts, InTrail
<1>9. QED
  BY <1>6, <1>7, <1>8, Zenon DEF Stream

\* The retention job takes the oldest row.
LEMMA PurgeStep ==
  ASSUME TypeOK, Stream, Purge
  PROVE  Stream'
<1> DEFINE x == Head(rows)
<1>1. rows \in Seq(Nat) /\ rows # <<>> /\ rows' = Tail(rows)
  BY Records DEF Purge
<1>2. x \in Nat /\ InTable = {x} \cup InTable'
  BY <1>1, IncreasingTail DEF InTable
<1>3. Increasing(rows') /\ Below({x}, InTable')
  <2>1. Increasing(rows)
    BY DEF Stream, Sorted
  <2>2. Increasing(Tail(rows)) /\ Below({x}, Range(Tail(rows)))
    BY <1>1, <2>1, IncreasingTail, Zenon
  <2>3. QED
    BY <1>1, <2>2, Zenon DEF InTable
<1>4. purged' = purged \cup {x}
  BY DEF Purge
<1> HIDE DEF x
<1>5. /\ last' = last /\ lastSent' = lastSent
      /\ batch' = batch /\ queue' = queue /\ unsent' = unsent
      /\ dropped' = dropped /\ lost' = lost /\ gone' = gone
      /\ InBatch' = InBatch /\ InQueue' = InQueue /\ InUnsent' = InUnsent
  BY DEF Purge, memory, InBatch, InQueue, InUnsent
<1>6. x \notin InTable' /\ x \notin InBatch \cup InQueue
  <2>1. Below({x}, InTable') /\ Below({x}, InBatch \cup InQueue)
    BY <1>2, <1>3 DEF Stream, Behind, Below
  <2>2. ~(x < x)
    BY <1>2
  <2>3. QED
    BY ONLY <2>1, <2>2 DEF Below
<1>7. Sorted'
  BY <1>3, <1>5, Zenon DEF Stream, Sorted
<1>8. Behind'
  BY <1>2, <1>5 DEF Stream, Behind, Below
<1>9. Accounts'
  BY <1>2, <1>4, <1>5, <1>6 DEF Stream, Accounts, InTrail
<1>10. QED
  BY <1>7, <1>8, <1>9, Zenon DEF Stream

\* What a process had in memory when it ended is gone, but for the rows an
\* insert had written.
LEMMA EndStep ==
  ASSUME TypeOK, Stream, End
  PROVE  Stream'
<1>1. PICK n \in 0..Len(batch) :
         /\ rows' = rows \o SubSeq(batch, 1, n)
         /\ gone' = gone \cup Range(SubSeq(batch, n + 1, Len(batch)) \o queue)
  BY DEF End
<1>2. batch' = <<>> /\ queue' = <<>> /\ unsent' = <<>>
  BY DEF End
<1>3. PICK rest : rest = Range(SubSeq(batch, n + 1, Len(batch)))
  OBVIOUS
<1>4. /\ InBatch = (InTable' \ InTable) \cup rest
      /\ InTable \subseteq InTable' /\ InTable' \cap rest = {} /\ InBatch' = {}
  BY <1>1, <1>2, <1>3, WriteStep
<1>5. Increasing(rows') /\ Increasing(batch')
  BY <1>1, <1>2, WriteStep, Zenon
<1>6. Range(SubSeq(batch, n + 1, Len(batch)) \o queue) = rest \cup InQueue
  <2>1. batch \in Seq(Nat) /\ queue \in Seq(Nat)
    BY Records
  <2>2. SubSeq(batch, n + 1, Len(batch)) \in Seq(Nat)
    BY <2>1, IncreasingSplit
  <2>3. QED
    BY <1>3, <2>1, <2>2, RangeConcatenation, ZenonT(30) DEF InQueue
<1>7. /\ last' = last /\ lastSent' = lastSent
      /\ dropped' = dropped /\ lost' = lost /\ purged' = purged
      /\ gone' = gone \cup rest \cup InQueue
  BY <1>1, <1>6 DEF End
<1>8. /\ Increasing(queue') /\ Increasing(unsent')
      /\ InQueue' = {} /\ InUnsent' = {}
  BY <1>2, IncreasingNone DEF InQueue, InUnsent
<1>9. Sorted'
  BY <1>5, <1>8, Zenon DEF Sorted
<1>10. Behind'
  BY <1>4, <1>7, <1>8 DEF Stream, Behind, Below
<1>11. InTable' \cap InQueue = {}
  <2>1. /\ InTable' \subseteq InTable \cup InBatch
        /\ Below(InTable, InQueue) /\ Below(InBatch, InQueue)
    BY <1>4 DEF Stream, Behind, Below
  <2>2. InQueue \subseteq Nat
    BY Records, RangeOfSeq DEF InQueue
  <2>3. ASSUME NEW x \in InTable', x \in InQueue PROVE FALSE
    <3>1. x \in Nat /\ x < x
      BY <2>1, <2>2, <2>3 DEF Below
    <3>2. QED
      BY ONLY <3>1
  <2>4. QED
    BY ONLY <2>3
<1>12. Accounts'
  BY <1>4, <1>7, <1>8, <1>11 DEF Stream, Accounts, InTrail
<1>13. QED
  BY <1>9, <1>10, <1>12, Zenon DEF Stream

\* Order and accounts are kept by every step.
LEMMA StreamStep ==
  ASSUME TypeOK, Stream, [Next]_vars
  PROVE  Stream'
<1>1. CASE Enqueue
  BY <1>1, EnqueueStep
<1>2. CASE Get \/ Drain
  BY <1>2, TakeStep DEF Get, Drain
<1>3. CASE Insert
  BY <1>3, InsertStep
<1>4. CASE Forward
  BY <1>4, ForwardStep
<1>5. CASE Purge
  BY <1>5, PurgeStep
<1>6. CASE End
  BY <1>6, EndStep
<1>7. CASE UNCHANGED streamVars
  <2>1. /\ last' = last /\ lastSent' = lastSent
        /\ rows' = rows /\ batch' = batch /\ queue' = queue /\ unsent' = unsent
        /\ dropped' = dropped /\ lost' = lost /\ purged' = purged /\ gone' = gone
    BY <1>7 DEF streamVars, fates
  <2>2. /\ InTable' = InTable /\ InBatch' = InBatch
        /\ InQueue' = InQueue /\ InUnsent' = InUnsent
    BY <2>1 DEF InTable, InBatch, InQueue, InUnsent
  <2>3. Sorted'
    BY <2>1, Zenon DEF Stream, Sorted
  <2>4. Behind'
    BY <2>1, <2>2 DEF Stream, Behind
  <2>5. Accounts'
    BY <2>1, <2>2 DEF Stream, Accounts, InTrail
  <2>6. QED
    BY <2>3, <2>4, <2>5, Zenon DEF Stream
<1>8. CASE ConfigureSyslog \/ Flush \/ LeaveLoop \/ Forwarded
  BY <1>7, <1>8 DEF ConfigureSyslog, Flush, LeaveLoop, Forwarded, streamVars, memory
<1>9. CASE StopWriter \/ CloseAuditDb \/ Start
  BY <1>7, <1>9 DEF StopWriter, CloseAuditDb, Start, streamVars, memory
<1>10. CASE UNCHANGED vars
  BY <1>7, <1>10 DEF vars, streamVars, memory
<1>11. QED
  BY <1>1, <1>2, <1>3, <1>4, <1>5, <1>6, <1>8, <1>9, <1>10 DEF Next, Writer, Process

\* Nothing was recorded yet.
LEMMA StreamInit == Init => Stream
<1>1. SUFFICES ASSUME Init PROVE Stream
  OBVIOUS
<1>2. rows = <<>> /\ batch = <<>> /\ queue = <<>> /\ unsent = <<>>
  BY <1>1 DEF Init
<1>3. Sorted
  BY <1>2, IncreasingNone, Zenon DEF Sorted
<1>4. InTable = {} /\ InBatch = {} /\ InQueue = {} /\ InUnsent = {}
  BY ONLY <1>2, IncreasingNone, Zenon DEF InTable, InBatch, InQueue, InUnsent
<1>5. /\ last = 0 /\ lastSent = 0
      /\ dropped = {} /\ lost = {} /\ purged = {} /\ gone = {}
  BY <1>1 DEF Init
<1>6. Behind
  BY ONLY <1>4, <1>5 DEF Behind, Below
<1>7. Accounts
  BY ONLY <1>4, <1>5 DEF Accounts, InTrail
<1>8. QED
  BY <1>3, <1>6, <1>7, Zenon DEF Stream

-----------------------------------------------------------------------------
(* The end of the writer *)

\* Once the writer has left its loop nobody enqueues any more, and it leaves
\* the drain, its last insert and the last list for syslog one by one empty.
Draining ==
    /\ pc \in {"drain", "lastinsert", "lastforward", "ended"} => phase # "up"
    /\ pc \in {"lastinsert", "lastforward", "ended"} => queue = <<>>
    /\ pc \in {"lastforward", "ended"} => batch = <<>>
    /\ pc = "ended" => unsent = <<>>

\* Every step keeps what is drained empty.
LEMMA DrainingStep ==
  ASSUME TypeOK, Draining, [Next]_vars
  PROVE  Draining'
<1> USE DEF Draining, memory, fates, Alive, Stopped
<1>1. CASE Enqueue
  BY <1>1 DEF Enqueue
<1>2. CASE ConfigureSyslog
  BY <1>2 DEF ConfigureSyslog
<1>3. CASE Get
  BY <1>3 DEF Get
<1>4. CASE Flush
  BY <1>4 DEF Flush
<1>5. CASE LeaveLoop
  BY <1>5 DEF LeaveLoop
<1>6. CASE Drain
  BY <1>6 DEF Drain
<1>7. CASE Insert
  BY <1>7 DEF Insert
<1>8. CASE Forward
  BY <1>8 DEF Forward
<1>9. CASE Forwarded
  BY <1>9 DEF Forwarded
<1>10. CASE Purge
  BY <1>10 DEF Purge
<1>11. CASE StopWriter
  BY <1>11 DEF StopWriter
<1>12. CASE CloseAuditDb
  BY <1>12 DEF CloseAuditDb
<1>13. CASE End
  BY <1>13 DEF End
<1>14. CASE Start
  BY <1>14 DEF Start
<1>15. CASE UNCHANGED vars
  BY <1>15 DEF vars
<1>16. QED
  BY <1>1, <1>2, <1>3, <1>4, <1>5, <1>6, <1>7, <1>8, <1>9, <1>10, <1>11, <1>12,
     <1>13, <1>14, <1>15 DEF Next, Writer, Process

-----------------------------------------------------------------------------

\* The writer, the table and the fates of records are well typed in every
\* reachable state, and the queue never has more records than its size.
THEOREM Typing == Spec => []TypeOK
  BY TypeInit, TypeStep, PTL DEF Spec

\* Order and accounts hold in every reachable state.
LEMMA StreamInvariance == Spec => []Stream
  BY TypeInit, TypeStep, StreamInit, StreamStep, PTL DEF Spec

\* The table has the records in the order of the requests, none of them twice,
\* with the batch and the queue behind it, and syslog gets them in that order,
\* whatever inserts fail and however processes end.
THEOREM TrailInOrder == Spec => []InOrder
<1>1. ASSUME TypeOK, Stream PROVE InOrder
  <2>1. /\ rows \in Seq(Nat) /\ batch \in Seq(Nat) /\ queue \in Seq(Nat)
        /\ unsent \in Seq(Nat) /\ lastSent \in Nat
    BY <1>1, Records
  <2>2. /\ Increasing(rows) /\ Increasing(batch) /\ Increasing(queue)
        /\ Increasing(unsent)
    BY <1>1, Zenon DEF Stream, Sorted
  <2>3. /\ Below(InTable, InBatch) /\ Below(InTable \cup InBatch, InQueue)
        /\ Below({lastSent}, InUnsent)
    BY <1>1 DEF Stream, Behind, Below
  <2>4. PICK written : written = rows \o batch
    OBVIOUS
  <2>5. written \in Seq(Nat) /\ Range(written) = InTable \cup InBatch
    BY ONLY <2>1, <2>4, IncreasingConcat DEF InTable, InBatch
  <2>6. Increasing(written)
    BY ONLY <2>1, <2>2, <2>3, <2>4, IncreasingConcat, Zenon DEF InTable, InBatch
  <2>7. Increasing(written \o queue)
    BY ONLY <2>1, <2>2, <2>3, <2>5, <2>6, IncreasingConcat, ZenonT(30) DEF InQueue
  <2>8. Increasing(Trail)
    BY ONLY <2>4, <2>7, Zenon DEF Trail
  <2>9. PICK one : one = <<lastSent>>
    OBVIOUS
  <2>10. one \in Seq(Nat) /\ Range(one) = {lastSent} /\ Increasing(one)
    BY <2>1, <2>9, IncreasingOne
  <2>11. Increasing(one \o unsent)
    BY ONLY <2>1, <2>2, <2>3, <2>10, IncreasingConcat, ZenonT(30) DEF InUnsent
  <2>12. QED
    BY <2>8, <2>9, <2>11, Zenon DEF InOrder
<1>2. QED
  BY <1>1, Typing, StreamInvariance, PTL

\* Every record is in the trail or met exactly one fate: dropped and counted,
\* lost with its insert, purged, or gone with its process.
THEOREM NoRecordForgotten == Spec => []Accounted
<1>1. ASSUME TypeOK, Stream PROVE Accounted
  <2>1. /\ rows \in Seq(Nat) /\ batch \in Seq(Nat) /\ queue \in Seq(Nat)
    BY <1>1, Records
  <2>2. Range(Trail) = InTrail
    <3>1. rows \o batch \in Seq(Nat) /\ Range(rows \o batch) = InTable \cup InBatch
      BY <2>1, IncreasingConcat DEF InTable, InBatch
    <3>2. Range((rows \o batch) \o queue) = Range(rows \o batch) \cup InQueue
      BY <2>1, <3>1, IncreasingConcat DEF InQueue
    <3>3. QED
      BY <3>1, <3>2 DEF Trail, InTrail
  <2>3. Range(Trail) \cup UNION {dropped, lost, purged, gone} = 1..last
    BY <1>1, <2>2 DEF Stream, Accounts
  <2>4. ASSUME NEW f \in {<<1, Range(Trail)>>, <<2, dropped>>, <<3, lost>>,
                          <<4, purged>>, <<5, gone>>},
               NEW g \in {<<1, Range(Trail)>>, <<2, dropped>>, <<3, lost>>,
                          <<4, purged>>, <<5, gone>>},
               f # g
        PROVE  f[2] \cap g[2] = {}
    BY <1>1, <2>2, <2>4 DEF Stream, Accounts
  <2>5. QED
    BY <2>3, <2>4 DEF Accounted
<1>2. QED
  BY <1>1, Typing, StreamInvariance, PTL

\* A writer that ended by itself left nothing in the queue, in its batch or in
\* the list for syslog.
THEOREM NothingLeftBehind == Spec => []DrainedAtEnd
<1>1. Init => Draining
  BY DEF Init, Draining
<1>2. Draining => DrainedAtEnd
  BY DEF Draining, DrainedAtEnd
<1>3. QED
  BY <1>1, <1>2, DrainingStep, Typing, PTL DEF Spec
=============================================================================
