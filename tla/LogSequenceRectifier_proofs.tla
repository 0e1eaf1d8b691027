--------------------- MODULE LogSequenceRectifier_proofs ---------------------
(***************************************************************************)
(* For every log and every length of the buffer: the copy is complete, the *)
(* program says so if it is out of sequence, and a log whose messages are  *)
(* less than the buffer's length out of place is put in sequence.          *)
(***************************************************************************)
EXTENDS LogSequenceRectifier, FiniteSetTheorems, TLAPS

\* What was written, and what the program knows of it.
OutInv ==
    /\ out \in Seq(Messages)
    /\ last_write_timestamp \in Nat
    /\ error \in BOOLEAN
    /\ error <=> ~Sorted
    /\ \A i, j \in DOMAIN out : out[i] = out[j] => i = j
    /\ IF out = <<>> THEN last_write_timestamp = 0
       ELSE last_write_timestamp = log[out[Len(out)]]

\* The counter counts the buffer, which is what was read and not written.
BufferInv ==
    /\ read \in 0 .. Len(log)
    /\ buffer \in SUBSET (1 .. read)
    /\ IsFiniteSet(buffer)
    /\ N \in Nat
    /\ Cardinality(buffer) = N
    /\ N < kBufferLength
    /\ Written = (1 .. read) \ buffer

\* Of a close log, nothing is written before something that precedes it.
CloseInv ==
    Close => \A w \in Written, e \in Messages \ Written : log[w] <= log[e]

RectifierInv ==
    /\ log \in Logs /\ log \in Seq(Nat)
    /\ pc \in {"reading", "flushing", "done"}
    /\ pc # "reading" => read = Len(log)
    /\ pc = "done" => N = 0
    /\ OutInv
    /\ BufferInv
    /\ CloseInv

------------------------------------------------------------------------------
\* A set of as many messages as the buffer holds reaches back by that many.
LEMMA Pigeonhole ==
    ASSUME NEW r \in Nat, NEW B \in Nat \ {0}, NEW list \in SUBSET (1 .. r),
           Cardinality(list) = B
    PROVE  \E g \in list : g <= r - B + 1
<1>1. SUFFICES ASSUME \A g \in list : g > r - B + 1
               PROVE  FALSE
  OBVIOUS
<1>2. list \in SUBSET ((r - B + 2) .. r)
  BY <1>1
<1>3. /\ IsFiniteSet((r - B + 2) .. r)
      /\ Cardinality((r - B + 2) .. r) = IF r - B + 2 > r THEN 0 ELSE r - (r - B + 2) + 1
  BY FS_Interval
<1>4. Cardinality(list) <= Cardinality((r - B + 2) .. r)
  BY <1>2, <1>3, FS_Subset
<1>5. Cardinality((r - B + 2) .. r) = B - 1
  BY <1>3
<1> QED
  BY <1>4, <1>5

\* What is appended is written, too.
LEMMA WrittenAppend ==
    ASSUME out \in Seq(Messages), NEW x \in Messages, out' = Append(out, x)
    PROVE  Written' = Written \cup {x}
<1>1. /\ Len(out) \in Nat
      /\ DOMAIN out' = 1 .. Len(out) + 1 /\ DOMAIN out = 1 .. Len(out)
      /\ out'[Len(out) + 1] = x
      /\ \A i \in 1 .. Len(out) : out'[i] = out[i]
  OBVIOUS
<1>2. ASSUME NEW w \in Written'
      PROVE  w \in Written \cup {x}
  <2>1. PICK i \in 1 .. Len(out) + 1 : w = out'[i]
    BY <1>1, <1>2 DEF Written
  <2>2. i = Len(out) + 1 \/ i \in 1 .. Len(out)
    BY <1>1, <2>1
  <2> QED
    BY <1>1, <2>1, <2>2 DEF Written
<1>3. x \in Written'
  <2>1. Len(out) + 1 \in DOMAIN out'
    BY <1>1
  <2> QED
    BY <1>1, <2>1 DEF Written
<1>4. ASSUME NEW w \in Written
      PROVE  w \in Written'
  <2>1. PICK i \in 1 .. Len(out) : w = out[i]
    BY <1>1, <1>4 DEF Written
  <2>2. i \in DOMAIN out' /\ out'[i] = w
    BY <1>1, <2>1
  <2> QED
    BY <2>2 DEF Written
<1> QED
  BY <1>2, <1>3, <1>4

\* Writing the front of a list keeps what is known of the copy.
LEMMA FrontWritten ==
    ASSUME log \in Seq(Nat), OutInv, log' = log,
           NEW r \in 0 .. Len(log), NEW list \in SUBSET (1 .. r), IsFiniteSet(list),
           NEW count \in Nat, Cardinality(list) = count,
           Written = (1 .. r) \ list, WriteFront(list, count)
    PROVE  /\ OutInv'
           /\ count >= 1
           /\ N' = count - 1
           /\ buffer' \in SUBSET (1 .. r) /\ IsFiniteSet(buffer')
           /\ Cardinality(buffer') = N'
           /\ Written' = (1 .. r) \ buffer'
<1>1. PICK x \in list :
          /\ IsFront(x, list)
          /\ out' = Append(out, x)
          /\ error' = (error \/ TooLate(x))
          /\ last_write_timestamp' = log[x]
          /\ buffer' = list \ {x}
          /\ N' = count - 1
  BY DEF WriteFront
<1>2. /\ x \in Messages /\ x \notin Written /\ x \in 1 .. Len(log) /\ log[x] \in Nat
      /\ out \in Seq(Messages) /\ Len(out) \in Nat
  BY SMTT(30) DEF OutInv, Messages
<1>3. /\ out' \in Seq(Messages)
      /\ Len(out') = Len(out) + 1
      /\ DOMAIN out' = 1 .. Len(out) + 1
      /\ out'[Len(out) + 1] = x
      /\ \A i \in 1 .. Len(out) : out'[i] = out[i]
      /\ DOMAIN out = 1 .. Len(out)
      /\ \A i \in 1 .. Len(out) : out[i] \in 1 .. Len(log) /\ log[out[i]] \in Nat
      /\ out' # <<>>
  <2>1. /\ out' = Append(out, x) /\ x \in Messages /\ out \in Seq(Messages)
        /\ Len(out) \in Nat
    BY <1>1, <1>2
  <2>2. /\ out' \in Seq(Messages)
        /\ Len(out') = Len(out) + 1
        /\ out'[Len(out) + 1] = x
        /\ \A i \in 1 .. Len(out) : out'[i] = out[i]
    BY <2>1
  <2>3. DOMAIN out' = 1 .. Len(out) + 1 /\ DOMAIN out = 1 .. Len(out)
    BY <2>1, <2>2
  <2>4. \A i \in 1 .. Len(out) : out[i] \in Messages
    BY <2>1
  <2>5. \A m \in Messages : m \in 1 .. Len(log) /\ log[m] \in Nat
    BY DEF Messages
  <2>6. out' # <<>>
    BY <2>1, <2>2
  <2> QED
    BY <2>2, <2>3, <2>4, <2>5, <2>6 DEF Messages
<1>4. \A i \in 1 .. Len(out) : out[i] # x
  BY <1>2, <1>3 DEF Written
<1>5. Sorted' <=> (Sorted /\ ~TooLate(x))
  <2>1. CASE out = <<>>
    BY <1>2, <1>3, <2>1 DEF Sorted, OutInv, TooLate
  <2>2. CASE out # <<>>
    <3>1. last_write_timestamp = log[out[Len(out)]] /\ Len(out) \in 1 .. Len(out)
      BY <2>2, <1>2 DEF OutInv
    <3>2. ASSUME Sorted'
          PROVE  Sorted /\ ~TooLate(x)
      <4>1. Sorted
        BY SMTT(30), <3>2, <1>3 DEF Sorted
      <4>2. log[out'[Len(out)]] <= log[out'[Len(out) + 1]]
        <5>1. /\ Len(out) \in 1 .. Len(out) + 1 /\ Len(out) + 1 \in 1 .. Len(out) + 1
              /\ Len(out) < Len(out) + 1
          BY <1>2, <3>1
        <5>2. Len(out) \in DOMAIN out' /\ Len(out) + 1 \in DOMAIN out'
          BY <5>1, <1>3
        <5>3. \A i, j \in DOMAIN out' : i < j => log[out'[i]] <= log[out'[j]]
          BY <3>2 DEF Sorted
        <5> QED
          BY <5>1, <5>2, <5>3
      <4>3. log[out[Len(out)]] <= log[x]
        BY <4>2, <1>3, <3>1
      <4>4. log[out[Len(out)]] \in Nat /\ log[x] \in Nat
        BY <3>1, <1>2, <1>3
      <4>5. ~(log[x] < log[out[Len(out)]])
        BY <4>3, <4>4
      <4>6. ~TooLate(x)
        BY <4>5, <3>1, Zenon DEF TooLate
      <4> QED
        BY <4>1, <4>6
    <3>3. ASSUME Sorted, ~TooLate(x)
          PROVE  Sorted'
      <4>1. log[out[Len(out)]] <= log[x]
        BY SMTT(30), <3>3, <3>1, <1>2, <1>3 DEF TooLate
      <4>2. \A i \in 1 .. Len(out) : log[out[i]] <= log[x]
        <5> SUFFICES ASSUME NEW i \in 1 .. Len(out)
                     PROVE  log[out[i]] <= log[x]
          OBVIOUS
        <5>1. log[out[i]] <= log[out[Len(out)]]
          <6>1. CASE i = Len(out)
            BY <6>1, <1>3
          <6>2. CASE i # Len(out)
            <7>1. i < Len(out)
              BY <6>2, <1>2
            <7>2. i \in DOMAIN out /\ Len(out) \in DOMAIN out
              BY <3>1, <1>3
            <7> QED
              BY <7>1, <7>2, <3>3 DEF Sorted
          <6> QED
            BY <6>1, <6>2
        <5>2. /\ log[out[i]] \in Nat /\ log[out[Len(out)]] \in Nat /\ log[x] \in Nat
          BY <1>2, <1>3, <3>1
        <5> DEFINE a == log[out[i]]
                   b == log[out[Len(out)]]
                   c == log[x]
        <5>3. a <= b /\ b <= c /\ a \in Nat /\ b \in Nat /\ c \in Nat
          BY <5>1, <5>2, <4>1
        <5> HIDE DEF a, b, c
        <5>4. a <= c
          BY <5>3
        <5> QED
          BY <5>4 DEF a, c
      <4>3. SUFFICES ASSUME NEW i \in 1 .. Len(out) + 1, NEW j \in 1 .. Len(out) + 1, i < j
                     PROVE  log[out'[i]] <= log[out'[j]]
        BY <1>3 DEF Sorted
      <4>4. CASE j = Len(out) + 1
        <5>1. i \in 1 .. Len(out) /\ out'[i] = out[i] /\ out'[j] = x
          BY <4>3, <4>4, <1>2, <1>3
        <5> QED
          BY <5>1, <4>2
      <4>5. CASE j # Len(out) + 1
        <5>1. /\ i \in DOMAIN out /\ j \in DOMAIN out
              /\ out'[i] = out[i] /\ out'[j] = out[j]
          <6>1. i \in 1 .. Len(out) /\ j \in 1 .. Len(out)
            <7>1. Len(out) \in Nat /\ i \in Int /\ j \in Int /\ 1 <= i /\ i < j
              BY <1>2, <4>3
            <7>2. j <= Len(out)
              BY SMTT(30), <7>1, <4>5
            <7> QED
              BY <7>1, <7>2
          <6>2. i \in DOMAIN out /\ j \in DOMAIN out
            BY <6>1, <1>3
          <6>3. out'[i] = out[i] /\ out'[j] = out[j]
            BY <6>1, <1>3
          <6> QED
            BY <6>2, <6>3
        <5> QED
          BY <5>1, <3>3, <4>3 DEF Sorted
      <4> QED
        BY <4>4, <4>5
    <3> QED
      BY <3>2, <3>3
  <2> QED
    BY <2>1, <2>2
<1>6. error' \in BOOLEAN /\ (error' <=> ~Sorted')
  BY <1>1, <1>5, Zenon DEF OutInv
<1>7. \A i, j \in DOMAIN out' : out'[i] = out'[j] => i = j
  <2> SUFFICES ASSUME NEW i \in 1 .. Len(out) + 1, NEW j \in 1 .. Len(out) + 1,
                      out'[i] = out'[j]
               PROVE  i = j
    BY <1>3
  <2>1. CASE i = Len(out) + 1
    BY SMTT(30), <2>1, <1>2, <1>3, <1>4
  <2>2. CASE j = Len(out) + 1
    BY SMTT(30), <2>2, <1>2, <1>3, <1>4
  <2>3. CASE i # Len(out) + 1 /\ j # Len(out) + 1
    <3>1. /\ i \in DOMAIN out /\ j \in DOMAIN out
          /\ out'[i] = out[i] /\ out'[j] = out[j]
      BY SMTT(30), <2>3, <1>2, <1>3
    <3> QED
      BY <3>1 DEF OutInv
  <2> QED
    BY <2>1, <2>2, <2>3
<1>8. Written' = Written \cup {x}
  BY <1>2, WrittenAppend, <1>1
<1>9. /\ IsFiniteSet(buffer')
      /\ Cardinality(buffer') = count - 1
  BY <1>1, FS_RemoveElement
<1>10. OutInv'
  <2>1. Messages' = Messages
    BY DEF Messages
  <2>2. last_write_timestamp' \in Nat /\ last_write_timestamp' = log'[out'[Len(out')]]
    BY <1>1, <1>2, <1>3
  <2> QED
    BY <2>1, <2>2, <1>3, <1>6, <1>7 DEF OutInv
<1>11. count >= 1
  BY <1>1, FS_EmptySet
<1> QED
  BY <1>1, <1>8, <1>9, <1>10, <1>11

\* The front of a list that is full, or of the last, precedes what is left.
LEMMA FrontPrecedes ==
    ASSUME log \in Seq(Nat), OutInv, CloseInv, log' = log,
           kBufferLength \in Nat \ {0},
           NEW r \in 0 .. Len(log), NEW list \in SUBSET (1 .. r),
           NEW count, Cardinality(list) = count,
           Written = (1 .. r) \ list, WriteFront(list, count),
           count = kBufferLength \/ r = Len(log)
    PROVE  CloseInv' /\ (Close => error' = error)
<1>1. PICK x \in list :
          /\ IsFront(x, list)
          /\ out' = Append(out, x)
          /\ error' = (error \/ TooLate(x))
  BY DEF WriteFront
<1>2. x \in Messages \ Written /\ Messages' = Messages /\ (Close' <=> Close)
  BY DEF Messages, Close
<1>3. Written' = Written \cup {x}
  BY <1>1, <1>2, WrittenAppend DEF OutInv
<1>4. ASSUME Close, NEW e \in Messages \ Written, e # x
      PROVE  log[x] <= log[e]
  <2>1. /\ x \in 1 .. Len(log) /\ e \in 1 .. Len(log)
        /\ log[x] \in Nat /\ log[e] \in Nat
    BY <1>2, <1>4 DEF Messages
  <2>2. CASE e \in list
    BY <1>1, <2>1, <2>2 DEF IsFront, Precedes
  <2>3. CASE e \notin list
    <3>1. e > r /\ count = kBufferLength
      BY <2>1, <2>3, <1>4
    <3>2. PICK g \in list : g <= r - kBufferLength + 1
      BY SMTT(30), <3>1, Pigeonhole
    <3>3. log[x] <= log[g] /\ g \in 1 .. r /\ g \in 1 .. Len(log) /\ log[g] \in Nat
      <4>1. g \in 1 .. r /\ g \in 1 .. Len(log)
        OBVIOUS
      <4>2. log[g] \in Nat
        BY <4>1
      <4>3. log[x] < log[g] \/ log[x] = log[g]
        BY <1>1, <3>2, Zenon DEF IsFront, Precedes
      <4> QED
        BY <4>1, <4>2, <4>3, <2>1
    <3>4. g < e /\ ~(e - g < kBufferLength)
      BY <3>1, <3>2, <3>3, <2>1
    <3>5. ~(log[g] > log[e])
      BY <3>3, <3>4, <2>1, <1>4 DEF Close, Messages
    <3> QED
      BY <3>3, <3>5, <2>1
  <2> QED
    BY <2>2, <2>3
<1>5. CloseInv'
  BY <1>2, <1>3, <1>4 DEF CloseInv
<1>6. ASSUME Close
      PROVE  ~TooLate(x)
  <2>1. x \in 1 .. Len(log) /\ log[x] \in Nat
    BY <1>2 DEF Messages
  <2>2. CASE out = <<>>
    BY <2>1, <2>2 DEF OutInv, TooLate
  <2>3. CASE out # <<>>
    <3>1. Len(out) \in DOMAIN out /\ out[Len(out)] \in 1 .. Len(log)
      BY SMTT(30), <2>3 DEF OutInv, Messages
    <3>2. out[Len(out)] \in Written
      BY <3>1 DEF Written
    <3>3. log[out[Len(out)]] <= log[x]
      BY <3>2, <1>2, <1>6 DEF CloseInv
    <3> QED
      BY <3>3, <3>1, <2>1, <2>3 DEF OutInv, TooLate
  <2> QED
    BY <2>2, <2>3
<1> QED
  BY <1>1, <1>5, <1>6, Zenon DEF OutInv

------------------------------------------------------------------------------
LEMMA RectifierInvInit == Init => RectifierInv
<1> SUFFICES ASSUME Init
             PROVE  RectifierInv
  OBVIOUS
<1> USE RectifierAssumption DEF RectifierAssumption
<1>1. /\ log \in Seq(Nat) /\ Len(log) \in Nat
      /\ DOMAIN out = {} /\ Written = {}
  BY DEF Init, Written
<1>2. OutInv
  <2>1. out = <<>> /\ out \in Seq(Messages)
    BY DEF Init
  <2>2. Sorted
    BY <1>1 DEF Sorted
  <2> QED
    BY <1>1, <2>1, <2>2 DEF Init, OutInv
<1>3. BufferInv
  BY <1>1, FS_EmptySet DEF Init, BufferInv
<1> QED
  BY <1>1, <1>2, <1>3 DEF Init, RectifierInv, CloseInv

LEMMA RectifierInvRead == RectifierInv /\ ReadEvent => RectifierInv'
<1> SUFFICES ASSUME RectifierInv, ReadEvent
             PROVE  RectifierInv'
  OBVIOUS
<1> USE RectifierAssumption DEF RectifierAssumption
<1> DEFINE list == buffer \cup {read + 1}
<1>1. /\ log' = log /\ pc' = pc /\ pc = "reading" /\ read' = read + 1
      /\ log \in Seq(Nat) /\ Len(log) \in Nat
      /\ read \in Nat /\ read < Len(log)
      /\ read + 1 \in 1 .. Len(log)
      /\ buffer \in SUBSET (1 .. read) /\ N \in Nat
      /\ OutInv /\ CloseInv /\ BufferInv
  BY DEF RectifierInv, BufferInv, ReadEvent
<1>2. /\ list \in SUBSET (1 .. read + 1)
      /\ read + 1 \notin buffer
      /\ Written = (1 .. read + 1) \ list
  BY <1>1 DEF BufferInv
<1>3. /\ IsFiniteSet(list)
      /\ Cardinality(list) = N + 1
  BY <1>1, <1>2, FS_AddElement DEF BufferInv
<1>4. CASE Full(N + 1)
  <2>1. WriteFront(list, N + 1)
    BY <1>4 DEF ReadEvent
  <2>2. N + 1 = kBufferLength
    BY <1>4 DEF Full
  <2>3. /\ OutInv'
        /\ N' = N
        /\ buffer' \in SUBSET (1 .. read + 1) /\ IsFiniteSet(buffer')
        /\ Cardinality(buffer') = N'
        /\ Written' = (1 .. read + 1) \ buffer'
    <3> HIDE DEF list
    <3>1. read + 1 \in 0 .. Len(log) /\ N + 1 \in Nat
      BY <1>1
    <3>2. /\ OutInv'
          /\ N' = (N + 1) - 1
          /\ buffer' \in SUBSET (1 .. read + 1) /\ IsFiniteSet(buffer')
          /\ Cardinality(buffer') = N'
          /\ Written' = (1 .. read + 1) \ buffer'
      BY <2>1, <1>1, <1>2, <1>3, <3>1, FrontWritten
    <3> QED
      BY <3>2, <1>1
  <2>4. CloseInv'
    <3> HIDE DEF list
    <3>1. read + 1 \in 0 .. Len(log)
      BY <1>1
    <3> QED
      BY <2>1, <2>2, <1>1, <1>2, <1>3, <3>1, FrontPrecedes
  <2>5. BufferInv'
    BY <2>3, <1>1 DEF BufferInv
  <2> QED
    BY <2>3, <2>4, <2>5, <1>1 DEF RectifierInv
<1>5. CASE ~Full(N + 1)
  <2>1. /\ buffer' = list /\ N' = N + 1
        /\ out' = out /\ last_write_timestamp' = last_write_timestamp /\ error' = error
    BY <1>5 DEF ReadEvent
  <2>2. N + 1 < kBufferLength
    BY <1>1, <1>5 DEF Full, BufferInv
  <2>3. Written' = Written /\ Messages' = Messages /\ (Sorted' <=> Sorted) /\ (Close' <=> Close)
    BY <2>1, <1>1 DEF Written, Messages, Sorted, Close
  <2>4. OutInv'
    BY <2>1, <2>3, <1>1 DEF OutInv
  <2>5. CloseInv'
    BY <2>3, <1>1 DEF CloseInv
  <2>6. BufferInv'
    BY <2>1, <2>2, <2>3, <1>1, <1>2, <1>3 DEF BufferInv
  <2> QED
    BY <2>4, <2>5, <2>6, <1>1 DEF RectifierInv
<1> QED
  BY <1>4, <1>5

LEMMA RectifierInvFlush == RectifierInv /\ Flush => RectifierInv'
<1> SUFFICES ASSUME RectifierInv, Flush
             PROVE  RectifierInv'
  OBVIOUS
<1> USE RectifierAssumption DEF RectifierAssumption
<1>1. /\ log' = log /\ pc' = pc /\ pc = "flushing" /\ read' = read /\ read = Len(log)
      /\ log \in Seq(Nat) /\ Len(log) \in Nat
      /\ read \in 0 .. Len(log)
      /\ buffer \in SUBSET (1 .. read) /\ IsFiniteSet(buffer)
      /\ N \in Nat /\ Cardinality(buffer) = N
      /\ Written = (1 .. read) \ buffer
      /\ OutInv /\ CloseInv /\ BufferInv
      /\ WriteFront(buffer, N)
  BY DEF RectifierInv, BufferInv, Flush
<1>2. /\ OutInv'
      /\ N >= 1 /\ N' = N - 1
      /\ buffer' \in SUBSET (1 .. read) /\ IsFiniteSet(buffer')
      /\ Cardinality(buffer') = N'
      /\ Written' = (1 .. read) \ buffer'
  BY <1>1, FrontWritten
<1>3. CloseInv'
  BY <1>1, FrontPrecedes
<1>4. BufferInv'
  BY <1>1, <1>2 DEF BufferInv
<1> QED
  BY <1>1, <1>2, <1>3, <1>4 DEF RectifierInv

\* The invariant holds of every log and every length of the buffer.
THEOREM RectifierInvariant == Spec => []RectifierInv
<1>1. Init => RectifierInv
  BY RectifierInvInit
<1>2. RectifierInv /\ [Next]_vars => RectifierInv'
  <2> SUFFICES ASSUME RectifierInv, [Next]_vars
               PROVE  RectifierInv'
    OBVIOUS
  <2>1. CASE ReadEvent
    BY <2>1, RectifierInvRead
  <2>2. CASE Flush
    BY <2>2, RectifierInvFlush
  <2>3. CASE EndOfLog \/ Finish \/ UNCHANGED vars
    <3>1. /\ log' = log /\ read' = read /\ buffer' = buffer /\ N' = N /\ out' = out
          /\ last_write_timestamp' = last_write_timestamp /\ error' = error
      BY <2>3 DEF EndOfLog, Finish, vars
    <3>2. /\ pc' \in {"reading", "flushing", "done"}
          /\ pc' # "reading" => read = Len(log)
          /\ pc' = "done" => N = 0
      BY <2>3 DEF EndOfLog, Finish, vars, RectifierInv
    <3>3. Written' = Written /\ Messages' = Messages /\ (Sorted' <=> Sorted) /\ (Close' <=> Close)
      BY <3>1 DEF Written, Messages, Sorted, Close
    <3>4. OutInv' /\ BufferInv' /\ CloseInv'
      BY <3>1, <3>3 DEF RectifierInv, OutInv, BufferInv, CloseInv
    <3> QED
      BY <3>1, <3>2, <3>4 DEF RectifierInv
  <2> QED
    BY <2>1, <2>2, <2>3 DEF Next
<1> QED
  BY <1>1, <1>2, PTL DEF Spec

\* Type correctness: in particular the counter, which is kept beside the list,
\* stays within the buffer's length.
THEOREM RectifierTypes == Spec => []TypeOK
<1>1. RectifierInv => TypeOK
  BY RectifierAssumption DEF RectifierAssumption, RectifierInv, OutInv, BufferInv, TypeOK
<1> QED
  BY <1>1, RectifierInvariant, PTL

\* "An error message will be generated": for every log and length, the copy
\* holds every message once, and is in sequence unless the program says so.
THEOREM RectifierSortedUnlessSaid == Spec => []SortedUnlessSaid
<1>1. RectifierInv => SortedUnlessSaid
  <2> SUFFICES ASSUME RectifierInv
               PROVE  SortedUnlessSaid
    OBVIOUS
  <2>1. pc = "done" => buffer = {} /\ read = Len(log)
    BY FS_EmptySet DEF RectifierInv, BufferInv
  <2>2. (error <=> ~Sorted) /\ \A i, j \in DOMAIN out : out[i] = out[j] => i = j
    BY DEF RectifierInv, OutInv
  <2>3. Written = (1 .. read) \ buffer
    BY DEF RectifierInv, BufferInv
  <2> QED
    BY <2>1, <2>2, <2>3 DEF SortedUnlessSaid, Messages
<1> QED
  BY <1>1, RectifierInvariant, PTL

------------------------------------------------------------------------------
\* A buffer "large enough" is one longer than any two messages out of sequence
\* are apart: then, for every log, the copy is in sequence and nothing is said.
THEOREM RectifierSortsCloseLogs == Spec => []SortsCloseLogs
<1> DEFINE I == Close => ~error
<1>1. Init => I
  BY DEF Init
<1>2. RectifierInv /\ I /\ [Next]_vars => I'
  <2> SUFFICES ASSUME RectifierInv, I, [Next]_vars
               PROVE  I'
    OBVIOUS
  <2> USE RectifierAssumption DEF RectifierAssumption
  <2>1. log' = log
    BY DEF Next, vars, ReadEvent, EndOfLog, Flush, Finish
  <2>2. Close' <=> Close
    BY <2>1 DEF Close, Messages
  <2>3. CASE ReadEvent /\ Full(N + 1)
    <3> DEFINE list == buffer \cup {read + 1}
    <3>1. /\ log \in Seq(Nat) /\ Len(log) \in Nat /\ read \in Nat /\ N \in Nat
          /\ read + 1 \in 0 .. Len(log)
          /\ OutInv /\ CloseInv
          /\ buffer \in SUBSET (1 .. read)
          /\ list \in SUBSET (1 .. read + 1)
          /\ Written = (1 .. read + 1) \ list
          /\ read + 1 \notin buffer
          /\ WriteFront(list, N + 1)
          /\ N + 1 = kBufferLength
      <4>1. /\ log \in Seq(Nat) /\ Len(log) \in Nat /\ read \in Nat /\ N \in Nat
            /\ read < Len(log)
            /\ OutInv /\ CloseInv
            /\ buffer \in SUBSET (1 .. read)
            /\ Written = (1 .. read) \ buffer
            /\ WriteFront(list, N + 1)
            /\ N + 1 = kBufferLength
        BY <2>3 DEF RectifierInv, BufferInv, ReadEvent, Full
      <4> QED
        BY <4>1
    <3>2. Cardinality(list) = N + 1
      BY <3>1, FS_AddElement DEF RectifierInv, BufferInv
    <3> HIDE DEF list
    <3>3. Close => error' = error
      BY <3>1, <3>2, <2>1, FrontPrecedes
    <3> QED
      BY <3>3, <2>2
  <2>4. CASE Flush
    <3>1. /\ log \in Seq(Nat) /\ Len(log) \in Nat
          /\ read \in 0 .. Len(log) /\ read = Len(log)
          /\ OutInv /\ CloseInv
          /\ buffer \in SUBSET (1 .. read)
          /\ Written = (1 .. read) \ buffer
          /\ WriteFront(buffer, N)
          /\ Cardinality(buffer) = N
      BY <2>4 DEF RectifierInv, BufferInv, Flush
    <3>2. Close => error' = error
      BY <3>1, <2>1, FrontPrecedes
    <3> QED
      BY <3>2, <2>2
  <2>5. CASE (ReadEvent /\ ~Full(N + 1)) \/ EndOfLog \/ Finish \/ UNCHANGED vars
    <3>1. error' = error
      BY <2>5 DEF ReadEvent, EndOfLog, Finish, vars
    <3> QED
      BY <3>1, <2>2
  <2> QED
    BY <2>3, <2>4, <2>5 DEF Next
<1>3. RectifierInv /\ I => SortsCloseLogs
  BY DEF RectifierInv, OutInv, SortsCloseLogs
<1> QED
  BY <1>1, <1>2, <1>3, RectifierInvariant, PTL DEF Spec
------------------------------------------------------------------------------
\* Something before which a later message was written has been overtaken by as
\* many as the buffer holds, and so has what was printed about.
LateInv ==
    /\ \A w \in Written, e \in Messages \ Written :
           log[e] < log[w] => Cardinality(Overtaken(e)) >= kBufferLength
    /\ error => \E e \in Messages : Cardinality(Overtaken(e)) >= kBufferLength

\* Of the first r messages, one that has been overtaken by so many is in the
\* buffer with a later one already written, or an error was printed.
Noticed(r, written, err) ==
    \A e \in 1 .. r :
        Cardinality(Overtaken(e)) >= kBufferLength =>
            err \/ (e \notin written /\ \E f \in written : log[f] > log[e])

\* What overtakes a message is finite.
LEMMA OvertakenFinite ==
    ASSUME log \in Seq(Nat), NEW e
    PROVE  IsFiniteSet(Overtaken(e)) /\ Overtaken(e) \subseteq 1 .. Len(log)
<1>1. Len(log) \in Nat /\ Overtaken(e) \subseteq 1 .. Len(log)
  BY DEF Overtaken, Messages
<1>2. IsFiniteSet(1 .. Len(log))
  BY <1>1, FS_Interval
<1> QED
  BY <1>1, <1>2, FS_Subset

\* The front is written before a smaller message only if that one is not read,
\* and then the whole of a full list overtakes it.
LEMMA FrontLate ==
    ASSUME log \in Seq(Nat), OutInv, LateInv, log' = log,
           kBufferLength \in Nat \ {0},
           NEW r \in 0 .. Len(log), NEW list \in SUBSET (1 .. r),
           NEW count, Cardinality(list) = count,
           Written = (1 .. r) \ list, WriteFront(list, count),
           count = kBufferLength \/ r = Len(log),
           Noticed(r, Written, error)
    PROVE  LateInv' /\ Noticed(r, Written', error')
<1>1. PICK x \in list :
          /\ IsFront(x, list)
          /\ out' = Append(out, x)
          /\ error' = (error \/ TooLate(x))
  BY DEF WriteFront
<1>2. /\ x \in Messages \ Written /\ Messages' = Messages
      /\ x \in 1 .. Len(log) /\ log[x] \in Nat
  BY DEF Messages
<1>3. Written' = Written \cup {x}
  BY <1>1, <1>2, WrittenAppend DEF OutInv
<1>4. \A e : Overtaken(e)' = Overtaken(e)
  BY <1>2 DEF Overtaken
<1>5. ASSUME NEW e \in Messages \ Written, log[e] < log[x]
      PROVE  Cardinality(Overtaken(e)) >= kBufferLength
  <2>1. e \in 1 .. Len(log) /\ log[e] \in Nat
    BY <1>5 DEF Messages
  <2>2. e \notin list
    BY SMTT(30), <1>1, <1>2, <1>5, <2>1 DEF IsFront, Precedes
  <2>3. e > r /\ count = kBufferLength
    BY <2>1, <2>2, <1>5
  <2>4. ASSUME NEW g \in list
        PROVE  g \in Overtaken(e)
    <3>1. g \in 1 .. Len(log) /\ log[g] \in Nat /\ g < e
      <4>1. g \in 1 .. Len(log) /\ g < e
        BY <2>1, <2>3
      <4> QED
        BY <4>1
    <3>2. log[x] < log[g] \/ log[x] = log[g]
      BY <1>1, <2>4, Zenon DEF IsFront, Precedes
    <3>3. log[g] > log[e]
      BY <3>1, <3>2, <2>1, <1>2, <1>5
    <3> QED
      BY <3>1, <3>3 DEF Overtaken, Messages
  <2>5. Cardinality(list) <= Cardinality(Overtaken(e))
    BY <2>4, OvertakenFinite, FS_Subset
  <2>6. Cardinality(Overtaken(e)) \in Nat
    BY OvertakenFinite, FS_CardinalityType
  <2> QED
    BY <2>3, <2>5, <2>6
<1>6. ASSUME TooLate(x)
      PROVE  /\ Cardinality(Overtaken(x)) >= kBufferLength
  <2>1. out # <<>>
    BY <1>2, <1>6 DEF OutInv, TooLate
  <2>2. Len(out) \in DOMAIN out /\ last_write_timestamp = log[out[Len(out)]]
    BY <2>1 DEF OutInv
  <2>3. out[Len(out)] \in Written
    BY <2>2 DEF Written
  <2>4. log[x] < log[out[Len(out)]]
    BY <2>2, <1>6 DEF TooLate
  <2> QED
    BY <2>3, <2>4, <1>2 DEF LateInv
<1>7. LateInv'
  <2>1. \A w \in Written', e \in Messages \ Written' :
           log[e] < log[w] => Cardinality(Overtaken(e)) >= kBufferLength
    BY <1>3, <1>5 DEF LateInv
  <2>2. error' => \E e \in Messages : Cardinality(Overtaken(e)) >= kBufferLength
    BY <1>1, <1>2, <1>6 DEF LateInv
  <2> QED
    BY <2>1, <2>2, <1>2, <1>4 DEF LateInv
<1>8. ASSUME NEW f \in Written, log[f] > log[x], ~error
      PROVE  TooLate(x)
  <2>1. PICK i \in DOMAIN out : f = out[i]
    BY <1>8 DEF Written
  <2>2. /\ Len(out) \in Nat /\ DOMAIN out = 1 .. Len(out)
        /\ \A j \in DOMAIN out : out[j] \in 1 .. Len(log) /\ log[out[j]] \in Nat
    <3>1. out \in Seq(Messages) /\ Messages = 1 .. Len(log)
      BY DEF OutInv, Messages
    <3>2. /\ Len(out) \in Nat /\ DOMAIN out = 1 .. Len(out)
          /\ \A j \in DOMAIN out : out[j] \in Messages
      BY <3>1
    <3>3. \A m \in Messages : log[m] \in Nat
      BY SMTT(30), <3>1
    <3> QED
      BY <3>1, <3>2, <3>3
  <2>3. Sorted /\ out # <<>> /\ Len(out) \in DOMAIN out
    BY <1>8, <2>1, <2>2 DEF OutInv
  <2>4. last_write_timestamp = log[out[Len(out)]]
    BY <2>3 DEF OutInv
  <2>5. log[f] <= log[out[Len(out)]]
    <3>1. CASE i = Len(out)
      BY <3>1, <2>1, <2>2
    <3>2. CASE i # Len(out)
      <4>1. i < Len(out)
        BY <3>2, <2>1, <2>2
      <4> QED
        BY <4>1, <2>1, <2>3 DEF Sorted
    <3> QED
      BY <3>1, <3>2
  <2> DEFINE a == log[x]
             b == log[f]
             c == log[out[Len(out)]]
  <2>6. a \in Nat /\ b \in Nat /\ c \in Nat /\ b > a /\ b <= c
    BY <2>1, <2>2, <2>3, <2>5, <1>2, <1>8
  <2> HIDE DEF a, b, c
  <2>7. a < c
    BY <2>6
  <2> QED
    BY <2>7, <2>4 DEF TooLate, a, c
<1>9. Noticed(r, Written', error')
  <2> SUFFICES ASSUME NEW e \in 1 .. r, Cardinality(Overtaken(e)) >= kBufferLength, ~error'
               PROVE  e \notin Written' /\ \E f \in Written' : log[f] > log[e]
    BY DEF Noticed
  <2>1. ~error /\ ~TooLate(x)
    BY <1>1
  <2>2. e \notin Written /\ \E f \in Written : log[f] > log[e]
    BY <2>1 DEF Noticed
  <2>3. e # x
    BY <2>1, <2>2, <1>8
  <2> QED
    BY <2>2, <2>3, <1>3
<1> QED
  BY <1>7, <1>9

\* A message that is read when as many as the buffer holds have overtaken it
\* finds one of them written already.
LEMMA ReadNoticed ==
    ASSUME RectifierInv, Noticed(read, Written, error), read < Len(log),
           kBufferLength \in Nat \ {0}
    PROVE  Noticed(read + 1, Written, error)
<1>1. /\ log \in Seq(Nat) /\ Len(log) \in Nat /\ read \in Nat
      /\ IsFiniteSet(buffer) /\ Cardinality(buffer) = N /\ N \in Nat /\ N < kBufferLength
      /\ Written = (1 .. read) \ buffer
  BY DEF RectifierInv, BufferInv
<1>2. SUFFICES ASSUME Cardinality(Overtaken(read + 1)) >= kBufferLength
               PROVE  read + 1 \notin Written /\ \E f \in Written : log[f] > log[read + 1]
  <2>1. \A e \in 1 .. read + 1 : e \in 1 .. read \/ e = read + 1
    BY <1>1
  <2> QED
    BY <1>2, <2>1 DEF Noticed
<1>3. PICK f \in Overtaken(read + 1) : f \notin buffer
  <2>1. SUFFICES ASSUME Overtaken(read + 1) \subseteq buffer
                 PROVE  FALSE
    OBVIOUS
  <2>2. Cardinality(Overtaken(read + 1)) <= Cardinality(buffer)
    BY <2>1, <1>1, FS_Subset
  <2>3. Cardinality(Overtaken(read + 1)) \in Nat
    BY <1>1, OvertakenFinite, FS_CardinalityType
  <2> QED
    BY <1>1, <1>2, <2>2, <2>3
<1>4. f \in 1 .. read /\ log[f] > log[read + 1]
  BY <1>1, <1>3 DEF Overtaken, Messages
<1> QED
  BY <1>1, <1>3, <1>4

\* "The buffer must be large enough" and "an error message will be generated":
\* for every log and length, one is printed exactly if some message comes after
\* as many later ones as the buffer holds.
THEOREM RectifierFailsIfTooSmall == Spec => []FailsIfTooSmall
<1> DEFINE I == LateInv /\ Noticed(read, Written, error)
<1>1. Init => I
  <2> SUFFICES ASSUME Init
               PROVE  I
    OBVIOUS
  <2>1. Written = {} /\ error = FALSE /\ read = 0
    BY DEF Init, Written
  <2>2. \A e : e \notin 1 .. read
    BY <2>1
  <2> QED
    BY <2>1, <2>2 DEF LateInv, Noticed
<1>2. RectifierInv /\ I /\ [Next]_vars => I'
  <2> SUFFICES ASSUME RectifierInv, I, [Next]_vars
               PROVE  I'
    OBVIOUS
  <2> USE RectifierAssumption DEF RectifierAssumption
  <2>1. log' = log
    BY DEF Next, vars, ReadEvent, EndOfLog, Flush, Finish
  <2>2. Messages' = Messages /\ \A e : Overtaken(e)' = Overtaken(e)
    BY <2>1 DEF Messages, Overtaken
  <2>3. ASSUME ReadEvent
        PROVE  Noticed(read + 1, Written, error)
    BY <2>3, ReadNoticed DEF ReadEvent
  <2>4. CASE ReadEvent /\ Full(N + 1)
    <3> DEFINE list == buffer \cup {read + 1}
    <3>1. /\ log \in Seq(Nat) /\ Len(log) \in Nat /\ read \in Nat /\ N \in Nat
          /\ read < Len(log) /\ read' = read + 1
          /\ OutInv /\ LateInv
          /\ buffer \in SUBSET (1 .. read)
          /\ Written = (1 .. read) \ buffer
          /\ WriteFront(list, N + 1)
          /\ N + 1 = kBufferLength
      BY <2>4 DEF RectifierInv, BufferInv, ReadEvent, Full
    <3>2. /\ read + 1 \in 0 .. Len(log)
          /\ list \in SUBSET (1 .. read + 1)
          /\ Written = (1 .. read + 1) \ list
          /\ read + 1 \notin buffer
      BY <3>1
    <3>3. Cardinality(list) = N + 1
      BY <3>1, <3>2, FS_AddElement DEF RectifierInv, BufferInv
    <3> HIDE DEF list
    <3>4. LateInv' /\ Noticed(read + 1, Written', error')
      BY <3>1, <3>2, <3>3, <2>1, <2>3, <2>4, FrontLate
    <3> QED
      BY <3>4, <3>1, <2>1, <2>2 DEF Noticed
  <2>5. CASE Flush
    <3>1. /\ log \in Seq(Nat) /\ Len(log) \in Nat
          /\ read \in 0 .. Len(log) /\ read = Len(log) /\ read' = read
          /\ OutInv /\ LateInv
          /\ buffer \in SUBSET (1 .. read)
          /\ Written = (1 .. read) \ buffer
          /\ WriteFront(buffer, N)
          /\ Cardinality(buffer) = N
      BY <2>5 DEF RectifierInv, BufferInv, Flush
    <3>2. LateInv' /\ Noticed(read, Written', error')
      BY <3>1, <2>1, FrontLate
    <3> QED
      BY <3>2, <3>1, <2>1, <2>2 DEF Noticed
  <2>6. CASE (ReadEvent /\ ~Full(N + 1)) \/ EndOfLog \/ Finish \/ UNCHANGED vars
    <3>1. error' = error /\ out' = out
      BY <2>6 DEF ReadEvent, EndOfLog, Finish, vars
    <3>2. Written' = Written
      BY <3>1 DEF Written
    <3>3. LateInv'
      BY <3>1, <3>2, <2>1, <2>2 DEF LateInv
    <3>4. Noticed(read', Written, error)
      BY <2>3, <2>6 DEF ReadEvent, EndOfLog, Finish, vars
    <3> QED
      BY <3>1, <3>2, <3>3, <3>4, <2>1, <2>2 DEF Noticed
  <2> QED
    BY <2>4, <2>5, <2>6 DEF Next
<1>3. RectifierInv /\ I => FailsIfTooSmall
  <2> SUFFICES ASSUME RectifierInv, I, pc = "done"
               PROVE  error <=> \E e \in Messages : Cardinality(Overtaken(e)) >= kBufferLength
    BY DEF FailsIfTooSmall
  <2>1. buffer = {} /\ read = Len(log)
    BY FS_EmptySet DEF RectifierInv, BufferInv
  <2>2. Written = 1 .. read /\ Messages = 1 .. read
    BY <2>1 DEF RectifierInv, BufferInv, Messages
  <2> QED
    BY <2>2 DEF LateInv, Noticed
<1> QED
  BY <1>1, <1>2, <1>3, RectifierInvariant, PTL DEF Spec
=============================================================================
