--------------------------- MODULE GameLinkProofs ----------------------------
(***************************************************************************)
(* For any connections, processes, messages and sizes: no message is       *)
(* dropped or cut on a stream that every read has emptied.  And for any    *)
(* clients, announcements and boards on such streams: a client that keeps  *)
(* pace ends with the server, requests are executed for who sent them,     *)
(* and only a client that goes away kills the server.                      *)
(*                                                                         *)
(* The pieces of a buffer are of one connection, because it is filled only *)
(* when it is empty; and the messages of a stream end one behind the       *)
(* other, so that the number of those that have ended tells the position.  *)
(* That number also tells a client that keeps pace, although the BOOLEAN   *)
(* that starts a game and the one that ends it look alike, which it takes. *)
(***************************************************************************)
EXTENDS GameLink, SequenceTheorems, FiniteSetTheorems, WellFoundedInduction, TLAPS

\* The messages of a stream have sizes, and no more is read than was written.
Ordered == /\ \A c \in Conns : \A i, j \in 0 .. Len(sent[c]) : i < j => End(c, i) < End(c, j)
           /\ \A c \in Conns : got[c] <= Written(c)

\* A buffer holds pieces of one connection of its process.
OneSource == \A r \in Readers : \A k \in DOMAIN readBuffer[r] :
                 /\ ReaderOf[readBuffer[r][k].conn] = r
                 /\ readBuffer[r][k].conn = readBuffer[r][1].conn
                 /\ readBuffer[r][k].msg \in 1 .. Len(sent[readBuffer[r][k].conn])

\* What is handed out and what waits are messages of the stream.
Counted == \A c \in Conns : ~behind[c] => taken[c] + Len(Rest(c)) <= Len(sent[c])

IInv == TypeOK /\ Ordered /\ OneSource /\ Counted /\ WholeUnlessBehind
-----------------------------------------------------------------------------
(* Facts about streams.                                                    *)

\* A set of numbers with a bound has a greatest: the smallest of the sets of
\* numbers that are at least one of them.
LEMMA Greatest ==
    ASSUME NEW N \in Nat, NEW I \in SUBSET (0 .. N), I # {}
    PROVE  \E m \in I : \A j \in I : j <= m
<1> DEFINE R == StrictSubsetOrdering(0 .. N)
           T == { i .. N : i \in I }
<1>1. IsWellFoundedOn(R, SUBSET (0 .. N))
  <2>1. IsFiniteSet(0 .. N)
    BY FS_Interval
  <2>2. FiniteSubsetsOf(0 .. N) = SUBSET (0 .. N)
    BY <2>1, FS_FiniteSubsetsOfFinite
  <2> QED BY <2>2, FS_StrictSubsetOrderingWellFounded
<1>2. T \in SUBSET (SUBSET (0 .. N)) /\ T # {}
  <2>1. \A i \in I : i .. N \in SUBSET (0 .. N)
    OBVIOUS
  <2>2. T \in SUBSET (SUBSET (0 .. N))
    BY <2>1
  <2>3. T # {}
    OBVIOUS
  <2> QED BY <2>2, <2>3
<1>3. PICK x \in T : \A y \in T : <<y, x>> \notin R
  <2> HIDE DEF T, R
  <2> QED BY <1>1, <1>2, WFMin
<1>4. PICK m \in I : x = m .. N
  OBVIOUS
<1>5. ASSUME NEW j \in I, j > m PROVE FALSE
  <2>1. j .. N \in T
    OBVIOUS
  <2>2. (j .. N) \subseteq (m .. N) /\ m \in m .. N /\ m \notin j .. N
    BY <1>5
  <2>3. <<j .. N, x>> \in R
    BY <1>4, <2>2 DEF StrictSubsetOrdering
  <2> QED BY <1>3, <2>1, <2>3
<1> QED BY <1>5

\* An end is a number.
LEMMA EndType ==
    ASSUME TypeOK, NEW c \in Conns, NEW i \in 0 .. Len(sent[c])
    PROVE  End(c, i) \in Nat
<1>1. sent[c] \in Seq([msg : Messages, end : Nat])
  BY DEF TypeOK
<1>2. CASE i = 0
  BY <1>2 DEF End
<1>3. CASE i # 0
  <2>1. i \in 1 .. Len(sent[c])
    BY <1>1, <1>3, LenProperties
  <2>2. sent[c][i] \in [msg : Messages, end : Nat]
    BY <1>1, <2>1, ElementOfSeq
  <2> QED BY <1>3, <2>2 DEF End
<1> QED BY <1>2, <1>3

\* LastEnded is a message of the stream, or none.
LEMMA LastEndedRange ==
    ASSUME TypeOK, NEW c \in Conns, NEW u \in Nat
    PROVE  /\ LastEnded(c, u) \in 0 .. Len(sent[c])
           /\ End(c, LastEnded(c, u)) <= u
           /\ \A j \in LastEnded(c, u) + 1 .. Len(sent[c]) : End(c, j) > u
<1> DEFINE N == Len(sent[c])
           I == { i \in 0 .. N : End(c, i) <= u }
<1>1. N \in Nat
  BY LenProperties DEF TypeOK
<1>2. I \in SUBSET (0 .. N) /\ 0 \in I
  BY <1>1 DEF End
<1>3. PICK m \in I : \A j \in I : j <= m
  <2> HIDE DEF N, I
  <2> QED BY <1>1, <1>2, Greatest
<1>4. \A j \in m + 1 .. N : End(c, j) > u
  <2> SUFFICES ASSUME NEW j \in m + 1 .. N PROVE End(c, j) > u
    OBVIOUS
  <2>1. j \in 0 .. N /\ ~ (j <= m)
    BY <1>1
  <2>2. ~ (End(c, j) <= u)
    BY <1>3, <2>1
  <2>3. End(c, j) \in Nat
    BY <2>1, EndType
  <2> QED BY <2>2, <2>3
<1>5. m \in 0 .. N /\ End(c, m) <= u
  OBVIOUS
<1>6. \E i \in 0 .. N : End(c, i) <= u /\ \A j \in i + 1 .. N : End(c, j) > u
  BY <1>4, <1>5
<1> QED BY <1>6 DEF LastEnded

\* At the end of a message it is that message.
LEMMA LastEndedAtEnd ==
    ASSUME TypeOK, Ordered, NEW c \in Conns, NEW i \in 0 .. Len(sent[c])
    PROVE  LastEnded(c, End(c, i)) = i
<1> DEFINE u == End(c, i)
           m == LastEnded(c, u)
<1>1. u \in Nat /\ Len(sent[c]) \in Nat
  BY EndType, LenProperties DEF TypeOK
<1>2. /\ m \in 0 .. Len(sent[c])
      /\ End(c, m) <= u
      /\ \A j \in m + 1 .. Len(sent[c]) : End(c, j) > u
  BY <1>1, LastEndedRange
<1>3. End(c, m) \in Nat
  BY <1>2, EndType
<1>4. ~ (i < m)
  BY <1>1, <1>2, <1>3 DEF Ordered
<1>5. ~ (m < i)
  <2> SUFFICES ASSUME m < i PROVE FALSE
    OBVIOUS
  <2>1. i \in m + 1 .. Len(sent[c])
    BY <1>1, <1>2
  <2> QED BY <1>1, <1>2, <2>1
<1> QED BY <1>2, <1>4, <1>5

\* The sequence q has a piece for each message of c from first + 1 to last, which
\* is whole if the message begins behind what had been read.
CutInto(c, first, last, q) ==
    /\ first \in 0 .. Len(sent[c]) /\ last \in first .. Len(sent[c])
    /\ q \in Seq(Piece) /\ Len(q) = last - first
    /\ \A k \in 1 .. last - first :
          /\ q[k].conn = c /\ q[k].msg = first + k
          /\ End(c, first + k - 1) >= got[c] => q[k].whole

\* split makes a piece of every message that ends among the bytes of a read.
LEMMA PiecesOf ==
    ASSUME TypeOK, NEW c \in Conns, NEW n \in Nat
    PROVE  CutInto(c, LastEnded(c, got[c]), LastEnded(c, got[c] + n), Pieces(c, n))
<1> DEFINE first == LastEnded(c, got[c])
           last == LastEnded(c, got[c] + n)
<1>1. got[c] \in Nat /\ got[c] + n \in Nat /\ Len(sent[c]) \in Nat
  BY LenProperties DEF TypeOK
<1>2. /\ first \in 0 .. Len(sent[c])
      /\ End(c, first) <= got[c]
  BY <1>1, LastEndedRange
<1>3. /\ last \in 0 .. Len(sent[c])
      /\ \A j \in last + 1 .. Len(sent[c]) : End(c, j) > got[c] + n
  BY <1>1, LastEndedRange
<1>4. End(c, first) \in Nat
  BY <1>2, EndType
<1>5. last \in first .. Len(sent[c])
  <2> HIDE DEF first, last
  <2>1. ASSUME last < first PROVE FALSE
    <3>1. first \in last + 1 .. Len(sent[c])
      BY <1>1, <1>2, <1>3, <2>1
    <3> QED BY <1>1, <1>2, <1>3, <1>4, <3>1
  <2> QED BY <1>1, <1>2, <1>3, <2>1
<1>6. Pieces(c, n) = [k \in 1 .. last - first |->
          [conn |-> c, msg |-> first + k, whole |-> End(c, first + k - 1) >= got[c]]]
  BY DEF Pieces
<1> HIDE DEF first, last
<1>7. \A k \in 1 .. last - first :
          [conn |-> c, msg |-> first + k, whole |-> End(c, first + k - 1) >= got[c]] \in Piece
  BY <1>1, <1>2, <1>5 DEF Piece
<1>8. last - first \in Nat
  BY <1>1, <1>2, <1>5
<1>9. Pieces(c, n) \in Seq(Piece) /\ Len(Pieces(c, n)) = last - first
  BY <1>6, <1>7, <1>8
<1>10. \A k \in 1 .. last - first :
          /\ Pieces(c, n)[k].conn = c
          /\ Pieces(c, n)[k].msg = first + k
          /\ End(c, first + k - 1) >= got[c] => Pieces(c, n)[k].whole
  <2> DEFINE piece(k) == [conn |-> c, msg |-> first + k, whole |-> End(c, first + k - 1) >= got[c]]
  <2>1. \A k \in 1 .. last - first : Pieces(c, n)[k] = piece(k)
    BY <1>6
  <2>2. \A k : /\ piece(k).conn = c /\ piece(k).msg = first + k
                /\ piece(k).whole = (End(c, first + k - 1) >= got[c])
    BY Zenon
  <2> HIDE DEF piece
  <2> QED BY <2>1, <2>2
<1> QED BY <1>2, <1>5, <1>9, <1>10 DEF first, last, CutInto
-----------------------------------------------------------------------------
(* The steps.                                                              *)

\* A write changes no end of an earlier message.
LEMMA SendStep ==
    ASSUME IInv, NEW c \in Conns, NEW m \in Messages, Send(c, m)
    PROVE  IInv'
<1> USE DEF IInv
<1>1. Len(sent[c]) \in Nat /\ Written(c) \in Nat /\ Size[m] \in Nat \ {0}
  <2>1. Len(sent[c]) \in Nat /\ Size[m] \in Nat \ {0}
    BY SizesAssumption, LenProperties DEF TypeOK
  <2>2. Written(c) \in Nat
    BY <2>1, EndType DEF Written
  <2> QED BY <2>1, <2>2
<1>2. [msg |-> m, end |-> Written(c) + Size[m]] \in [msg : Messages, end : Nat]
  BY <1>1
<1>3. /\ sent' \in [Conns -> Seq([msg : Messages, end : Nat])]
      /\ Len(sent'[c]) = Len(sent[c]) + 1
      /\ sent'[c][Len(sent[c]) + 1].end = Written(c) + Size[m]
      /\ \A i \in 1 .. Len(sent[c]) : sent'[c][i] = sent[c][i]
      /\ \A d \in Conns \ {c} : sent'[d] = sent[d]
  <2> DEFINE S == [msg : Messages, end : Nat]
             e == [msg |-> m, end |-> Written(c) + Size[m]]
  <2>1. sent \in [Conns -> Seq(S)] /\ e \in S
    BY <1>2 DEF TypeOK
  <2>2. sent' = [sent EXCEPT ![c] = Append(sent[c], e)] /\ e.end = Written(c) + Size[m]
    BY DEF Send
  <2> HIDE DEF S, e
  <2>3. /\ Append(sent[c], e) \in Seq(S)
        /\ Len(Append(sent[c], e)) = Len(sent[c]) + 1
        /\ \A i \in 1 .. Len(sent[c]) : Append(sent[c], e)[i] = sent[c][i]
        /\ Append(sent[c], e)[Len(sent[c]) + 1] = e
    BY <2>1, AppendProperties
  <2>4. sent' \in [Conns -> Seq(S)]
    BY <2>1, <2>2, <2>3
  <2>5. sent'[c] = Append(sent[c], e) /\ \A d \in Conns \ {c} : sent'[d] = sent[d]
    BY <2>1, <2>2
  <2> QED BY <2>2, <2>3, <2>4, <2>5 DEF S
<1>4. \A d \in Conns : Len(sent[d]) \in Nat
  BY LenProperties DEF TypeOK
<1>5. \A d \in Conns : \A i \in 0 .. Len(sent[d]) : End(d, i)' = End(d, i)
  BY <1>3, <1>4, SMTT(30) DEF End
<1>6. \A j \in Nat : j = Len(sent[c]) + 1 => End(c, j)' = Written(c) + Size[m]
  <2>1. \A j \in Nat : j # 0 => End(c, j)' = sent'[c][j].end
    BY DEF End
  <2> QED BY <1>1, <1>3, <2>1
<1>7. TypeOK'
  BY <1>3 DEF TypeOK, Send, Piece
<1>8. Ordered'
  <2>1. \A i, j \in 0 .. Len(sent'[c]) : i < j => End(c, i)' < End(c, j)'
    <3> SUFFICES ASSUME NEW i \in 0 .. Len(sent'[c]), NEW j \in 0 .. Len(sent'[c]), i < j
                 PROVE  End(c, i)' < End(c, j)'
      OBVIOUS
    <3>1. i \in 0 .. Len(sent[c]) /\ End(c, i) \in Nat
      BY <1>1, <1>3, EndType
    <3>2. CASE j \in 0 .. Len(sent[c])
      BY <1>5, <3>1, <3>2 DEF Ordered
    <3>3. CASE j = Len(sent[c]) + 1
      <4>1. End(c, i) <= Written(c)
        BY <1>1, <3>1, EndType DEF Ordered, Written
      <4>2. End(c, i)' = End(c, i)
        BY <1>5, <3>1
      <4>3. End(c, j)' = Written(c) + Size[m]
        BY <1>1, <1>6, <3>3
      <4> QED BY <1>1, <3>1, <4>1, <4>2, <4>3
    <3> QED BY <1>1, <1>3, <3>2, <3>3
  <2>2. \A d \in Conns \ {c} : \A i, j \in 0 .. Len(sent'[d]) : i < j => End(d, i)' < End(d, j)'
    <3> SUFFICES ASSUME NEW d \in Conns \ {c}, NEW i \in 0 .. Len(sent'[d]), NEW j \in 0 .. Len(sent'[d]),
                        i < j
                 PROVE  End(d, i)' < End(d, j)'
      OBVIOUS
    <3>1. i \in 0 .. Len(sent[d]) /\ j \in 0 .. Len(sent[d])
      BY <1>3
    <3>2. End(d, i) < End(d, j)
      BY <3>1 DEF Ordered
    <3> QED BY <1>5, <3>1, <3>2
  <2>3. \A d \in Conns : got'[d] <= Written(d)'
    <3> SUFFICES ASSUME NEW d \in Conns PROVE got'[d] <= Written(d)'
      OBVIOUS
    <3>1. got'[d] = got[d] /\ got[d] \in Nat /\ got[d] <= Written(d)
      BY DEF Send, Ordered, TypeOK
    <3>2. CASE d = c
      <4>1. Written(c)' = Written(c) + Size[m]
        BY <1>1, <1>3, <1>6 DEF Written
      <4> QED BY <1>1, <3>1, <3>2, <4>1
    <3>3. CASE d # c
      <4>1. Len(sent[d]) \in 0 .. Len(sent[d]) /\ sent'[d] = sent[d]
        BY <1>3, <1>4, <3>3
      <4>2. Written(d)' = Written(d)
        BY <1>5, <4>1 DEF Written
      <4> QED BY <3>1, <4>2
    <3> QED BY <3>2, <3>3
  <2> QED BY <2>1, <2>2, <2>3 DEF Ordered
<1>9. OneSource'
  <2>1. readBuffer' = readBuffer
    BY DEF Send
  <2>2. \A d \in Conns : \A i \in 1 .. Len(sent[d]) : i \in 1 .. Len(sent'[d])
    <3> SUFFICES ASSUME NEW d \in Conns, NEW i \in 1 .. Len(sent[d])
                 PROVE  i \in 1 .. Len(sent'[d])
      OBVIOUS
    <3>1. CASE d = c
      BY <1>1, <1>3, <3>1
    <3>2. CASE d # c
      BY <1>3, <3>2
    <3> QED BY <3>1, <3>2
  <2>3. \A r \in Readers : \A k \in DOMAIN readBuffer[r] : readBuffer[r][k].conn \in Conns
    <3> SUFFICES ASSUME NEW r \in Readers, NEW k \in DOMAIN readBuffer[r]
                 PROVE  readBuffer[r][k].conn \in Conns
      OBVIOUS
    <3>1. readBuffer[r] \in Seq(Piece) /\ k \in 1 .. Len(readBuffer[r])
      BY LenProperties DEF TypeOK
    <3>2. readBuffer[r][k] \in Piece
      BY <3>1, ElementOfSeq
    <3> QED BY <3>2 DEF Piece
  <2> QED BY <2>1, <2>2, <2>3 DEF OneSource
<1>10. Counted' /\ WholeUnlessBehind'
  <2>1. \A d \in Conns : Rest(d)' = Rest(d)
    BY DEF Send, Rest
  <2>2. \A d \in Conns : /\ taken'[d] = taken[d] /\ behind'[d] = behind[d] /\ got'[d] = got[d]
                         /\ Len(sent'[d]) >= Len(sent[d])
    BY <1>1, <1>3, <1>4 DEF Send
  <2>3. \A d \in Conns : Len(Rest(d)) \in Nat /\ taken[d] \in Nat
    BY StreamsAssumption, LenProperties DEF TypeOK, Rest
  <2>4. Counted'
    BY <1>3, <1>4, <2>1, <2>2, <2>3, SMTT(30) DEF Counted
  <2>5. WholeUnlessBehind'
    <3> SUFFICES ASSUME NEW d \in Conns, ~behind'[d]
                 PROVE  /\ \A k \in DOMAIN Rest(d)' : Rest(d)'[k].whole /\ Rest(d)'[k].msg = taken'[d] + k
                        /\ got'[d] = End(d, taken[d] + Len(Rest(d)))'
      BY DEF WholeUnlessBehind
    <3>1. taken[d] + Len(Rest(d)) \in 0 .. Len(sent[d])
      BY <1>4, <2>2, <2>3 DEF Counted
    <3>2. End(d, taken[d] + Len(Rest(d)))' = End(d, taken[d] + Len(Rest(d)))
      <4>1. (taken[d] + Len(Rest(d)))' = taken[d] + Len(Rest(d))
        BY <2>1, <2>2
      <4>2. \A x \in 1 .. Len(sent[d]) : sent'[d][x] = sent[d][x]
        BY <1>3
      <4>3. taken[d] + Len(Rest(d)) # 0 => taken[d] + Len(Rest(d)) \in 1 .. Len(sent[d])
        BY <1>4, <3>1
      <4> HIDE DEF IInv
      <4> QED BY <4>1, <4>2, <4>3 DEF End
    <3> QED BY <2>1, <2>2, <3>2 DEF WholeUnlessBehind
  <2> QED BY <2>4, <2>5
<1> QED BY <1>7, <1>8, <1>9, <1>10

\* A read takes some of the bytes that wait.
LEMMA ReadSizesRange ==
    ASSUME IInv, NEW c \in Conns, NEW n \in ReadSizes(c)
    PROVE  n \in Nat \ {0} /\ got[c] + n <= Written(c) /\ got[c] \in Nat /\ Written(c) \in Nat
<1>1. got[c] \in Nat /\ Written(c) \in Nat
  <2>1. TypeOK
    BY DEF IInv
  <2>2. Len(sent[c]) \in Nat /\ got[c] \in Nat
    BY <2>1, LenProperties DEF TypeOK
  <2>3. Len(sent[c]) \in 0 .. Len(sent[c])
    BY <2>2
  <2> QED BY <2>1, <2>2, <2>3, EndType DEF Written
<1> QED BY <1>1, SizesAssumption DEF ReadSizes, Most, Waiting

\* Where the ends of messages do not change, neither does their order.
LEMMA SameStreams ==
    ASSUME IInv, sent' = sent, \A c \in Conns : got'[c] <= Written(c)
    PROVE  /\ Ordered'
           /\ \A c \in Conns : \A i \in Nat : End(c, i)' = End(c, i)
<1>1. \A c \in Conns : \A i : End(c, i)' = End(c, i)
  BY DEF End
<1>2. \A c \in Conns : Written(c)' = Written(c)
  BY DEF Written, End
<1> QED BY <1>1, <1>2 DEF IInv, Ordered

\* A read that hands out the first of its pieces.
LEMMA ReadStep ==
    ASSUME IInv, NEW c \in Conns, NEW n, readBuffer[ReaderOf[c]] = <<>>,
           ReadData(c, n, Queue(c, n))
    PROVE  IInv'
<1> DEFINE r == ReaderOf[c]
           q == Pieces(c, n)
           first == LastEnded(c, got[c])
           last == LastEnded(c, got[c] + n)
<1>1. /\ n \in ReadSizes(c) /\ q # <<>> /\ r \in Readers
      /\ got' = [got EXCEPT ![c] = @ + n]
      /\ behind' = [behind EXCEPT ![c] = @ \/ n < Waiting(c)]
      /\ readBuffer' = [readBuffer EXCEPT ![r] = Tail(q)]
      /\ taken' = [taken EXCEPT ![Head(q).conn] = Head(q).msg]
      /\ transport' = transport /\ sent' = sent
  BY StreamsAssumption DEF ReadData, Reading, Queue
<1>2. TypeOK /\ n \in Nat \ {0} /\ got[c] + n <= Written(c) /\ got[c] \in Nat /\ Written(c) \in Nat
  BY <1>1, ReadSizesRange DEF IInv
<1>3. /\ first \in 0 .. Len(sent[c]) /\ last \in first .. Len(sent[c])
      /\ q \in Seq(Piece) /\ Len(q) = last - first
      /\ \A k \in 1 .. last - first :
            /\ q[k].conn = c /\ q[k].msg = first + k
            /\ End(c, first + k - 1) >= got[c] => q[k].whole
  <2>1. TypeOK /\ n \in Nat
    BY <1>2
  <2>2. CutInto(c, first, last, q)
    BY <2>1, PiecesOf, Zenon
  <2> HIDE DEF q, first, last
  <2> QED BY <2>2 DEF CutInto
<1>4. Len(sent[c]) \in Nat
  BY <1>2, LenProperties DEF TypeOK
<1> HIDE DEF q, first, last
<1>5. /\ last - first \in Nat \ {0} /\ Head(q) = q[1]
      /\ Tail(q) \in Seq(Piece) /\ Len(Tail(q)) = last - first - 1
      /\ \A k \in 1 .. last - first - 1 : Tail(q)[k] = q[k + 1]
  <2>1. Len(q) # 0
    BY <1>1, <1>3, EmptySeq
  <2> QED BY <1>1, <1>3, <2>1, HeadTailProperties
<1>6. taken' = [taken EXCEPT ![c] = first + 1]
  <2>1. 1 \in 1 .. last - first
    BY <1>5
  <2>2. q[1].conn = c /\ q[1].msg = first + 1
    BY <1>3, <2>1
  <2> QED BY <1>1, <1>5, <2>2
<1>7. TypeOK'
  <2>1. got' \in [Conns -> Nat] /\ behind' \in [Conns -> BOOLEAN]
    BY <1>1, <1>2 DEF TypeOK
  <2>2. readBuffer' \in [Readers -> Seq(Piece)]
    BY <1>1, <1>2, <1>5 DEF TypeOK
  <2>3. taken' \in [Conns -> Nat]
    BY <1>2, <1>3, <1>4, <1>6 DEF TypeOK
  <2> QED BY <1>1, <1>2, <2>1, <2>2, <2>3 DEF TypeOK
<1>8. Ordered' /\ \A d \in Conns : \A i \in Nat : End(d, i)' = End(d, i)
  BY <1>1, <1>2, SameStreams DEF IInv, Ordered, TypeOK
<1>9. OneSource'
  <2> SUFFICES ASSUME NEW x \in Readers, NEW k \in DOMAIN readBuffer'[x]
               PROVE  /\ ReaderOf[readBuffer'[x][k].conn] = x
                      /\ readBuffer'[x][k].conn = readBuffer'[x][1].conn
                      /\ readBuffer'[x][k].msg \in 1 .. Len(sent[readBuffer'[x][k].conn])
    BY <1>1 DEF OneSource
  <2>1. CASE x = r
    <3>1. readBuffer'[x] = Tail(q) /\ k \in 1 .. last - first - 1
      BY <1>1, <1>2, <1>5, <2>1, LenProperties DEF TypeOK
    <3>2. \A j \in 1 .. last - first - 1 : Tail(q)[j].conn = c /\ Tail(q)[j].msg = first + (j + 1)
      <4> SUFFICES ASSUME NEW j \in 1 .. last - first - 1
                   PROVE  Tail(q)[j].conn = c /\ Tail(q)[j].msg = first + (j + 1)
        OBVIOUS
      <4>1. j + 1 \in 1 .. last - first
        BY <1>5
      <4> QED BY <1>3, <1>5, <4>1
    <3>3. 1 \in 1 .. last - first - 1 /\ first + (k + 1) \in 1 .. Len(sent[c])
      BY <1>3, <1>4, <1>5, <3>1
    <3> QED BY <2>1, <3>1, <3>2, <3>3
  <2>2. CASE x # r
    BY <1>1, <1>2, <2>2 DEF IInv, OneSource, TypeOK
  <2> QED BY <2>1, <2>2
<1>10. Rest(c) = <<>> /\ Rest(c)' = Tail(q) /\ \A d \in Conns \ {c} : Rest(d)' = Rest(d)
  <2>1. readBuffer'[r] = Tail(q)
    BY <1>1, <1>2 DEF TypeOK
  <2>2. Tail(q) # <<>> => Tail(q)[1].conn = c
    <3> SUFFICES ASSUME Tail(q) # <<>> PROVE Tail(q)[1].conn = c
      OBVIOUS
    <3>1. 1 \in 1 .. last - first - 1
      BY <1>5, EmptySeq
    <3> QED BY <1>3, <1>5, <3>1
  <2>3. \A d \in Conns \ {c} : Rest(d)' = Rest(d)
    <3> SUFFICES ASSUME NEW d \in Conns \ {c} PROVE Rest(d)' = Rest(d)
      OBVIOUS
    <3>1. CASE ReaderOf[d] = r
      BY <2>1, <2>2, <3>1 DEF Rest
    <3>2. CASE ReaderOf[d] # r
      BY <1>1, <1>2, <3>2, StreamsAssumption DEF Rest, TypeOK
    <3> QED BY <3>1, <3>2
  <2> QED BY <2>1, <2>2, <2>3 DEF Rest
<1>11. ~behind'[c] => /\ ~behind[c] /\ got'[c] = Written(c)
                      /\ first = taken[c] /\ last = Len(sent[c]) /\ got[c] = End(c, first)
  <2> SUFFICES ASSUME ~behind'[c]
               PROVE  /\ ~behind[c] /\ got'[c] = Written(c)
                      /\ first = taken[c] /\ last = Len(sent[c]) /\ got[c] = End(c, first)
    OBVIOUS
  <2>1. ~behind[c] /\ ~(n < Waiting(c))
    BY <1>1, <1>2 DEF TypeOK
  <2>2. got[c] + n = Written(c)
    BY <1>2, <2>1 DEF Waiting
  <2>3. taken[c] \in 0 .. Len(sent[c]) /\ got[c] = End(c, taken[c])
    <3>1. taken[c] \in Nat /\ Len(Rest(c)) = 0
      BY <1>2, <1>10, EmptySeq DEF TypeOK
    <3>2. taken[c] + Len(Rest(c)) = taken[c]
      BY <3>1
    <3> QED BY <1>4, <2>1, <3>1, <3>2 DEF IInv, Counted, WholeUnlessBehind
  <2>4. first = taken[c]
    BY <1>2, <2>3, LastEndedAtEnd DEF first, IInv
  <2>5. last = Len(sent[c])
    BY <1>2, <1>4, <2>2, LastEndedAtEnd DEF last, IInv, Written
  <2> QED BY <1>1, <1>2, <2>1, <2>2, <2>3, <2>4, <2>5 DEF TypeOK
<1>12. Counted'
  <2> SUFFICES ASSUME NEW d \in Conns, ~behind'[d]
               PROVE  taken'[d] + Len(Rest(d)') <= Len(sent[d])
    BY <1>1 DEF Counted
  <2>1. CASE d = c
    BY <1>2, <1>3, <1>4, <1>5, <1>6, <1>10, <1>11, <2>1 DEF TypeOK
  <2>2. CASE d # c
    BY <1>1, <1>2, <1>6, <1>10, <2>2 DEF IInv, Counted, TypeOK
  <2> QED BY <2>1, <2>2
<1>13. WholeUnlessBehind'
  <2> SUFFICES ASSUME NEW d \in Conns, ~behind'[d]
               PROVE  /\ \A k \in DOMAIN Rest(d)' : Rest(d)'[k].whole /\ Rest(d)'[k].msg = taken'[d] + k
                      /\ got'[d] = End(d, taken[d] + Len(Rest(d)))'
    BY DEF WholeUnlessBehind
  <2>1. CASE d = c
    <3>1. taken'[c] = first + 1 /\ (taken[c] + Len(Rest(c)))' = last /\ first \in Nat /\ last \in Nat
      <4>1. taken'[c] = first + 1
        BY <1>2, <1>6 DEF TypeOK
      <4>2. Len(Rest(c)') = last - first - 1
        BY <1>5, <1>10
      <4>3. first \in Nat /\ last \in Nat
        BY <1>3, <1>4
      <4> QED BY <4>1, <4>2, <4>3
    <3>2. ASSUME NEW k \in DOMAIN Rest(c)'
          PROVE  Rest(c)'[k].whole /\ Rest(c)'[k].msg = taken'[c] + k
      <4>1. k \in 1 .. last - first - 1
        BY <1>5, <1>10, <3>2, LenProperties
      <4>2. /\ Tail(q)[k].msg = first + (k + 1)
            /\ End(c, first + (k + 1) - 1) >= got[c] => Tail(q)[k].whole
        <5>1. k + 1 \in 1 .. last - first /\ Tail(q)[k] = q[k + 1]
          BY <1>5, <4>1, <3>1
        <5> QED BY <1>3, <5>1
      <4>3. first + (k + 1) - 1 = first + k /\ first \in 0 .. Len(sent[c]) /\ first + k \in 0 .. Len(sent[c])
        BY <1>3, <1>4, <4>1
      <4>4. End(c, first) < End(c, first + k) /\ End(c, first) \in Nat /\ End(c, first + k) \in Nat
        BY <1>2, <4>1, <4>3, EndType DEF IInv, Ordered
      <4> QED BY <1>10, <1>11, <2>1, <3>1, <4>1, <4>2, <4>3, <4>4
    <3>3. End(c, taken[c] + Len(Rest(c)))' = End(c, last)
      BY <1>1, <3>1 DEF End
    <3> QED BY <1>11, <2>1, <3>2, <3>3 DEF Written
  <2>2. CASE d # c
    <3>1. /\ ~behind[d] /\ taken'[d] = taken[d] /\ Rest(d)' = Rest(d) /\ got'[d] = got[d]
      BY <1>1, <1>2, <1>6, <1>10, <2>2 DEF TypeOK
    <3>2. End(d, taken[d] + Len(Rest(d)))' = End(d, taken[d] + Len(Rest(d)))
      BY <1>1, <3>1 DEF End
    <3> QED BY <3>1, <3>2 DEF IInv, WholeUnlessBehind
  <2> QED BY <2>1, <2>2
<1> QED BY <1>7, <1>8, <1>9, <1>12, <1>13 DEF IInv

\* A readData that finds pieces in the buffer: they are of a connection of the
\* same process, not always the one that was asked for.
LEMMA HandStep ==
    ASSUME IInv, NEW c \in Conns, NEW n, readBuffer[ReaderOf[c]] # <<>>,
           ReadData(c, n, Queue(c, n))
    PROVE  IInv'
<1> DEFINE r == ReaderOf[c]
           b == readBuffer[r]
<1>1. /\ r \in Readers /\ b \in Seq(Piece) /\ b # <<>> /\ TypeOK
      /\ got' = got /\ behind' = behind /\ transport' = transport /\ sent' = sent
      /\ readBuffer' = [readBuffer EXCEPT ![r] = Tail(b)]
      /\ taken' = [taken EXCEPT ![Head(b).conn] = Head(b).msg]
  BY StreamsAssumption DEF ReadData, Reading, Queue, IInv, TypeOK
<1>2. /\ Len(b) \in Nat \ {0} /\ Head(b) = b[1]
      /\ Tail(b) \in Seq(Piece) /\ Len(Tail(b)) = Len(b) - 1
      /\ \A k \in 1 .. Len(b) - 1 : Tail(b)[k] = b[k + 1]
  <2> HIDE DEF b
  <2>1. Len(b) \in Nat /\ Len(b) # 0
    BY <1>1, EmptySeq, LenProperties
  <2> QED BY <1>1, <2>1, HeadTailProperties
<1>3. \A k \in 1 .. Len(b) : b[k] \in Piece /\ ReaderOf[b[k].conn] = r /\ b[k].conn = b[1].conn
                             /\ b[k].msg \in 1 .. Len(sent[b[k].conn])
  <2>1. \A k \in DOMAIN b : /\ ReaderOf[b[k].conn] = r /\ b[k].conn = b[1].conn
                            /\ b[k].msg \in 1 .. Len(sent[b[k].conn])
    BY <1>1 DEF IInv, OneSource
  <2> HIDE DEF b
  <2>2. \A k \in 1 .. Len(b) : b[k] \in Piece /\ k \in DOMAIN b
    BY <1>1, ElementOfSeq, LenProperties
  <2> QED BY <2>1, <2>2
<1>4. PICK e \in Conns : /\ e = b[1].conn /\ ReaderOf[e] = r
                         /\ b[1].msg \in Nat /\ b[1].msg \in 1 .. Len(sent[e]) /\ Len(sent[e]) \in Nat
  <2>1. 1 \in 1 .. Len(b)
    BY <1>2
  <2>2. b[1] \in Piece /\ ReaderOf[b[1].conn] = r /\ b[1].msg \in 1 .. Len(sent[b[1].conn])
    BY <1>3, <2>1
  <2>3. b[1].conn \in Conns /\ b[1].msg \in Nat
    BY <2>2 DEF Piece
  <2>4. Len(sent[b[1].conn]) \in Nat
    BY <1>1, <2>3, LenProperties DEF TypeOK
  <2> QED BY <2>2, <2>3, <2>4
<1>5. Rest(e) = b
  BY <1>1, <1>4 DEF Rest
<1> HIDE DEF b, r
<1>6. taken' = [taken EXCEPT ![e] = b[1].msg]
  BY <1>1, <1>2, <1>4
<1>7. Tail(b) # <<>> => Tail(b)[1].conn = e
  <2> SUFFICES ASSUME Tail(b) # <<>> PROVE Tail(b)[1].conn = e
    OBVIOUS
  <2>1. 1 \in 1 .. Len(b) - 1 /\ 1 + 1 \in 1 .. Len(b)
    BY <1>2, EmptySeq
  <2> QED BY <1>2, <1>3, <1>4, <2>1
<1>8. Rest(e)' = Tail(b) /\ \A d \in Conns \ {e} : Rest(d)' = Rest(d)
  <2>1. readBuffer'[r] = Tail(b) /\ readBuffer[r] = b
    BY <1>1 DEF TypeOK, b
  <2>2. Rest(e)' = Tail(b)
    BY <1>4, <1>7, <2>1 DEF Rest
  <2>3. ASSUME NEW d \in Conns \ {e} PROVE Rest(d)' = Rest(d)
    <3>1. CASE ReaderOf[d] = r
      <4>1. b[1].conn # d
        BY <1>4, <2>3
      <4> QED BY <1>7, <2>1, <3>1, <4>1 DEF Rest
    <3>2. CASE ReaderOf[d] # r
      BY <1>1, <3>2, StreamsAssumption DEF Rest, TypeOK
    <3> QED BY <3>1, <3>2
  <2> QED BY <2>2, <2>3
<1>9. TypeOK'
  <2>1. readBuffer' \in [Readers -> Seq(Piece)]
    BY <1>1, <1>2 DEF TypeOK
  <2>2. taken' \in [Conns -> Nat]
    BY <1>1, <1>4, <1>6 DEF TypeOK
  <2> QED BY <1>1, <2>1, <2>2 DEF TypeOK
<1>10. Ordered' /\ \A d \in Conns : \A i \in Nat : End(d, i)' = End(d, i)
  BY <1>1, SameStreams DEF IInv, Ordered, TypeOK
<1>11. OneSource'
  <2> SUFFICES ASSUME NEW x \in Readers, NEW k \in DOMAIN readBuffer'[x]
               PROVE  /\ ReaderOf[readBuffer'[x][k].conn] = x
                      /\ readBuffer'[x][k].conn = readBuffer'[x][1].conn
                      /\ readBuffer'[x][k].msg \in 1 .. Len(sent[readBuffer'[x][k].conn])
    BY <1>1 DEF OneSource
  <2>1. CASE x = r
    <3>1. readBuffer'[x] = Tail(b) /\ k \in 1 .. Len(b) - 1
      BY <1>1, <1>2, <2>1, LenProperties DEF TypeOK
    <3>2. 1 \in 1 .. Len(b) - 1 /\ k + 1 \in 1 .. Len(b) /\ 1 + 1 \in 1 .. Len(b)
      BY <1>2, <3>1
    <3> QED BY <1>2, <1>3, <1>4, <2>1, <3>1, <3>2
  <2>2. CASE x # r
    BY <1>1, <2>2 DEF IInv, OneSource, TypeOK
  <2> QED BY <2>1, <2>2
<1>12. ~behind[e] => b[1].msg = taken[e] + 1 /\ taken[e] \in Nat
  <2>1. 1 \in DOMAIN b /\ taken[e] \in Nat
    BY <1>1, <1>2, <1>4, LenProperties DEF TypeOK
  <2> QED BY <1>4, <1>5, <2>1 DEF IInv, WholeUnlessBehind
<1>13. ~behind[e] => /\ taken'[e] = taken[e] + 1 /\ taken[e] \in Nat
                     /\ taken'[e] + Len(Rest(e)') = taken[e] + Len(b)
  <2> SUFFICES ASSUME ~behind[e]
               PROVE  /\ taken'[e] = taken[e] + 1 /\ taken[e] \in Nat
                      /\ taken'[e] + Len(Rest(e)') = taken[e] + Len(b)
    OBVIOUS
  <2>1. taken'[e] = taken[e] + 1 /\ taken[e] \in Nat
    BY <1>1, <1>4, <1>6, <1>12 DEF TypeOK
  <2>2. Len(Rest(e)') = Len(b) - 1
    BY <1>2, <1>8
  <2> QED BY <1>2, <2>1, <2>2
<1>14. \A d \in Conns \ {e} : taken'[d] = taken[d]
  BY <1>1, <1>4, <1>6 DEF TypeOK
<1>15. Counted'
  <2> SUFFICES ASSUME NEW d \in Conns, ~behind[d]
               PROVE  taken'[d] + Len(Rest(d)') <= Len(sent[d])
    BY <1>1 DEF Counted
  <2>1. CASE d = e
    BY <1>5, <1>13, <2>1 DEF IInv, Counted
  <2>2. CASE d # e
    BY <1>8, <1>14, <2>2 DEF IInv, Counted
  <2> QED BY <2>1, <2>2
<1>16. WholeUnlessBehind'
  <2> SUFFICES ASSUME NEW d \in Conns, ~behind[d]
               PROVE  /\ \A k \in DOMAIN Rest(d)' : Rest(d)'[k].whole /\ Rest(d)'[k].msg = taken'[d] + k
                      /\ got[d] = End(d, taken[d] + Len(Rest(d)))'
    BY <1>1 DEF WholeUnlessBehind
  <2>1. CASE d = e
    <3>1. \A k \in DOMAIN b : b[k].whole /\ b[k].msg = taken[e] + k
      BY <1>4, <1>5, <2>1 DEF IInv, WholeUnlessBehind
    <3>2. got[e] = End(e, taken[e] + Len(b))
      BY <1>4, <1>5, <2>1 DEF IInv, WholeUnlessBehind
    <3>3. ASSUME NEW k \in DOMAIN Rest(e)'
          PROVE  Rest(e)'[k].whole /\ Rest(e)'[k].msg = taken'[e] + k
      <4>1. k \in 1 .. Len(b) - 1
        BY <1>2, <1>8, <3>3, LenProperties
      <4>2. k + 1 \in DOMAIN b /\ Tail(b)[k] = b[k + 1]
        BY <1>1, <1>2, <4>1, LenProperties DEF b
      <4>3. b[k + 1].whole /\ b[k + 1].msg = taken[e] + (k + 1)
        BY <3>1, <4>2
      <4>4. taken[e] + (k + 1) = taken'[e] + k
        BY <1>13, <2>1, <4>1
      <4> QED BY <1>8, <4>2, <4>3, <4>4
    <3>4. (taken[e] + Len(Rest(e)))' = taken[e] + Len(b)
      BY <1>13, <2>1
    <3>5. End(e, taken[e] + Len(Rest(e)))' = End(e, taken[e] + Len(b))
      BY <1>1, <3>4 DEF End
    <3> QED BY <2>1, <3>2, <3>3, <3>5
  <2>2. CASE d # e
    <3>1. taken'[d] = taken[d] /\ Rest(d)' = Rest(d)
      BY <1>8, <1>14, <2>2
    <3>2. End(d, taken[d] + Len(Rest(d)))' = End(d, taken[d] + Len(Rest(d)))
      BY <1>1, <3>1 DEF End
    <3> QED BY <3>1, <3>2 DEF IInv, WholeUnlessBehind
  <2> QED BY <2>1, <2>2
<1> QED BY <1>9, <1>10, <1>11, <1>15, <1>16 DEF IInv

\* A read without a terminator leaves part of a message in the stream, so that
\* the stream is behind from then on.
LEMMA NothingStep ==
    ASSUME IInv, NEW c \in Conns, NEW n, ReadNothing(c, n)
    PROVE  IInv'
<1>1. /\ TypeOK /\ transport' = transport /\ sent' = sent
      /\ readBuffer' = readBuffer /\ taken' = taken
      /\ readBuffer[ReaderOf[c]] = <<>> /\ ReaderOf[c] \in Readers
  BY StreamsAssumption DEF ReadNothing, IInv
<1>2. \A d \in Conns : Rest(d)' = Rest(d)
  BY <1>1 DEF Rest
<1>3. /\ got' \in [Conns -> Nat] /\ behind' \in [Conns -> BOOLEAN]
      /\ \A d \in Conns : got'[d] <= Written(d)
      /\ \A d \in Conns : ~behind'[d] => ~behind[d] /\ got'[d] = got[d]
  <2>1. CASE UNCHANGED <<got, behind>>
    BY <1>1, <2>1 DEF IInv, TypeOK, Ordered
  <2>2. CASE Reading(c, n) /\ Pieces(c, n) = <<>>
    <3>1. /\ n \in ReadSizes(c)
          /\ got' = [got EXCEPT ![c] = @ + n]
          /\ behind' = [behind EXCEPT ![c] = @ \/ n < Waiting(c)]
      BY <1>1, <2>2 DEF Reading
    <3>2. n \in Nat \ {0} /\ got[c] + n <= Written(c) /\ got[c] \in Nat /\ Written(c) \in Nat
      BY <3>1, ReadSizesRange
    <3>3. got' \in [Conns -> Nat] /\ behind' \in [Conns -> BOOLEAN]
      BY <1>1, <3>1, <3>2 DEF TypeOK
    <3>4. \A d \in Conns : got'[d] <= Written(d)
      BY <1>1, <3>1, <3>2 DEF IInv, TypeOK, Ordered
    <3>5. behind'[c]
      <4> SUFFICES ASSUME ~behind'[c] PROVE FALSE
        OBVIOUS
      <4>1. ~behind[c] /\ got[c] + n = Written(c)
        <5>1. ~behind[c] /\ ~(n < Waiting(c))
          BY <1>1, <3>1 DEF TypeOK
        <5> QED BY <3>2, <5>1 DEF Waiting
      <4>2. taken[c] \in Nat /\ Len(Rest(c)) = 0 /\ Len(sent[c]) \in Nat
        BY <1>1, EmptySeq, LenProperties DEF Rest, TypeOK
      <4>3. taken[c] + Len(Rest(c)) = taken[c]
        BY <4>2
      <4>4. taken[c] \in 0 .. Len(sent[c]) /\ got[c] = End(c, taken[c])
        BY <4>1, <4>2, <4>3 DEF IInv, Counted, WholeUnlessBehind
      <4>5. LastEnded(c, got[c]) = taken[c]
        BY <1>1, <4>4, LastEndedAtEnd DEF IInv
      <4>6. LastEnded(c, got[c] + n) = Len(sent[c])
        BY <1>1, <4>1, <4>2, LastEndedAtEnd DEF IInv, Written
      <4>7. Len(Pieces(c, n)) = Len(sent[c]) - taken[c]
        <5>1. TypeOK /\ n \in Nat
          BY <1>1, <3>2 DEF IInv
        <5>2. CutInto(c, LastEnded(c, got[c]), LastEnded(c, got[c] + n), Pieces(c, n))
          BY <5>1, PiecesOf, Zenon
        <5> QED BY <4>5, <4>6, <5>2 DEF CutInto
      <4>8. Len(Pieces(c, n)) = 0
        BY <2>2, EmptySeq
      <4>9. taken[c] = Len(sent[c])
        BY <4>2, <4>7, <4>8
      <4> QED BY <3>2, <4>1, <4>4, <4>9 DEF Written
    <3>6. \A d \in Conns : ~behind'[d] => ~behind[d] /\ got'[d] = got[d]
      BY <1>1, <3>1, <3>5 DEF TypeOK
    <3> QED BY <3>3, <3>4, <3>6
  <2> QED BY <2>1, <2>2 DEF ReadNothing
<1>4. Ordered'
  BY <1>1, <1>3, SameStreams
<1>5. TypeOK'
  BY <1>1, <1>3 DEF TypeOK
<1>6. OneSource'
  BY <1>1 DEF IInv, OneSource
<1>7. Counted'
  BY <1>1, <1>2, <1>3 DEF IInv, Counted
<1>8. WholeUnlessBehind'
  <2> SUFFICES ASSUME NEW d \in Conns, ~behind'[d]
               PROVE  /\ \A k \in DOMAIN Rest(d)' : Rest(d)'[k].whole /\ Rest(d)'[k].msg = taken'[d] + k
                      /\ got'[d] = End(d, taken[d] + Len(Rest(d)))'
    BY DEF WholeUnlessBehind
  <2>1. End(d, taken[d] + Len(Rest(d)))' = End(d, taken[d] + Len(Rest(d)))
    BY <1>1, <1>2 DEF End
  <2> QED BY <1>1, <1>2, <1>3, <2>1 DEF IInv, WholeUnlessBehind
<1> QED BY <1>4, <1>5, <1>6, <1>7, <1>8 DEF IInv
-----------------------------------------------------------------------------
(* The specification.                                                      *)

LEMMA InitStep == Init => IInv
<1> SUFFICES ASSUME Init PROVE IInv
  OBVIOUS
<1>1. TypeOK
  BY DEF Init, TypeOK
<1>2. \A c \in Conns : Rest(c) = <<>> /\ Len(sent[c]) = 0 /\ Len(Rest(c)) = 0 /\ Written(c) = 0
  BY StreamsAssumption DEF Init, Rest, Written, End
<1>3. Ordered
  BY <1>2 DEF Init, Ordered
<1>4. OneSource
  BY DEF Init, OneSource
<1>5. Counted
  BY <1>2 DEF Init, Counted
<1>6. WholeUnlessBehind
  BY <1>2 DEF Init, WholeUnlessBehind, End
<1> QED BY <1>1, <1>3, <1>4, <1>5, <1>6 DEF IInv

LEMMA NextStep == IInv /\ [Next]_streamVars => IInv'
<1> SUFFICES ASSUME IInv, [Next]_streamVars PROVE IInv'
  OBVIOUS
<1>1. CASE Next
  <2>1. PICK c \in Conns : \/ \E m \in Messages : Send(c, m)
                           \/ \E n \in 0 .. BufferSize : ReadData(c, n, Queue(c, n)) \/ ReadNothing(c, n)
    BY <1>1 DEF Next
  <2>2. ASSUME NEW m \in Messages, Send(c, m) PROVE IInv'
    BY <2>2, SendStep
  <2>3. ASSUME NEW n \in 0 .. BufferSize, ReadData(c, n, Queue(c, n)) PROVE IInv'
    BY <2>3, ReadStep, HandStep
  <2>4. ASSUME NEW n \in 0 .. BufferSize, ReadNothing(c, n) PROVE IInv'
    BY <2>4, NothingStep
  <2> QED BY <2>1, <2>2, <2>3, <2>4
<1>2. CASE UNCHANGED streamVars
  <2>1. \A c \in Conns : Rest(c)' = Rest(c) /\ \A i : End(c, i)' = End(c, i)
    BY <1>2 DEF streamVars, Rest, End
  <2>2. \A c \in Conns : Written(c)' = Written(c)
    BY <1>2 DEF streamVars, Written, End
  <2>3. TypeOK' /\ OneSource'
    BY <1>2 DEF streamVars, IInv, TypeOK, OneSource
  <2>4. Ordered'
    BY <1>2, <2>1, <2>2 DEF streamVars, IInv, Ordered
  <2>5. Counted'
    BY <1>2, <2>1 DEF streamVars, IInv, Counted
  <2>6. WholeUnlessBehind'
    <3>1. \A c \in Conns : End(c, taken[c] + Len(Rest(c)))' = End(c, taken[c] + Len(Rest(c)))
      BY <1>2, <2>1 DEF streamVars, End
    <3> QED BY <1>2, <2>1, <3>1 DEF streamVars, IInv, WholeUnlessBehind
  <2> QED BY <2>3, <2>4, <2>5, <2>6 DEF IInv
<1> QED BY <1>1, <1>2

\* What is read are whole pieces of messages that were written, for any sizes.
THEOREM TypeCorrect == Spec => []TypeOK
<1>1. IInv => TypeOK
  BY DEF IInv
<1> QED BY <1>1, InitStep, NextStep, PTL DEF Spec

\* For any messages, sizes and readers: a message is dropped, cut or handed out
\* of order only from a stream that some read has not emptied.
THEOREM WholeWhileKeepingPace == Spec => []WholeUnlessBehind
<1>1. IInv => WholeUnlessBehind
  BY DEF IInv
<1> QED BY <1>1, InitStep, NextStep, PTL DEF Spec
-----------------------------------------------------------------------------
(* What a step of a stream does, for those who use streams.                *)

\* A write adds one message behind the others, and touches no other stream.
LEMMA SendFacts ==
    ASSUME TypeOK, NEW c \in Conns, NEW m \in Messages, Send(c, m)
    PROVE  /\ Len(sent[c]) \in Nat /\ Len(sent'[c]) = Len(sent[c]) + 1
           /\ sent'[c][Len(sent[c]) + 1].msg = m
           /\ \A i \in 1 .. Len(sent[c]) : sent'[c][i] = sent[c][i]
           /\ \A i \in 0 .. Len(sent[c]) : End(c, i)' = End(c, i)
           /\ sent'[c][Len(sent[c]) + 1].end = End(c, Len(sent[c])) + Size[m]
           /\ \A d \in Conns \ {c} : sent'[d] = sent[d] /\ \A i : End(d, i)' = End(d, i)
           /\ UNCHANGED <<transport, got, readBuffer, taken, behind>>
<1> DEFINE S == [msg : Messages, end : Nat]
           e == [msg |-> m, end |-> Written(c) + Size[m]]
<1>1. Len(sent[c]) \in Nat /\ Written(c) \in Nat /\ Size[m] \in Nat
  <2>1. Len(sent[c]) \in Nat /\ Size[m] \in Nat
    BY SizesAssumption, LenProperties DEF TypeOK
  <2> QED BY <2>1, EndType DEF Written
<1>2. sent \in [Conns -> Seq(S)] /\ e \in S /\ sent' = [sent EXCEPT ![c] = Append(@, e)]
  <2>1. sent \in [Conns -> Seq(S)]
    BY DEF TypeOK
  <2>3. e \in S
    BY <1>1
  <2>2. sent' = [sent EXCEPT ![c] = Append(@, e)]
    BY DEF Send
  <2> QED BY <2>1, <2>2, <2>3
<1>3. e.msg = m /\ e.end = Written(c) + Size[m]
  OBVIOUS
<1> HIDE DEF S, e
<1>4. sent'[c] = Append(sent[c], e) /\ sent[c] \in Seq(S) /\ \A d \in Conns \ {c} : sent'[d] = sent[d]
  BY <1>2
<1>5. /\ Len(sent'[c]) = Len(sent[c]) + 1 /\ sent'[c][Len(sent[c]) + 1] = e
      /\ \A i \in 1 .. Len(sent[c]) : sent'[c][i] = sent[c][i]
  BY <1>2, <1>4, AppendProperties
<1>6. \A i \in 0 .. Len(sent[c]) : End(c, i)' = End(c, i)
  BY <1>1, <1>5 DEF End
<1>7. sent'[c][Len(sent[c]) + 1].end = End(c, Len(sent[c])) + Size[m]
  BY <1>3, <1>5 DEF Written
<1>8. \A d \in Conns \ {c} : \A i : End(d, i)' = End(d, i)
  BY <1>4 DEF End
<1> QED BY <1>1, <1>3, <1>4, <1>5, <1>6, <1>7, <1>8 DEF Send

\* What readData hands out is the next message of its stream, if it is of the
\* connection asked and nothing has been left there.
LEMMA ReadFacts ==
    ASSUME IInv, NEW c \in Conns, NEW n, NEW h, h = Head(Queue(c, n)), ReadData(c, n, Queue(c, n))
    PROVE  /\ h.conn \in Conns /\ ReaderOf[h.conn] = ReaderOf[c]
           /\ h.msg \in 1 .. Len(sent[h.conn])
           /\ taken' = [taken EXCEPT ![h.conn] = h.msg]
           /\ readBuffer' = [readBuffer EXCEPT ![ReaderOf[c]] = Tail(Queue(c, n))]
           /\ UNCHANGED <<transport, sent>>
           /\ \A d \in Conns : behind[d] => behind'[d]
           /\ \A d \in Conns \ {c} : behind'[d] = behind[d]
           /\ h.conn = c /\ ~behind'[c] => h.whole /\ h.msg = taken[c] + 1
<1> DEFINE r == ReaderOf[c]
<1>1. /\ TypeOK /\ r \in Readers /\ readBuffer[r] \in Seq(Piece) /\ Len(sent[c]) \in Nat
      /\ Queue(c, n) # <<>> /\ taken[c] \in Nat
  BY StreamsAssumption, LenProperties DEF IInv, TypeOK, ReadData
<1>2. /\ taken' = [taken EXCEPT ![h.conn] = h.msg] /\ UNCHANGED <<transport, sent>>
      /\ readBuffer' = [readBuffer EXCEPT ![r] = Tail(Queue(c, n))]
  BY DEF ReadData
<1>3. /\ \A d \in Conns : behind[d] => behind'[d]
      /\ \A d \in Conns \ {c} : behind'[d] = behind[d]
  BY <1>1 DEF ReadData, Reading, TypeOK
<1>4. CASE readBuffer[r] = <<>>
  <2> DEFINE first == LastEnded(c, got[c])
             last == LastEnded(c, got[c] + n)
             q == Pieces(c, n)
  <2>1. Queue(c, n) = q /\ n \in ReadSizes(c)
    BY <1>4 DEF Queue, ReadData, Reading
  <2>2. n \in Nat
    BY <2>1, ReadSizesRange
  <2>3. CutInto(c, first, last, q)
    BY <1>1, <2>2, PiecesOf
  <2> HIDE DEF first, last, q
  <2>4. /\ first \in 0 .. Len(sent[c]) /\ last \in first .. Len(sent[c]) /\ q \in Seq(Piece)
        /\ Len(q) = last - first
        /\ \A k \in 1 .. last - first : /\ q[k].conn = c /\ q[k].msg = first + k
                                        /\ End(c, first + k - 1) >= got[c] => q[k].whole
    BY <2>3 DEF CutInto
  <2>5. Len(q) # 0 /\ h = q[1] /\ 1 \in 1 .. last - first
    BY <1>1, <2>1, <2>4, EmptySeq, LenProperties
  <2>6. h.conn = c /\ h.msg = first + 1 /\ h.msg \in 1 .. Len(sent[c])
    BY <1>1, <2>4, <2>5
  <2>7. ASSUME ~behind'[c] PROVE h.whole /\ h.msg = taken[c] + 1
    <3>1. ~behind[c] /\ Rest(c) = <<>> /\ Len(Rest(c)) = 0
      BY <1>3, <1>4, <2>7 DEF Rest
    <3>2. taken[c] + Len(Rest(c)) = taken[c]
      BY <1>1, <3>1
    <3>3. taken[c] \in 0 .. Len(sent[c]) /\ got[c] = End(c, taken[c])
      BY <1>1, <3>1, <3>2 DEF IInv, Counted, WholeUnlessBehind
    <3>4. first = taken[c]
      BY <1>1, <3>3, LastEndedAtEnd DEF IInv, first
    <3>5. got[c] \in Nat /\ End(c, first + 1 - 1) = got[c]
      BY <1>1, <2>4, <3>3, <3>4 DEF TypeOK
    <3> QED BY <2>4, <2>5, <2>6, <3>4, <3>5
  <2> QED BY <1>1, <1>2, <1>3, <2>6, <2>7
<1>5. CASE readBuffer[r] # <<>>
  <2> DEFINE b == readBuffer[r]
  <2>1. Queue(c, n) = b /\ behind' = behind
    BY <1>5 DEF Queue, ReadData, Reading
  <2>2. Len(b) \in Nat \ {0} /\ h = b[1] /\ 1 \in DOMAIN b /\ DOMAIN b = 1 .. Len(b)
    BY <1>1, <1>5, <2>1, EmptySeq, LenProperties
  <2>3. /\ ReaderOf[h.conn] = r /\ h.msg \in 1 .. Len(sent[h.conn])
        /\ h \in Piece
    BY <1>1, <2>2, ElementOfSeq DEF IInv, OneSource
  <2>4. ASSUME h.conn = c, ~behind'[c] PROVE h.whole /\ h.msg = taken[c] + 1
    <3>1. Rest(c) = b
      BY <1>5, <2>2, <2>4 DEF Rest
    <3> QED BY <2>1, <2>2, <2>4, <3>1 DEF IInv, WholeUnlessBehind
  <2> QED BY <1>1, <1>2, <1>3, <2>3, <2>4 DEF Piece
<1> QED BY <1>4, <1>5

\* A read without the end of a message leaves some of the stream, and it is not
\* as large as the buffer if no message is larger than that.
LEMMA NoPieces ==
    ASSUME IInv, NEW c \in Conns, NEW n \in ReadSizes(c), Pieces(c, n) = <<>>
    PROVE  /\ n < Waiting(c)
           /\ (\A i \in 1 .. Len(sent[c]) : End(c, i) <= End(c, i - 1) + BufferSize) => n # BufferSize
<1> DEFINE first == LastEnded(c, got[c])
           last == LastEnded(c, got[c] + n)
           L == Len(sent[c])
<1>1. /\ n \in Nat \ {0} /\ got[c] + n <= Written(c) /\ got[c] \in Nat /\ Written(c) \in Nat
      /\ TypeOK /\ L \in Nat
  BY ReadSizesRange, LenProperties DEF IInv, TypeOK
<1>2. /\ first \in 0 .. L /\ End(c, first) <= got[c]
      /\ last \in 0 .. L /\ \A j \in last + 1 .. L : End(c, j) > got[c] + n
  <2>1. got[c] + n \in Nat
    BY <1>1
  <2> QED BY <1>1, <2>1, LastEndedRange
<1>3. last = first
  <2>1. CutInto(c, first, last, Pieces(c, n))
    BY <1>1, PiecesOf
  <2>2. Len(Pieces(c, n)) = last - first
    BY <2>1 DEF CutInto
  <2> QED BY <1>2, <2>2, EmptySeq
<1> HIDE DEF first, last, L
<1>4. /\ first # L /\ first + 1 \in 1 .. L /\ first + 1 \in last + 1 .. L /\ L \in last + 1 .. L
  <2>1. first # L
    BY <1>1, <1>2 DEF Written, L
  <2> QED BY <1>1, <1>2, <1>3, <2>1
<1>5. End(c, L) > got[c] + n /\ End(c, first + 1) > got[c] + n
  BY <1>2, <1>4
<1>6. n < Waiting(c)
  BY <1>1, <1>5 DEF Waiting, Written, L
<1>7. ASSUME \A i \in 1 .. L : End(c, i) <= End(c, i - 1) + BufferSize PROVE n # BufferSize
  <2>1. first + 1 - 1 = first /\ End(c, first) \in Nat /\ End(c, first + 1) \in Nat
    <3>1. first + 1 - 1 = first /\ first + 1 \in 0 .. Len(sent[c]) /\ first \in 0 .. Len(sent[c])
      BY <1>1, <1>2, <1>4 DEF L
    <3> QED BY <1>1, <3>1, EndType
  <2>2. End(c, first + 1) <= End(c, first) + BufferSize
    <3>1. End(c, first + 1) <= End(c, first + 1 - 1) + BufferSize
      BY <1>1, <1>2, <1>4, <1>7, <2>1, SizesAssumption
    <3> QED BY <2>1, <3>1
  <2> QED BY <1>1, <1>2, <1>5, <2>1, <2>2, SizesAssumption
<1> QED BY <1>6, <1>7 DEF L
-----------------------------------------------------------------------------
(* Structs as characters, and back.  What the recursive definitions say is *)
(* shown for every number by the greatest one of a bounded set.            *)

\* Induction on the natural numbers, for the sets of those that have a property.
LEMMA StrongInduction ==
    ASSUME NEW S, \A n \in Nat : 0 .. n - 1 \subseteq S => n \in S
    PROVE  Nat \subseteq S
<1> SUFFICES ASSUME NEW N \in Nat, N \notin S PROVE FALSE
  OBVIOUS
<1> DEFINE I == { i \in 0 .. N : 0 .. i - 1 \subseteq S }
<1>1. I \in SUBSET (0 .. N) /\ 0 \in I
  OBVIOUS
<1>2. PICK m \in I : \A j \in I : j <= m
  <2> HIDE DEF I
  <2> QED BY <1>1, Greatest
<1>3. m \in S /\ m # N
  BY <1>2
<1>4. m + 1 \in I
  BY <1>2, <1>3
<1> QED BY <1>2, <1>4

\* The last digit of a number, and the number without it.
LEMMA DivisionByTen ==
    ASSUME NEW n \in Nat
    PROVE  /\ n % 10 \in 0 .. 9 /\ n \div 10 \in Nat /\ n = 10 * (n \div 10) + (n % 10)
           /\ n >= 10 => n \div 10 \in 1 .. n - 1
OBVIOUS

\* g tells the digits of the numbers up to n.
DigitsTo(g, n) == g = [m \in 0 .. n |-> IF m < 10 THEN <<m>> ELSE Append(g[m \div 10], m % 10)]

\* Each of them.
LEMMA DigitsToIs ==
    ASSUME NEW n \in Nat, NEW g, DigitsTo(g, n), NEW m \in 0 .. n
    PROVE  g[m] = IF m < 10 THEN <<m>> ELSE Append(g[m \div 10], m % 10)
BY DEF DigitsTo

\* They are the same however far they go.
LEMMA DigitsToOnce ==
    ASSUME NEW g, NEW h, NEW n \in Nat, NEW m \in Nat, DigitsTo(g, n), DigitsTo(h, m)
    PROVE  \A i \in Nat : i <= n /\ i <= m => g[i] = h[i]
<1> DEFINE S == { i \in Nat : i <= n /\ i <= m => g[i] = h[i] }
<1>1. ASSUME NEW i \in Nat, 0 .. i - 1 \subseteq S PROVE i \in S
  <2> SUFFICES ASSUME i <= n, i <= m PROVE g[i] = h[i]
    OBVIOUS
  <2>1. /\ g[i] = IF i < 10 THEN <<i>> ELSE Append(g[i \div 10], i % 10)
        /\ h[i] = IF i < 10 THEN <<i>> ELSE Append(h[i \div 10], i % 10)
    BY DigitsToIs
  <2>2. ASSUME i >= 10 PROVE g[i \div 10] = h[i \div 10]
    <3>1. i \div 10 \in 1 .. i - 1
      BY <2>2, DivisionByTen
    <3> QED BY <1>1, <3>1
  <2> QED BY <2>1, <2>2
<1> HIDE DEF S
<1>2. Nat \subseteq S
  BY <1>1, StrongInduction
<1> QED BY <1>2 DEF S

\* They exist however far they should go, from the last digit to the first.
LEMMA DigitsToExist == \A n \in Nat : \E g : DigitsTo(g, n)
<1> DEFINE S == { n \in Nat : \E g : DigitsTo(g, n) }
<1>1. ASSUME NEW n \in Nat, 0 .. n - 1 \subseteq S PROVE n \in S
  <2>1. CASE n = 0
    <3> DEFINE g == [m \in 0 .. 0 |-> <<0>>]
    <3>1. g = [m \in 0 .. 0 |-> IF m < 10 THEN <<m>> ELSE Append(g[m \div 10], m % 10)]
      OBVIOUS
    <3>2. DigitsTo(g, 0)
      BY <3>1 DEF DigitsTo
    <3> HIDE DEF g
    <3> QED BY <2>1, <3>2
  <2>2. CASE n # 0
    <3>1. PICK f : DigitsTo(f, n - 1)
      BY <1>1, <2>2
    <3> DEFINE g == [m \in 0 .. n |-> IF m < n THEN f[m] ELSE IF n < 10 THEN <<n>> ELSE Append(f[n \div 10], n % 10)]
    <3>2. \A m \in 0 .. n - 1 : f[m] = IF m < 10 THEN <<m>> ELSE Append(f[m \div 10], m % 10)
      <4>1. n - 1 \in Nat
        BY <2>2
      <4> QED BY <3>1, <4>1, DigitsToIs
    <3>3. \A m \in 0 .. n : m >= 10 => m \div 10 \in 0 .. n - 1 /\ g[m \div 10] = f[m \div 10]
      <4> SUFFICES ASSUME NEW m \in 0 .. n, m >= 10
                   PROVE  m \div 10 \in 0 .. n - 1 /\ g[m \div 10] = f[m \div 10]
        OBVIOUS
      <4>1. m \div 10 \in 1 .. m - 1
        BY DivisionByTen
      <4> QED BY <4>1
    <3>4. \A m \in 0 .. n : g[m] = IF m < 10 THEN <<m>> ELSE Append(g[m \div 10], m % 10)
      <4> SUFFICES ASSUME NEW m \in 0 .. n
                   PROVE  g[m] = IF m < 10 THEN <<m>> ELSE Append(g[m \div 10], m % 10)
        OBVIOUS
      <4>1. g[m] = IF m < 10 THEN <<m>> ELSE Append(f[m \div 10], m % 10)
        BY <3>2
      <4> QED BY <3>3, <4>1
    <3>5. g = [m \in 0 .. n |-> IF m < 10 THEN <<m>> ELSE Append(g[m \div 10], m % 10)]
      BY <3>4
    <3> HIDE DEF g
    <3> QED BY <3>5 DEF DigitsTo
  <2> QED BY <2>1, <2>2
<1> HIDE DEF S
<1>2. Nat \subseteq S
  BY <1>1, StrongInduction
<1> QED BY <1>2 DEF S

\* The definition of Digits holds.
LEMMA DigitsDefined ==
    ASSUME NEW n \in Nat
    PROVE  /\ n < 10 => Digits[n] = <<n>>
           /\ n >= 10 => Digits[n] = Append(Digits[n \div 10], n % 10)
<1> DEFINE G(m) == CHOOSE g : DigitsTo(g, m)
           f == [m \in Nat |-> G(m)[m]]
<1>1. \A m \in Nat : DigitsTo(G(m), m)
  BY DigitsToExist
<1>2. ASSUME NEW m \in Nat
      PROVE  f[m] = IF m < 10 THEN <<m>> ELSE Append(f[m \div 10], m % 10)
  <2>1. G(m)[m] = IF m < 10 THEN <<m>> ELSE Append(G(m)[m \div 10], m % 10)
    <3>1. DigitsTo(G(m), m)
      BY <1>1
    <3> HIDE DEF G
    <3> QED BY <3>1, DigitsToIs
  <2>2. m >= 10 => m \div 10 \in Nat /\ m \div 10 <= m
    BY DivisionByTen
  <2>3. ASSUME m >= 10 PROVE G(m)[m \div 10] = G(m \div 10)[m \div 10]
    <3>1. DigitsTo(G(m), m) /\ DigitsTo(G(m \div 10), m \div 10)
      BY <1>1, <2>2, <2>3
    <3> HIDE DEF G
    <3> QED BY <2>2, <2>3, <3>1, DigitsToOnce
  <2> QED BY <2>1, <2>2, <2>3
<1>3. f = [m \in Nat |-> IF m < 10 THEN <<m>> ELSE Append(f[m \div 10], m % 10)]
  <2>1. f = [m \in Nat |-> f[m]]
    OBVIOUS
  <2> HIDE DEF f
  <2> QED BY <1>2, <2>1
<1> HIDE DEF f
<1>4. Digits = [m \in Nat |-> IF m < 10 THEN <<m>> ELSE Append(Digits[m \div 10], m % 10)]
  BY <1>3 DEF Digits
<1>5. Digits[n] = IF n < 10 THEN <<n>> ELSE Append(Digits[n \div 10], n % 10)
  <2> DEFINE D == Digits
  <2>1. D = [m \in Nat |-> IF m < 10 THEN <<m>> ELSE Append(D[m \div 10], m % 10)]
    BY <1>4
  <2> HIDE DEF D
  <2>2. D[n] = IF n < 10 THEN <<n>> ELSE Append(D[n \div 10], n % 10)
    BY <2>1
  <2> QED BY <2>2 DEF D
<1> QED BY <1>5

\* What sprintf writes are digits, one at least.
LEMMA DigitsType == \A n \in Nat : Digits[n] \in Seq(0 .. 9) /\ Len(Digits[n]) > 0
<1> DEFINE P(n) == Digits[n] \in Seq(0 .. 9) /\ Len(Digits[n]) > 0
           S == { n \in Nat : P(n) }
<1>1. ASSUME NEW n \in Nat, 0 .. n - 1 \subseteq S PROVE n \in S
  <2> SUFFICES P(n)
    OBVIOUS
  <2>1. CASE n < 10
    <3>1. Digits[n] = <<n>>
      BY <2>1, DigitsDefined
    <3>2. <<n>> \in Seq(0 .. 9) /\ Len(<<n>>) = 1
      BY <2>1
    <3> QED BY <3>1, <3>2
  <2>2. CASE n >= 10
    <3>1. n \div 10 \in 0 .. n - 1 /\ n % 10 \in 0 .. 9
      BY <2>2, DivisionByTen
    <3>2. Digits[n] = Append(Digits[n \div 10], n % 10)
      BY <2>2, DigitsDefined
    <3>3. Digits[n \div 10] \in Seq(0 .. 9)
      BY <1>1, <3>1
    <3>4. Len(Append(Digits[n \div 10], n % 10)) = Len(Digits[n \div 10]) + 1 /\ Len(Digits[n \div 10]) \in Nat
      BY <3>1, <3>3, AppendProperties, LenProperties
    <3>5. Append(Digits[n \div 10], n % 10) \in Seq(0 .. 9)
      BY <3>1, <3>3, AppendProperties
    <3> QED BY <3>2, <3>4, <3>5
  <2> QED BY <2>1, <2>2
<1> HIDE DEF S
<1>2. Nat \subseteq S
  BY <1>1, StrongInduction
<1> QED BY <1>2 DEF S

\* v holds what the first digits of s stand for, up to n of them.
ValuesTo(s, v, n) == v = [k \in 0 .. n |-> IF k = 0 THEN 0 ELSE 10 * v[k - 1] + s[k]]

\* Each of them.
LEMMA ValuesToIs ==
    ASSUME NEW s, NEW n \in Nat, NEW v, ValuesTo(s, v, n)
    PROVE  v[0] = 0 /\ \A k \in 1 .. n : v[k] = 10 * v[k - 1] + s[k]
<1>1. \A k \in 0 .. n : v[k] = IF k = 0 THEN 0 ELSE 10 * v[k - 1] + s[k]
  BY DEF ValuesTo
<1> QED BY <1>1

\* Each digit more adds one to what there is.
LEMMA ValuesToMore ==
    ASSUME NEW s, NEW n \in Nat, NEW v, ValuesTo(s, v, n)
    PROVE  ValuesTo(s, [k \in 0 .. n + 1 |-> IF k = n + 1 THEN 10 * v[n] + s[n + 1] ELSE v[k]], n + 1)
<1> DEFINE w == [k \in 0 .. n + 1 |-> IF k = n + 1 THEN 10 * v[n] + s[n + 1] ELSE v[k]]
<1>1. v[0] = 0 /\ \A k \in 1 .. n : v[k] = 10 * v[k - 1] + s[k]
  BY ValuesToIs
<1>2. ASSUME NEW k \in 0 .. n + 1
      PROVE  w[k] = IF k = 0 THEN 0 ELSE 10 * w[k - 1] + s[k]
  <2>1. CASE k = n + 1
    BY <2>1
  <2>2. CASE k # n + 1
    BY <1>1, <2>2
  <2> QED BY <2>1, <2>2
<1>3. w = [k \in 0 .. n + 1 |-> w[k]]
  OBVIOUS
<1> HIDE DEF w
<1>4. w = [k \in 0 .. n + 1 |-> IF k = 0 THEN 0 ELSE 10 * w[k - 1] + s[k]]
  BY <1>2, <1>3
<1> QED BY <1>4 DEF ValuesTo, w

\* They exist for every text.
LEMMA ValuesToExist ==
    ASSUME NEW s
    PROVE  \A n \in Nat : \E v : ValuesTo(s, v, n)
<1> DEFINE S == { n \in Nat : \E v : ValuesTo(s, v, n) }
<1>1. ASSUME NEW n \in Nat, 0 .. n - 1 \subseteq S PROVE n \in S
  <2>1. CASE n = 0
    <3>1. ValuesTo(s, [k \in 0 .. 0 |-> 0], 0)
      BY DEF ValuesTo
    <3> QED BY <2>1, <3>1
  <2>2. CASE n # 0
    <3>1. n - 1 \in Nat /\ (n - 1) + 1 = n
      BY <2>2
    <3>2. PICK v : ValuesTo(s, v, n - 1)
      BY <1>1, <3>1
    <3>3. \E w : ValuesTo(s, w, (n - 1) + 1)
      BY <3>1, <3>2, ValuesToMore
    <3> QED BY <3>1, <3>3
  <2> QED BY <2>1, <2>2
<1> HIDE DEF S
<1>2. Nat \subseteq S
  BY <1>1, StrongInduction
<1> QED BY <1>2 DEF S

\* Value is the last one.
LEMMA ValueIs ==
    ASSUME NEW C, NEW s \in Seq(C), NEW v, ValuesTo(s, v, Len(s))
    PROVE  Value(s) = v[Len(s)]
<1> DEFINE N == Len(s)
           u == CHOOSE u : ValuesTo(s, u, N)
           S == { n \in Nat : n <= N => u[n] = v[n] }
<1>1. N \in Nat
  BY LenProperties
<1>2. ValuesTo(s, u, N)
  BY <1>1, ValuesToExist
<1>3. Value(s) = u[N]
  BY DEF Value, ValuesTo
<1>4. /\ u[0] = 0 /\ \A k \in 1 .. N : u[k] = 10 * u[k - 1] + s[k]
      /\ v[0] = 0 /\ \A k \in 1 .. N : v[k] = 10 * v[k - 1] + s[k]
  <2> HIDE DEF u, N
  <2> QED BY <1>1, <1>2, ValuesToIs DEF N
<1> HIDE DEF u
<1>5. ASSUME NEW n \in Nat, 0 .. n - 1 \subseteq S PROVE n \in S
  <2>1. CASE n = 0
    BY <1>4, <2>1
  <2>2. CASE n # 0
    <3>1. n <= N => u[n - 1] = v[n - 1]
      BY <1>1, <1>5, <2>2
    <3> QED BY <1>1, <1>4, <2>2, <3>1
  <2> QED BY <2>1, <2>2
<1> HIDE DEF S
<1>6. Nat \subseteq S
  BY <1>5, StrongInduction
<1> QED BY <1>1, <1>3, <1>6 DEF S

\* A digit more makes ten of each.
LEMMA ValueAppend ==
    ASSUME NEW s \in Seq(0 .. 9), NEW d \in 0 .. 9
    PROVE  Value(Append(s, d)) = 10 * Value(s) + d
<1> DEFINE N == Len(s)
           t == Append(s, d)
<1>1. N \in Nat /\ t \in Seq(0 .. 9) /\ Len(t) = N + 1 /\ t[N + 1] = d /\ \A k \in 1 .. N : t[k] = s[k]
  BY LenProperties, AppendProperties
<1>2. PICK v : ValuesTo(s, v, N)
  BY <1>1, ValuesToExist
<1> DEFINE w == [k \in 0 .. N + 1 |-> IF k = N + 1 THEN 10 * v[N] + t[N + 1] ELSE v[k]]
<1>3. ValuesTo(t, v, N)
  <2>1. [k \in 0 .. N |-> IF k = 0 THEN 0 ELSE 10 * v[k - 1] + s[k]]
      = [k \in 0 .. N |-> IF k = 0 THEN 0 ELSE 10 * v[k - 1] + t[k]]
    BY <1>1
  <2> QED BY <1>2, <2>1 DEF ValuesTo
<1> HIDE DEF t, N
<1>4. ValuesTo(t, w, Len(t))
  BY <1>1, <1>3, ValuesToMore
<1>5. Value(t) = w[N + 1] /\ Value(s) = v[N]
  <2> HIDE DEF w
  <2> QED BY <1>1, <1>2, <1>4, ValueIs DEF N
<1>6. w[N + 1] = 10 * v[N] + d
  BY <1>1
<1> QED BY <1>5, <1>6 DEF t

\* A digit is its own value.
LEMMA ValueOne ==
    ASSUME NEW d \in 0 .. 9
    PROVE  Value(<<d>>) = d
<1>1. Value(<<>>) = 0
  <2>1. <<>> \in Seq(0 .. 9) /\ Len(<<>>) = 0 /\ ValuesTo(<<>>, [k \in 0 .. 0 |-> 0], 0)
    BY DEF ValuesTo
  <2> QED BY <2>1, ValueIs
<1>2. Append(<<>>, d) = <<d>> /\ <<>> \in Seq(0 .. 9)
  OBVIOUS
<1>3. Value(Append(<<>>, d)) = 10 * Value(<<>>) + d
  BY <1>2, ValueAppend
<1> QED BY <1>1, <1>2, <1>3

\* strtol undoes sprintf.
LEMMA ValueOfDigits == \A n \in Nat : Value(Digits[n]) = n
<1> DEFINE S == { n \in Nat : Value(Digits[n]) = n }
<1>1. ASSUME NEW n \in Nat, 0 .. n - 1 \subseteq S PROVE n \in S
  <2>1. CASE n < 10
    <3>1. Digits[n] = <<n>>
      BY <2>1, DigitsDefined
    <3> QED BY <2>1, <3>1, ValueOne
  <2>2. CASE n >= 10
    <3>1. n \div 10 \in 0 .. n - 1 /\ n \div 10 \in Nat /\ n % 10 \in 0 .. 9 /\ n = 10 * (n \div 10) + (n % 10)
      BY <2>2, DivisionByTen
    <3>2. Digits[n] = Append(Digits[n \div 10], n % 10)
      BY <2>2, DigitsDefined
    <3>3. Digits[n \div 10] \in Seq(0 .. 9) /\ Value(Digits[n \div 10]) = n \div 10
      BY <1>1, <3>1, DigitsType
    <3>4. Value(Append(Digits[n \div 10], n % 10)) = 10 * Value(Digits[n \div 10]) + (n % 10)
      BY <3>1, <3>3, ValueAppend
    <3> QED BY <3>1, <3>2, <3>3, <3>4
  <2> QED BY <2>1, <2>2
<1> HIDE DEF S
<1>2. Nat \subseteq S
  BY <1>1, StrongInduction
<1> QED BY <1>2 DEF S

\* strtol takes all of them.
LEMMA StrtolOfDigits ==
    ASSUME NEW n \in Nat
    PROVE  strtol(Digits[n]) = n
<1> DEFINE s == Digits[n]
<1>1. s \in Seq(0 .. 9) /\ Len(s) \in Nat /\ \A j \in 1 .. Len(s) : s[j] \in 0 .. 9
  BY DigitsType, LenProperties, ElementOfSeq
<1> HIDE DEF s
<1>2. (CHOOSE k \in 0 .. Len(s) :
          /\ \A j \in 1 .. k : s[j] \in 0 .. 9
          /\ k < Len(s) => s[k + 1] \notin 0 .. 9) = Len(s)
  <2>1. \A k \in 0 .. Len(s) : (k < Len(s) => s[k + 1] \notin 0 .. 9) => k = Len(s)
    BY <1>1
  <2> QED BY <1>1, <2>1
<1>3. SubSeq(s, 1, Len(s)) = s
  BY <1>1
<1>4. strtol(s) = Value(s)
  BY <1>2, <1>3 DEF strtol
<1> QED BY <1>4, ValueOfDigits DEF s
-----------------------------------------------------------------------------
(* The fields of a message, and what is read from them.                    *)

\* The characters there are.
Chars(C) == C \cup 0 .. 9 \cup {Sep}

\* A text without a separator.
Plain(s) == \A i \in 1 .. Len(s) : s[i] # Sep

\* Two fields with a separator between them.
Fielded(s, t) == s \o <<Sep>> \o t

\* Where the characters of two fields are.
LEMMA FieldedIs ==
    ASSUME NEW C, Sep \in C, NEW s \in Seq(C), NEW t \in Seq(C)
    PROVE  /\ Fielded(s, t) \in Seq(C)
           /\ Len(Fielded(s, t)) = Len(s) + 1 + Len(t)
           /\ \A i \in 1 .. Len(s) : Fielded(s, t)[i] = s[i]
           /\ Fielded(s, t)[Len(s) + 1] = Sep
           /\ \A i \in 1 .. Len(t) : Fielded(s, t)[Len(s) + 1 + i] = t[i]
           /\ Fielded(s, t) = s \o (<<Sep>> \o t)
<1> DEFINE one == <<Sep>>
<1>1. one \in Seq(C) /\ Len(one) = 1 /\ one[1] = Sep
  OBVIOUS
<1> HIDE DEF one
<1>2. Len(s) \in Nat /\ Len(t) \in Nat
  BY LenProperties
<1>3. /\ s \o one \in Seq(C) /\ Len(s \o one) = Len(s) + 1
      /\ \A i \in 1 .. Len(s) + 1 : (s \o one)[i] = IF i <= Len(s) THEN s[i] ELSE one[i - Len(s)]
  <2>1. /\ s \o one \in Seq(C) /\ Len(s \o one) = Len(s) + Len(one)
        /\ \A i \in 1 .. Len(s) + Len(one) :
              (s \o one)[i] = IF i <= Len(s) THEN s[i] ELSE one[i - Len(s)]
    BY <1>1, ConcatProperties
  <2> QED BY <1>1, <2>1
<1> DEFINE so == s \o one
<1>4. so \in Seq(C) /\ Len(so) = Len(s) + 1 /\ so[Len(s) + 1] = Sep /\ \A i \in 1 .. Len(s) : so[i] = s[i]
  BY <1>1, <1>2, <1>3
<1> HIDE DEF so
<1>5. /\ so \o t \in Seq(C) /\ Len(so \o t) = Len(so) + Len(t)
      /\ \A i \in 1 .. Len(so) + Len(t) : (so \o t)[i] = IF i <= Len(so) THEN so[i] ELSE t[i - Len(so)]
  BY <1>4, ConcatProperties
<1>6. (s \o one) \o t = s \o (one \o t)
  BY <1>1, ConcatAssociative
<1>7. Fielded(s, t) = so \o t
  BY DEF Fielded, so, one
<1>8. /\ \A i \in 1 .. Len(s) : (so \o t)[i] = s[i]
      /\ (so \o t)[Len(s) + 1] = Sep
      /\ \A i \in 1 .. Len(t) : (so \o t)[Len(s) + 1 + i] = t[i]
  BY <1>2, <1>4, <1>5
<1> QED BY <1>2, <1>4, <1>5, <1>6, <1>7, <1>8 DEF so, one

\* Fields may be joined in any order.
LEMMA FieldedAssociative ==
    ASSUME NEW C, Sep \in C, NEW s \in Seq(C), NEW t \in Seq(C), NEW u \in Seq(C)
    PROVE  Fielded(Fielded(s, t), u) = Fielded(s, Fielded(t, u))
<1> DEFINE one == <<Sep>>
<1>1. one \in Seq(C)
  OBVIOUS
<1>2. /\ Fielded(Fielded(s, t), u) = Fielded(s, t) \o (one \o u)
      /\ Fielded(s, t) \in Seq(C) /\ Fielded(s, t) = (s \o one) \o t
      /\ Fielded(t, u) = (t \o one) \o u
      /\ Fielded(s, Fielded(t, u)) = (s \o one) \o Fielded(t, u)
      /\ Fielded(t, u) = t \o (one \o u)
  <2>1. Fielded(s, t) \in Seq(C) /\ Fielded(t, u) = t \o (one \o u)
    BY FieldedIs
  <2>2. Fielded(Fielded(s, t), u) = Fielded(s, t) \o (one \o u)
    BY <2>1, FieldedIs
  <2> QED BY <2>1, <2>2 DEF Fielded
<1> HIDE DEF one
<1> DEFINE a == s \o one
           b == one \o u
<1>3. a \in Seq(C) /\ b \in Seq(C)
  BY <1>1, ConcatProperties
<1> HIDE DEF a, b
<1>4. (a \o t) \o b = a \o (t \o b)
  BY <1>3, ConcatAssociative
<1> QED BY <1>2, <1>4 DEF a, b

\* The first separator is where a text without one ends.
LEMMA FirstSep ==
    ASSUME NEW C, Sep \in C, NEW s \in Seq(C), NEW t \in Seq(C), Plain(s)
    PROVE  SelectInSeq(Fielded(s, t), LAMBDA ch : ch = Sep) = Len(s) + 1
<1> DEFINE w == Fielded(s, t)
           I == { i \in 1 .. Len(w) : w[i] = Sep }
<1>1. /\ Len(s) \in Nat /\ Len(t) \in Nat /\ Len(w) = Len(s) + 1 + Len(t)
      /\ w[Len(s) + 1] = Sep /\ \A i \in 1 .. Len(s) : w[i] # Sep
  BY FieldedIs, LenProperties, ZenonT(40) DEF Plain
<1> HIDE DEF w
<1>2. Len(s) + 1 \in I /\ \A i \in I : Len(s) + 1 <= i
  BY <1>1
<1>3. Min(I) = Len(s) + 1
  <2>1. \A i \in I : i \in Int
    OBVIOUS
  <2> HIDE DEF I
  <2> QED BY <1>1, <1>2, <2>1 DEF Min
<1>4. SelectInSeq(w, LAMBDA ch : ch = Sep) = IF I # {} THEN Min(I) ELSE 0
  BY DEF SelectInSeq
<1> QED BY <1>2, <1>3, <1>4 DEF w

\* A field without a separator, and what follows it, are found again.
LEMMA UntilAfter ==
    ASSUME NEW C, Sep \in C, NEW s \in Seq(C), NEW t \in Seq(C), Plain(s)
    PROVE  Until(Fielded(s, t)) = s /\ After(Fielded(s, t)) = t
<1> DEFINE w == Fielded(s, t)
           n == SelectInSeq(w, LAMBDA ch : ch = Sep)
<1>1. /\ Len(s) \in Nat /\ Len(t) \in Nat /\ w \in Seq(C) /\ Len(w) = Len(s) + 1 + Len(t)
      /\ \A i \in 1 .. Len(s) : w[i] = s[i]
      /\ \A i \in 1 .. Len(t) : w[Len(s) + 1 + i] = t[i]
      /\ \A i \in 1 .. Len(w) : w[i] \in C
  <2>1. /\ w \in Seq(C)
        /\ Len(w) = Len(s) + 1 + Len(t)
        /\ \A i \in 1 .. Len(s) : w[i] = s[i]
        /\ w[Len(s) + 1] = Sep
        /\ \A i \in 1 .. Len(t) : w[Len(s) + 1 + i] = t[i]
        /\ w = s \o (<<Sep>> \o t)
    BY FieldedIs, Zenon
  <2>2. \A i \in 1 .. Len(w) : w[i] \in C
    <3> HIDE DEF w
    <3> QED BY <2>1, ElementOfSeq
  <2>3. Len(s) \in Nat /\ Len(t) \in Nat
    BY LenProperties
  <2> HIDE DEF w
  <2> QED BY <2>1, <2>2, <2>3
<1>2. n = Len(s) + 1
  BY FirstSep
<1>3. Until(w) = SubSeq(w, 1, n - 1) /\ After(w) = SubSeq(w, n + 1, Len(w))
  BY DEF Until, After
<1> HIDE DEF w, n
<1>4. n - 1 = Len(s) /\ n + 1 = Len(s) + 2
  BY <1>1, <1>2
<1>5. SubSeq(w, 1, Len(s)) = s
  <2>1. /\ SubSeq(w, 1, Len(s)) \in Seq(C)
        /\ Len(SubSeq(w, 1, Len(s))) = IF 1 <= Len(s) THEN Len(s) - 1 + 1 ELSE 0
        /\ \A i \in 1 .. Len(s) - 1 + 1 : SubSeq(w, 1, Len(s))[i] = w[1 + i - 1]
    <3>1. \A i \in 1 .. Len(s) : w[i] \in C
      BY <1>1
    <3>2. 1 \in Int /\ Len(s) \in Int
      BY <1>1
    <3> QED BY <3>1, <3>2, SubSeqProperties
  <2>2. Len(SubSeq(w, 1, Len(s))) = Len(s)
    BY <1>1, <2>1
  <2>3. \A i \in 1 .. Len(s) : SubSeq(w, 1, Len(s))[i] = s[i]
    BY <1>1, <2>1
  <2> QED BY <2>1, <2>2, <2>3, SeqEqual
<1>6. SubSeq(w, Len(s) + 2, Len(w)) = t
  <2> DEFINE m == Len(s) + 2
             e == Len(w)
  <2>1. m \in Int /\ e \in Int /\ m \in Nat /\ m > 0 /\ e - m + 1 = Len(t)
    BY <1>1
  <2>2. \A i \in m .. e : w[i] \in C
    BY <1>1
  <2> HIDE DEF m, e
  <2>3. /\ SubSeq(w, m, e) \in Seq(C)
        /\ Len(SubSeq(w, m, e)) = IF m <= e THEN e - m + 1 ELSE 0
        /\ \A i \in 1 .. e - m + 1 : SubSeq(w, m, e)[i] = w[m + i - 1]
    BY <2>1, <2>2, SubSeqProperties
  <2>4. Len(SubSeq(w, m, e)) = Len(t)
    BY <1>1, <2>1, <2>3
  <2>5. \A i \in 1 .. Len(t) : SubSeq(w, m, e)[i] = t[i]
    <3> SUFFICES ASSUME NEW i \in 1 .. Len(t) PROVE SubSeq(w, m, e)[i] = t[i]
      OBVIOUS
    <3>1. m + i - 1 = Len(s) + 1 + i
      BY <1>1 DEF m
    <3> QED BY <1>1, <2>1, <2>3, <3>1
  <2> QED BY <2>3, <2>4, <2>5, SeqEqual DEF m, e
<1> QED BY <1>3, <1>4, <1>5, <1>6 DEF w

\* The digit that tells the type is in front of the fields.
LEMMA TypeInFront ==
    ASSUME NEW C, NEW d \in C, NEW s \in Seq(C)
    PROVE  /\ <<d>> \o s \in Seq(C) /\ Head(<<d>> \o s) = d /\ Tail(<<d>> \o s) = s
           /\ Plain(s) /\ d # Sep => Plain(<<d>> \o s)
<1> DEFINE one == <<d>>
           w == one \o s
<1>1. one \in Seq(C) /\ Len(one) = 1 /\ one[1] = d
  OBVIOUS
<1> HIDE DEF one
<1>2. /\ w \in Seq(C) /\ Len(w) = 1 + Len(s) /\ Len(s) \in Nat
      /\ \A i \in 1 .. 1 + Len(s) : w[i] = IF i <= 1 THEN one[i] ELSE s[i - 1]
  <2>1. /\ one \o s \in Seq(C) /\ Len(one \o s) = Len(one) + Len(s)
        /\ \A i \in 1 .. Len(one) + Len(s) : (one \o s)[i] = IF i <= Len(one) THEN one[i] ELSE s[i - Len(one)]
    BY <1>1, ConcatProperties
  <2> QED BY <1>1, <2>1, LenProperties
<1> HIDE DEF w
<1>3. w[1] = d /\ \A i \in 1 .. Len(s) : w[i + 1] = s[i]
  BY <1>1, <1>2
<1>4. w # <<>>
  BY <1>2
<1>5. Head(w) = d
  BY <1>3, <1>4 DEF Head
<1>6. Tail(w) = s
  <2>1. Tail(w) \in Seq(C) /\ Len(Tail(w)) = Len(w) - 1 /\ \A i \in 1 .. Len(Tail(w)) : Tail(w)[i] = w[i + 1]
    BY <1>2, <1>4, HeadTailProperties
  <2>2. Len(Tail(w)) = Len(s) /\ \A i \in 1 .. Len(Tail(w)) : Tail(w)[i] = s[i]
    BY <1>2, <1>3, <2>1
  <2> QED BY <2>1, <2>2, SeqEqual
<1>7. Plain(s) /\ d # Sep => Plain(w)
  <2> SUFFICES ASSUME Plain(s), d # Sep, NEW i \in 1 .. Len(w) PROVE w[i] # Sep
    BY DEF Plain
  <2>1. CASE i = 1
    BY <1>3, <2>1
  <2>2. CASE i # 1
    <3>1. i - 1 \in 1 .. Len(s) /\ w[i] = s[i - 1]
      BY <1>2, <2>2
    <3> QED BY <3>1 DEF Plain
  <2> QED BY <2>1, <2>2
<1> QED BY <1>2, <1>5, <1>6, <1>7 DEF w, one

\* The digit in front is a part of the first field.
LEMMA FrontField ==
    ASSUME NEW C, Sep \in C, NEW d \in C, NEW s \in Seq(C), NEW t \in Seq(C)
    PROVE  <<d>> \o Fielded(s, t) = Fielded(<<d>> \o s, t)
<1> DEFINE one == <<d>>
           r == <<Sep>> \o t
<1>1. one \in Seq(C) /\ one \o s \in Seq(C) /\ r \in Seq(C)
  BY TypeInFront
<1> HIDE DEF one
<1>2. Fielded(s, t) = s \o r /\ Fielded(one \o s, t) = (one \o s) \o r
  BY <1>1, FieldedIs, Zenon
<1> HIDE DEF r
<1>3. (one \o s) \o r = one \o (s \o r)
  BY <1>1, ConcatAssociative
<1> QED BY <1>2, <1>3 DEF one

\* Digits are characters, and no separators.
LEMMA DigitsPlain ==
    ASSUME NEW C, NEW n \in Nat
    PROVE  Digits[n] \in Seq(Chars(C)) /\ Plain(Digits[n])
<1>1. Digits[n] \in Seq(0 .. 9) /\ 0 .. 9 \subseteq Chars(C)
  BY DigitsType DEF Chars
<1>2. Digits[n] \in Seq(Chars(C))
  BY <1>1, SeqMonotonic
<1>3. \A i \in 1 .. Len(Digits[n]) : Digits[n][i] \in 0 .. 9
  BY <1>1, ElementOfSeq
<1> QED BY <1>2, <1>3, SepAssumption DEF Plain

\* The structs of a type that can be sent: a name has no separator in it.
Structs(type, C) ==
    CASE type = "PLAYER"  -> [name : { s \in Seq(C) : Plain(s) }, num : Nat, score : Nat, ready : Nat]
      [] type = "STRING"  -> Seq(C)
      [] type = "POINT"   -> [x : {-1, 0, 1}, y : {-1, 0, 1}]
      [] type = "BOARD"   -> UNION { [rows : {n}, columns : {n}, board : [0 .. n - 1 -> [0 .. n - 1 -> C]]] : n \in Nat \ {0} }
      [] type = "BOOLEAN" -> {0, 1}

\* The fields of a PLAYER are read as they were written.
LEMMA PlayerFieldsAre ==
    ASSUME NEW C, NEW p \in Structs("PLAYER", C)
    PROVE  PlayerFields(marshalling(p, "PLAYER")) =
               [nombre |-> p.name, num |-> Digits[p.num], num2 |-> Digits[p.score], num3 |-> Digits[p.ready]]
<1> DEFINE D == Chars(C)
           a == p.name
           b == Digits[p.num]
           c == Digits[p.score]
           d == Digits[p.ready]
<1>1. /\ a \in Seq(C) /\ Plain(a) /\ p.num \in Nat /\ p.score \in Nat /\ p.ready \in Nat
  BY DEF Structs
<1>2. /\ Sep \in D /\ 2 \in D /\ C \subseteq D
  BY DEF Chars
<1>3. a \in Seq(D)
  BY <1>1, <1>2, SeqMonotonic
<1>4. /\ b \in Seq(D) /\ c \in Seq(D) /\ d \in Seq(D) /\ Plain(b) /\ Plain(c)
  BY <1>1, DigitsPlain
<1>5. marshalling(p, "PLAYER") = <<2>> \o (a \o <<Sep>> \o b \o <<Sep>> \o c \o <<Sep>> \o d)
  BY DEF marshalling, marshPlayer
<1> HIDE DEF a, b, c, d, D
<1> DEFINE u == Fielded(c, d)
           v == Fielded(b, u)
           w == Fielded(a, v)
<1>6. /\ u \in Seq(D) /\ v \in Seq(D) /\ w \in Seq(D)
  BY <1>2, <1>3, <1>4, FieldedIs
<1>7. a \o <<Sep>> \o b \o <<Sep>> \o c \o <<Sep>> \o d = w
  <2> DEFINE ab == Fielded(a, b)
  <2>1. ab \in Seq(D)
    BY <1>2, <1>3, <1>4, FieldedIs
  <2>2. a \o <<Sep>> \o b \o <<Sep>> \o c \o <<Sep>> \o d = Fielded(Fielded(ab, c), d)
    BY DEF Fielded
  <2>3. ab = Fielded(a, b)
    OBVIOUS
  <2> HIDE DEF ab
  <2>4. Fielded(Fielded(ab, c), d) = Fielded(ab, u)
    BY <1>2, <1>4, <2>1, FieldedAssociative
  <2> HIDE DEF u
  <2>5. Fielded(Fielded(a, b), u) = Fielded(a, v)
    BY <1>2, <1>3, <1>4, <1>6, FieldedAssociative
  <2> QED BY <2>2, <2>3, <2>4, <2>5
<1>8. Tail(<<2>> \o w) = w
  BY <1>2, <1>6, TypeInFront
<1>9. /\ Until(w) = a /\ After(w) = v
  BY <1>1, <1>2, <1>3, <1>6, UntilAfter DEF a
<1>10. /\ Until(v) = b /\ After(v) = u
  BY <1>2, <1>4, <1>6, UntilAfter
<1>11. /\ Until(u) = c /\ After(u) = d
  BY <1>2, <1>4, UntilAfter
<1>12. marshalling(p, "PLAYER") = <<2>> \o w
  BY <1>5, <1>7
<1> HIDE DEF w, v, u
<1>13. PlayerFields(<<2>> \o w) = [nombre |-> a, num |-> b, num2 |-> c, num3 |-> d]
  BY <1>8, <1>9, <1>10, <1>11 DEF PlayerFields
<1> QED BY <1>12, <1>13 DEF a, b, c, d

\* As long as nothing is left behind the fields in the buffers, a PLAYER is read
\* as it was written.
LEMMA PlayerIsRead ==
    ASSUME NEW C, NEW p \in Structs("PLAYER", C)
    PROVE  unmarshPlayer(PlayerFields(marshalling(p, "PLAYER"))) = p
<1>1. p = [name |-> p.name, num |-> p.num, score |-> p.score, ready |-> p.ready]
      /\ p.num \in Nat /\ p.score \in Nat /\ p.ready \in Nat
  BY DEF Structs
<1>2. strtol(Digits[p.num]) = p.num /\ strtol(Digits[p.score]) = p.score /\ strtol(Digits[p.ready]) = p.ready
  BY <1>1, StrtolOfDigits
<1> QED BY <1>1, <1>2, PlayerFieldsAre DEF unmarshPlayer

\* Nothing remains of what was in a buffer and was no longer than the field.
LEMMA OverAll ==
    ASSUME NEW C, NEW s \in Seq(C), NEW D, NEW old \in Seq(D), Len(old) <= Len(s)
    PROVE  Over(s, old) = s
<1>1. Len(s) \in Nat /\ Len(old) \in Nat
  BY LenProperties
<1>2. SubSeq(old, Len(s) + 1, Len(old)) = <<>>
  <2> DEFINE m == Len(s) + 1
             n == Len(old)
  <2>1. m \in Int /\ n \in Int /\ n < m
    BY <1>1
  <2> HIDE DEF m, n
  <2>2. SubSeq(old, m, n) = <<>>
    BY <2>1, SubSeqEmpty
  <2> QED BY <2>2 DEF m, n
<1>3. s \o <<>> = s
  BY ConcatEmptySeq
<1> QED BY <1>2, <1>3 DEF Over

\* Otherwise it holds as much as before.
LEMMA OverLength ==
    ASSUME NEW C, NEW s \in Seq(C), NEW old \in Seq(C)
    PROVE  /\ Over(s, old) \in Seq(C)
           /\ Len(Over(s, old)) = IF Len(old) <= Len(s) THEN Len(s) ELSE Len(old)
<1>1. Len(s) \in Nat /\ Len(old) \in Nat
  BY LenProperties
<1>2. CASE Len(old) <= Len(s)
  BY <1>2, OverAll
<1>3. CASE Len(s) < Len(old)
  <2> DEFINE m == Len(s) + 1
             n == Len(old)
             rest == SubSeq(old, m, n)
  <2>1. m \in Int /\ n \in Int /\ m <= n /\ n - m + 1 = Len(old) - Len(s)
    BY <1>1, <1>3
  <2>2. \A i \in m .. n : old[i] \in C
    <3>1. \A i \in m .. n : i \in 1 .. Len(old)
      BY <1>1
    <3> QED BY <3>1, ElementOfSeq
  <2> HIDE DEF m, n
  <2>3. rest \in Seq(C) /\ Len(rest) = n - m + 1
    BY <2>1, <2>2, SubSeqProperties
  <2> HIDE DEF rest
  <2>4. s \o rest \in Seq(C) /\ Len(s \o rest) = Len(s) + Len(rest)
    BY <2>3, ConcatProperties
  <2>5. Over(s, old) = s \o rest
    BY DEF Over, rest, m, n
  <2>6. ~ (Len(old) <= Len(s)) /\ Len(Over(s, old)) = Len(old)
    BY <1>1, <1>3, <2>1, <2>3, <2>4, <2>5
  <2> QED BY <2>4, <2>5, <2>6
<1> QED BY <1>1, <1>2, <1>3

\* The cells of a board are found where they were put.
LEMMA CellsAre ==
    ASSUME NEW n \in Nat \ {0}, NEW k \in 0 .. n - 1, NEW j \in 0 .. n - 1
    PROVE  k * n + j + 1 \in 1 .. n * n /\ (k * n + j) \div n = k /\ (k * n + j) % n = j
<1>1. (k * n + j) \div n = k /\ (k * n + j) % n = j
  OBVIOUS
<1>2. k * n + j \in Nat
  OBVIOUS
<1>3. k * n <= (n - 1) * n
  OBVIOUS
<1>4. (n - 1) * n = n * n - n
  OBVIOUS
<1>5. k * n \in Nat /\ n * n \in Nat /\ (n - 1) * n \in Nat
  OBVIOUS
<1> QED BY <1>1, <1>2, <1>3, <1>4, <1>5

\* A board is read as it was written.
LEMMA BoardIsRead ==
    ASSUME NEW C, NEW b \in Structs("BOARD", C)
    PROVE  unmarshalling(marshalling(b, "BOARD")) = b
<1> DEFINE D == Chars(C)
<1>1. PICK n \in Nat \ {0} : /\ b.rows = n /\ b.columns = n /\ b.board \in [0 .. n - 1 -> [0 .. n - 1 -> C]]
                             /\ b = [rows |-> n, columns |-> n, board |-> b.board]
  BY DEF Structs
<1> DEFINE g == b.board
           cells == [i \in 1 .. n * n |-> g[(i - 1) \div n][(i - 1) % n]]
           d == Digits[n]
           front == <<5>> \o d
           back == Fielded(d, cells)
           data == <<5>> \o (d \o <<Sep>> \o d \o <<Sep>> \o cells)
<1>2. Sep \in D /\ 5 \in D /\ 5 # Sep /\ C \subseteq D
  BY SepAssumption DEF Chars
<1>3. cells \in Seq(D)
  <2>1. n * n \in Nat
    OBVIOUS
  <2>2. \A i \in 1 .. n * n : (i - 1) \div n \in 0 .. n - 1 /\ (i - 1) % n \in 0 .. n - 1
    <3> SUFFICES ASSUME NEW i \in 1 .. n * n
                 PROVE  (i - 1) \div n \in 0 .. n - 1 /\ (i - 1) % n \in 0 .. n - 1
      OBVIOUS
    <3> DEFINE q == (i - 1) \div n
    <3>1. q \in Nat /\ (i - 1) % n \in 0 .. n - 1 /\ i - 1 = n * q + ((i - 1) % n)
      OBVIOUS
    <3>2. i - 1 < n * n
      OBVIOUS
    <3> HIDE DEF q
    <3>3. n * q < n * n
      BY <3>1, <3>2
    <3>4. q < n
      BY <3>1, <3>3
    <3> QED BY <3>1, <3>4 DEF q
  <2>3. \A i \in 1 .. n * n : cells[i] \in D
    BY <1>1, <1>2, <2>2
  <2> QED BY <2>1, <2>3
<1>4. d \in Seq(D) /\ Plain(d) /\ strtol(d) = n
  BY DigitsPlain, StrtolOfDigits
<1>5. marshalling(b, "BOARD") = data
  BY <1>1 DEF marshalling, marshBoard
<1>6. ASSUME NEW k \in 0 .. n - 1, NEW j \in 0 .. n - 1 PROVE cells[k * n + j + 1] = g[k][j]
  <2>1. /\ k * n + j + 1 \in 1 .. n * n /\ (k * n + j + 1) - 1 = k * n + j
        /\ (k * n + j) \div n = k /\ (k * n + j) % n = j
    BY CellsAre
  <2> QED BY <2>1
<1>7. g = [k \in 0 .. n - 1 |-> [j \in 0 .. n - 1 |-> g[k][j]]]
  BY <1>1
<1> HIDE DEF cells, d
<1>8. back \in Seq(D) /\ front \in Seq(D) /\ Plain(front)
  BY <1>2, <1>3, <1>4, FieldedIs, TypeInFront
<1> DEFINE tail == d \o <<Sep>> \o d \o <<Sep>> \o cells
<1>9. tail = Fielded(d, back) /\ tail \in Seq(D)
  <2>1. tail = Fielded(Fielded(d, d), cells)
    BY DEF Fielded
  <2>2. Fielded(Fielded(d, d), cells) = Fielded(d, Fielded(d, cells))
    BY <1>2, <1>3, <1>4, FieldedAssociative
  <2>3. Fielded(d, back) \in Seq(D)
    BY <1>2, <1>4, <1>8, FieldedIs
  <2> QED BY <2>1, <2>2, <2>3
<1>10. data = Fielded(front, back)
  <2>1. data = <<5>> \o tail
    OBVIOUS
  <2> HIDE DEF D, back, data, tail
  <2>2. <<5>> \o Fielded(d, back) = Fielded(<<5>> \o d, back)
    BY <1>2, <1>4, <1>8, FrontField
  <2> QED BY <1>9, <2>1, <2>2
<1>11. Head(data) = 5 /\ Tail(data) = tail
  BY <1>2, <1>9, TypeInFront
<1>12. Until(Tail(data)) = d
  BY <1>2, <1>4, <1>8, <1>9, <1>11, UntilAfter
<1>13. After(data) = back
  BY <1>2, <1>8, <1>10, UntilAfter
<1>14. Until(After(data)) = d /\ After(After(data)) = cells
  BY <1>2, <1>3, <1>4, <1>13, UntilAfter
<1> HIDE DEF data
<1>15. unmarshBoard(data) = [rows |-> n, columns |-> n, board |-> g]
  <2>1. unmarshBoard(data) = [rows |-> n, columns |-> n,
            board |-> [k \in 0 .. n - 1 |-> [j \in 0 .. n - 1 |-> cells[k * n + j + 1]]]]
    BY <1>4, <1>12, <1>14 DEF unmarshBoard
  <2>2. [k \in 0 .. n - 1 |-> [j \in 0 .. n - 1 |-> cells[k * n + j + 1]]]
            = [k \in 0 .. n - 1 |-> [j \in 0 .. n - 1 |-> g[k][j]]]
    BY <1>6
  <2> QED BY <1>7, <2>1, <2>2
<1>16. unmarshalling(data) = unmarshBoard(data)
  BY <1>11 DEF unmarshalling
<1> QED BY <1>1, <1>5, <1>15, <1>16

\* A text is read as it was written.
LEMMA StringIsRead ==
    ASSUME NEW C, NEW s \in Structs("STRING", C)
    PROVE  unmarshalling(marshalling(s, "STRING")) = s
<1> DEFINE D == Chars(C)
           d == Digits[Len(s)]
           front == <<3>> \o d
           data == <<3>> \o Fielded(d, s)
<1>1. Sep \in D /\ 3 \in D /\ 3 # Sep /\ C \subseteq D
  BY SepAssumption DEF Chars
<1>2. s \in Seq(D) /\ d \in Seq(D) /\ Plain(d)
  <2>1. s \in Seq(C)
    BY DEF Structs
  <2> QED BY <1>1, <2>1, SeqMonotonic, LenProperties, DigitsPlain
<1>3. marshalling(s, "STRING") = data
  BY DEF marshalling, marshString, Fielded
<1> HIDE DEF d, D
<1>4. Fielded(d, s) \in Seq(D) /\ front \in Seq(D) /\ Plain(front)
  BY <1>1, <1>2, FieldedIs, TypeInFront
<1>5. Head(data) = 3
  BY <1>1, <1>4, TypeInFront
<1>6. data = Fielded(front, s)
  BY <1>1, <1>2, FrontField
<1> HIDE DEF data, front
<1>7. After(data) = s
  BY <1>1, <1>2, <1>4, <1>6, UntilAfter
<1> QED BY <1>3, <1>5, <1>7 DEF unmarshalling, unmarshString

\* A direction is read as it was written.
LEMMA PointIsRead ==
    ASSUME NEW p \in Structs("POINT", {})
    PROVE  unmarshalling(marshalling(p, "POINT")) = p
<1> DEFINE D == Chars({})
           a == Digits[p.x + 48]
           b == Digits[p.y + 48]
           front == <<1>> \o a
           data == <<1>> \o Fielded(a, b)
<1>1. Sep \in D /\ 1 \in D /\ 1 # Sep
  BY SepAssumption DEF Chars
<1>2. p.x + 48 \in Nat /\ p.y + 48 \in Nat /\ p.x \in Int /\ p.y \in Int /\ p = [x |-> p.x, y |-> p.y]
  BY DEF Structs
<1>3. a \in Seq(D) /\ Plain(a) /\ b \in Seq(D) /\ strtol(a) = p.x + 48 /\ strtol(b) = p.y + 48
  BY <1>2, DigitsPlain, StrtolOfDigits
<1>4. marshalling(p, "POINT") = data
  BY DEF marshalling, marshPoint, Fielded
<1> HIDE DEF a, b, D
<1>5. Fielded(a, b) \in Seq(D) /\ front \in Seq(D) /\ Plain(front)
  BY <1>1, <1>3, FieldedIs, TypeInFront
<1>6. Head(data) = 1 /\ Tail(data) = Fielded(a, b)
  BY <1>1, <1>5, TypeInFront
<1>7. data = Fielded(front, b)
  BY <1>1, <1>3, FrontField
<1> HIDE DEF data, front
<1>8. After(data) = b
  BY <1>1, <1>3, <1>5, <1>7, UntilAfter
<1>9. Until(Tail(data)) = a
  BY <1>1, <1>3, <1>6, UntilAfter
<1>10. (p.x + 48) - 48 = p.x /\ (p.y + 48) - 48 = p.y
  BY <1>2
<1>11. unmarshPoint(data) = p
  BY <1>2, <1>3, <1>8, <1>9, <1>10 DEF unmarshPoint
<1> QED BY <1>4, <1>6, <1>11 DEF unmarshalling

\* A truth value is read as it was written.
LEMMA BooleanIsRead ==
    ASSUME NEW v \in {0, 1}
    PROVE  unmarshalling(marshalling(v, "BOOLEAN")) = v
<1>1. Digits[v] = <<v>>
  BY DigitsDefined
<1>2. marshalling(v, "BOOLEAN") = <<4>> \o <<v>>
  BY <1>1 DEF marshalling, marshBoolean
<1> DEFINE type == <<4>>
           value == <<v>>
<1>3. type \in Seq(0 .. 9) /\ value \in Seq(0 .. 9) /\ Len(type) = 1 /\ Len(value) = 1 /\ value[1] = v
  OBVIOUS
<1>4. Head(type \o value) = 4
  BY <1>3, TypeInFront
<1> HIDE DEF type, value
<1>5. (type \o value)[2] = IF 2 <= Len(type) THEN type[2] ELSE value[2 - Len(type)]
  BY <1>3, ConcatProperties
<1>6. (type \o value)[2] = v
  BY <1>3, <1>5
<1>7. marshalling(v, "BOOLEAN") = type \o value
  BY <1>2 DEF type, value
<1> DEFINE data == type \o value
<1> HIDE DEF data
<1>8. Head(data) = 4 /\ data[2] = v
  BY <1>4, <1>6 DEF data
<1>9. unmarshalling(data) = v
  BY <1>8 DEF unmarshalling, unmarshBoolean
<1> QED BY <1>7, <1>9 DEF data

\* A struct of any type that is sent and read into blank buffers is the same again
\* (marshalling.c), as long as no name has a separator in it and boards are square.
THEOREM ReadBack ==
    ASSUME NEW C
    PROVE  /\ \A s \in Structs("PLAYER", C) : unmarshalling(marshalling(s, "PLAYER")) = s
           /\ \A s \in Structs("STRING", C) : unmarshalling(marshalling(s, "STRING")) = s
           /\ \A s \in Structs("POINT", C) : unmarshalling(marshalling(s, "POINT")) = s
           /\ \A s \in Structs("BOARD", C) : unmarshalling(marshalling(s, "BOARD")) = s
           /\ \A s \in Structs("BOOLEAN", C) : unmarshalling(marshalling(s, "BOOLEAN")) = s
<1>1. ASSUME NEW p \in Structs("PLAYER", C) PROVE unmarshalling(marshalling(p, "PLAYER")) = p
  <2> DEFINE data == marshalling(p, "PLAYER")
             f == PlayerFields(data)
  <2>1. Head(data) = 2
    <3> DEFINE m == marshPlayer(p)
    <3>1. data = <<2>> \o m
      BY DEF marshalling
    <3>2. m = Fielded(Fielded(Fielded(p.name, Digits[p.num]), Digits[p.score]), Digits[p.ready])
      BY DEF marshPlayer, Fielded
    <3>3. m \in Seq(Chars(C))
      <4> DEFINE D == Chars(C)
                 a == p.name
                 b == Digits[p.num]
                 c == Digits[p.score]
                 d == Digits[p.ready]
      <4>1. a \in Seq(C) /\ C \subseteq D /\ Sep \in D /\ p.num \in Nat /\ p.score \in Nat /\ p.ready \in Nat
        BY DEF Structs, Chars
      <4>2. a \in Seq(D) /\ b \in Seq(D) /\ c \in Seq(D) /\ d \in Seq(D)
        BY <4>1, SeqMonotonic, DigitsPlain
      <4> HIDE DEF D, a, b, c, d
      <4>3. Fielded(a, b) \in Seq(D)
        BY <4>1, <4>2, FieldedIs
      <4>4. Fielded(Fielded(a, b), c) \in Seq(D)
        BY <4>1, <4>2, <4>3, FieldedIs
      <4>5. Fielded(Fielded(Fielded(a, b), c), d) \in Seq(D)
        BY <4>1, <4>2, <4>4, FieldedIs
      <4> QED BY <3>2, <4>5 DEF D, a, b, c, d
    <3> HIDE DEF m
    <3>4. 2 \in Chars(C)
      BY DEF Chars
    <3> QED BY <3>1, <3>3, <3>4, TypeInFront
  <2>2. PlayerBuffers(f, Blank) = f
    <3>1. f = [nombre |-> p.name, num |-> Digits[p.num], num2 |-> Digits[p.score], num3 |-> Digits[p.ready]]
      BY PlayerFieldsAre
    <3>2. p.name \in Seq(Chars(C)) /\ p.num \in Nat /\ p.score \in Nat /\ p.ready \in Nat
      BY SeqMonotonic DEF Structs, Chars
    <3> HIDE DEF f
    <3>3. \A k \in DOMAIN f : f[k] \in Seq(Chars(C))
      BY <3>1, <3>2, DigitsPlain
    <3>4. \A k \in DOMAIN f : Blank[k] = <<>>
      BY <3>1 DEF Blank
    <3>5. \A k \in DOMAIN f : Over(f[k], Blank[k]) = f[k]
      <4> SUFFICES ASSUME NEW k \in DOMAIN f PROVE Over(f[k], Blank[k]) = f[k]
        OBVIOUS
      <4>1. f[k] \in Seq(Chars(C)) /\ <<>> \in Seq(Chars(C)) /\ Len(<<>>) <= Len(f[k])
        BY <3>3, LenProperties, EmptySeq
      <4>2. Over(f[k], <<>>) = f[k]
        BY <4>1, OverAll
      <4> QED BY <3>4, <4>2
    <3>6. f = [k \in DOMAIN f |-> f[k]]
      BY <3>1
    <3> QED BY <3>5, <3>6 DEF PlayerBuffers
  <2>3. unmarshPlayer(f) = p
    BY PlayerIsRead
  <2> HIDE DEF data, f
  <2>4. unmarshalling(data) = unmarshPlayer(PlayerBuffers(f, Blank))
    BY <2>1 DEF unmarshalling, f
  <2> QED BY <2>2, <2>3, <2>4 DEF data
<1>2. \A s \in Structs("POINT", C) : s \in Structs("POINT", {})
  BY DEF Structs
<1>3. \A s \in Structs("BOOLEAN", C) : s \in {0, 1}
  BY DEF Structs
<1> QED BY <1>1, <1>2, <1>3, StringIsRead, PointIsRead, BoardIsRead, BooleanIsRead
-----------------------------------------------------------------------------
(* A child server and its clients over these streams.                      *)

\* The values of the server and its clients.
LinkTypes ==
    /\ seated \subseteq Slots
    /\ stage \in {"game", "over", "exited", "failed"}
    /\ tick \in Nat
    /\ todo \in Seq([to : Slots, msg : Messages])
    /\ leaver \in Slots \cup {Nobody}
    /\ notices \subseteq Slots /\ (notices # {} => leaver \in Slots)
    /\ foreign \in BOOLEAN /\ burst \in BOOLEAN
    /\ phase \in [Slots -> {"lobby", "playing", "won", "lost", "quit", "gone", "dead"}]

LinkInv == IInv /\ LinkTypes

\* Only a read of several messages leaves something in the buffer of the server.
SourceInv == (burst \/ readBuffer[Server] = <<>>) /\ RequestIsOwn

\* A read of the server is never too small for a message of a client.
UpInv == \A k \in Slots : \A i \in 1 .. Len(sent[Up(k)]) :
    End(Up(k), i) <= End(Up(k), i - 1) + BufferSize

\* The lobby's messages to a client: the last one starts the game.
Openers == Len(Announced) + 1

\* A BOOLEAN after that is a result, which is sent when the game is over.
DownInv == \A k \in Slots :
    /\ Len(sent[Down(k)]) >= Openers
    /\ \A i \in 1 .. Len(sent[Down(k)]) :
          /\ i < Openers => sent[Down(k)][i].msg.type = "PLAYER"
          /\ i = Openers => sent[Down(k)][i].msg.type = "BOOLEAN"
          /\ i > Openers /\ sent[Down(k)][i].msg.type = "BOOLEAN" => stage # "game"
TodoInv == stage = "game" => \A i \in 1 .. Len(todo) : todo[i].msg.type # "BOOLEAN"

\* How far a client is that has kept pace tells what it has been sent.
PhaseOf(k) == Keeping(k) =>
    /\ phase[k] = "lobby" => taken[Down(k)] < Openers
    /\ phase[k] = "playing" => taken[Down(k)] >= Openers
    /\ phase[k] \in {"won", "lost"} => stage # "game"
    /\ phase[k] = "dead" => transport = "socket" /\ ~Alive
PhaseInv == \A k \in Slots : PhaseOf(k)

EndInv == DownInv /\ TodoInv /\ PhaseInv
-----------------------------------------------------------------------------
\* Each slot has a stream to its client and one to the server, and there are no others.
LEMMA Links ==
    /\ Messages = LinkMessages /\ Server \in Readers
    /\ \A k \in Slots : /\ Down(k) \in Conns /\ Up(k) \in Conns
                        /\ ReaderOf[Down(k)] = Client(k) /\ ReaderOf[Up(k)] = Server
                        /\ Client(k) \in Readers /\ Client(k) # Server
    /\ \A j, k \in Slots : /\ Down(j) # Up(k)
                           /\ Down(j) = Down(k) => j = k
                           /\ Up(j) = Up(k) => j = k
                           /\ Client(j) = Client(k) => j = k
    /\ \A c \in Conns : \E k \in Slots : c = Down(k) \/ c = Up(k)
BY LinkAssumption DEF Down, Up, Client, Server

\* The loops over clients[] count from 0 to the last slot.
LEMMA SlotNumbers ==
    /\ Cardinality(Slots) \in Nat /\ Slots \subseteq Nat
    /\ \A n \in 1 .. Cardinality(Slots) : n - 1 \in Slots
<1>1. Cardinality(Slots) \in Nat /\ Slots = 0 .. Cardinality(Slots) - 1
  BY FS_CardinalityType, LinkAssumption
<1> QED BY <1>1

\* What is written is a message of the link, and its type says which.
LEMMA MessageFacts ==
    /\ \A t, v : Message(t, v).type = t
    /\ \A i \in 1 .. Len(Announced) : Message("PLAYER", i) \in Messages
    /\ \A b \in {0, 1} : Message("BOOLEAN", b) \in Messages
    /\ \A t \in 1 .. Len(Boards) : Message("BOARD", t) \in Messages
    /\ \A k \in Slots : Message("STRING", k) \in Messages
    /\ Message("POINT", 0) \in Messages /\ Bye \in Messages
BY LinkAssumption DEF LinkMessages, Message, Bye
-----------------------------------------------------------------------------
(* The streams that the lobby leaves: the numbers that Ends defines exist  *)
(* up to the greatest one, which is the last.                              *)

\* The ends of the first n messages.
Sums(messages, n, f) ==
    f = [j \in 0 .. n |-> IF j = 0 THEN 0 ELSE f[j - 1] + Size[messages[j]]]

\* There are numbers as the definition of Ends asks for.
LEMMA EndsDefined ==
    ASSUME NEW messages \in Seq(Messages)
    PROVE  Sums(messages, Len(messages), Ends(messages))
<1> DEFINE N == Len(messages)
           I == { n \in 0 .. N : \E f : Sums(messages, n, f) }
<1>1. N \in Nat
  BY LenProperties
<1>2. I \in SUBSET (0 .. N) /\ 0 \in I
  <2>1. Sums(messages, 0, [j \in 0 .. 0 |-> 0])
    BY DEF Sums
  <2> QED BY <1>1, <2>1
<1>3. PICK n \in I : \A j \in I : j <= n
  <2> HIDE DEF N, I
  <2> QED BY <1>1, <1>2, Greatest
<1>4. n = N
  <2> SUFFICES ASSUME n # N PROVE FALSE
    OBVIOUS
  <2>1. PICK f : Sums(messages, n, f)
    BY <1>3
  <2> DEFINE g == [j \in 0 .. n + 1 |-> IF j = n + 1 THEN f[n] + Size[messages[n + 1]] ELSE f[j]]
  <2>2. n \in Nat /\ n + 1 \in 0 .. N
    BY <1>1
  <2>3. \A j \in 0 .. n + 1 : g[j] = IF j = 0 THEN 0 ELSE g[j - 1] + Size[messages[j]]
    <3> SUFFICES ASSUME NEW j \in 0 .. n + 1
                 PROVE  g[j] = IF j = 0 THEN 0 ELSE g[j - 1] + Size[messages[j]]
      OBVIOUS
    <3>1. CASE j = n + 1
      BY <2>2, <3>1
    <3>2. CASE j # n + 1
      <4>1. j \in 0 .. n /\ g[j] = f[j] /\ (j # 0 => j - 1 \in 0 .. n /\ g[j - 1] = f[j - 1])
        BY <2>2, <3>2
      <4>2. f[j] = IF j = 0 THEN 0 ELSE f[j - 1] + Size[messages[j]]
        BY <2>1, <4>1 DEF Sums
      <4> QED BY <4>1, <4>2
    <3> QED BY <3>1, <3>2
  <2>4. g = [j \in 0 .. n + 1 |-> IF j = 0 THEN 0 ELSE g[j - 1] + Size[messages[j]]]
    BY <2>3
  <2>5. n + 1 \in I
    BY <2>2, <2>4 DEF Sums
  <2> QED BY <1>3, <2>2, <2>5
<1>5. \E f : Sums(messages, N, f)
  BY <1>3, <1>4
<1> QED BY <1>5 DEF Sums, Ends

\* Each message of such a stream ends behind the one before it.
LEMMA EndsGrow ==
    ASSUME NEW messages \in Seq(Messages)
    PROVE  /\ \A j \in 0 .. Len(messages) : Ends(messages)[j] \in Nat
           /\ \A j \in 0 .. Len(messages) : \A i \in 0 .. j - 1 : Ends(messages)[i] < Ends(messages)[j]
           /\ Ends(messages)[0] = 0
<1> DEFINE N == Len(messages)
           e == Ends(messages)
           I == { n \in 0 .. N : \A j \in 0 .. n : e[j] \in Nat /\ \A i \in 0 .. j - 1 : e[i] < e[j] }
<1>1. N \in Nat /\ \A n \in 1 .. N : messages[n] \in Messages
  BY LenProperties, ElementOfSeq
<1>2. e[0] = 0 /\ \A n \in 1 .. N : e[n] = e[n - 1] + Size[messages[n]]
  <2>1. e = [j \in 0 .. N |-> IF j = 0 THEN 0 ELSE e[j - 1] + Size[messages[j]]]
    BY EndsDefined DEF Sums
  <2> HIDE DEF e
  <2>2. \A j \in 0 .. N : e[j] = IF j = 0 THEN 0 ELSE e[j - 1] + Size[messages[j]]
    BY <2>1
  <2> QED BY <1>1, <2>2
<1> HIDE DEF e
<1>3. I \in SUBSET (0 .. N) /\ 0 \in I
  BY <1>1, <1>2
<1>4. PICK n \in I : \A j \in I : j <= n
  <2> HIDE DEF N, I
  <2> QED BY <1>1, <1>3, Greatest
<1>5. n = N
  <2> SUFFICES ASSUME n # N PROVE FALSE
    OBVIOUS
  <2>1. n \in Nat /\ n + 1 \in 1 .. N /\ n + 1 - 1 = n /\ e[n] \in Nat
    BY <1>1, <1>4
  <2>2. Size[messages[n + 1]] \in Nat \ {0} /\ e[n + 1] = e[n] + Size[messages[n + 1]]
    BY <1>1, <1>2, <2>1, SizesAssumption
  <2>3. e[n + 1] \in Nat /\ e[n] < e[n + 1]
    BY <2>1, <2>2
  <2>4. ASSUME NEW i \in 0 .. n PROVE e[i] < e[n + 1]
    <3>1. e[i] \in Nat /\ (i # n => e[i] < e[n])
      BY <1>4, <2>1
    <3> QED BY <2>1, <2>3, <3>1
  <2>5. n + 1 \in I
    <3> SUFFICES ASSUME NEW j \in 0 .. n + 1
                 PROVE  e[j] \in Nat /\ \A i \in 0 .. j - 1 : e[i] < e[j]
      BY <1>1, <2>1
    <3>1. CASE j = n + 1
      BY <2>1, <2>3, <2>4, <3>1
    <3>2. CASE j # n + 1
      BY <1>4, <2>1, <3>2
    <3> QED BY <3>1, <3>2
  <2> QED BY <1>4, <2>1, <2>5
<1>6. \A j \in 0 .. N : e[j] \in Nat /\ \A i \in 0 .. j - 1 : e[i] < e[j]
  BY <1>4, <1>5
<1> QED BY <1>2, <1>6 DEF e

\* What the lobby leaves to a client.
LEMMA OpeningFacts ==
    /\ Opening \in Seq(Messages) /\ Len(Opening) = Openers /\ Openers \in Nat \ {0}
    /\ \A i \in 1 .. Len(Announced) : Opening[i].type = "PLAYER" /\ Opening[i] = Message("PLAYER", i)
    /\ Opening[Openers].type = "BOOLEAN"
<1> DEFINE P == [i \in DOMAIN Announced |-> Message("PLAYER", i)]
           B == << Message("BOOLEAN", 1) >>
<1>1. Len(Announced) \in Nat /\ DOMAIN Announced = 1 .. Len(Announced)
  BY LinkAssumption
<1>2. /\ P \in Seq(Messages) /\ Len(P) = Len(Announced)
      /\ \A i \in 1 .. Len(Announced) : P[i].type = "PLAYER" /\ P[i] = Message("PLAYER", i)
  BY <1>1, MessageFacts
<1>3. B \in Seq(Messages) /\ Len(B) = 1 /\ B[1].type = "BOOLEAN"
  BY MessageFacts
<1>4. Opening = P \o B
  BY DEF Opening
<1> HIDE DEF P, B
<1>5. /\ P \o B \in Seq(Messages) /\ Len(P \o B) = Len(P) + Len(B)
      /\ \A i \in 1 .. Len(P) + Len(B) : (P \o B)[i] = IF i <= Len(P) THEN P[i] ELSE B[i - Len(P)]
  BY <1>2, <1>3, ConcatProperties
<1> QED BY <1>1, <1>2, <1>3, <1>4, <1>5 DEF Openers
-----------------------------------------------------------------------------
\* What the lobby leaves is as any writes would leave it.
LEMMA LinkInitInv == LinkInit => LinkInv
<1> SUFFICES ASSUME LinkInit PROVE LinkInv
  OBVIOUS
<1> DEFINE N == Len(Opening)
           e == Ends(Opening)
           S == [msg : Messages, end : Nat]
<1>1. /\ N \in Nat /\ DOMAIN Opening = 1 .. N /\ \A n \in 1 .. N : Opening[n] \in Messages
      /\ \A j \in 0 .. N : e[j] \in Nat
      /\ \A j \in 0 .. N : \A i \in 0 .. j - 1 : e[i] < e[j]
      /\ e[0] = 0
  BY OpeningFacts, EndsGrow, LenProperties, ElementOfSeq
<1>2. Stream(Opening) = [n \in 1 .. N |-> [msg |-> Opening[n], end |-> e[n]]]
  BY <1>1 DEF Stream
<1> HIDE DEF N, e
<1>3. /\ Stream(Opening) \in Seq(S) /\ Len(Stream(Opening)) = N
      /\ \A n \in 1 .. N : Stream(Opening)[n].end = e[n]
  <2>1. \A n \in 1 .. N : [msg |-> Opening[n], end |-> e[n]] \in S
    BY <1>1
  <2> QED BY <1>1, <1>2, <2>1
<1>4. \A c \in Conns : sent[c] = <<>> \/ sent[c] = Stream(Opening)
  BY DEF LinkInit
<1>5. TypeOK
  <2>1. sent \in [Conns -> Seq(S)]
    <3>1. \A c \in Conns : sent[c] \in Seq(S)
      BY <1>3, <1>4, EmptySeq
    <3> QED BY <3>1 DEF LinkInit
  <2>2. readBuffer \in [Readers -> Seq(Piece)]
    BY EmptySeq DEF LinkInit
  <2> QED BY <2>1, <2>2 DEF TypeOK, LinkInit
<1>6. \A c \in Conns : \A j \in 0 .. Len(sent[c]) :
         End(c, j) \in Nat /\ \A i \in 0 .. j - 1 : End(c, i) < End(c, j)
  <2> SUFFICES ASSUME NEW c \in Conns, NEW j \in 0 .. Len(sent[c])
               PROVE  End(c, j) \in Nat /\ \A i \in 0 .. j - 1 : End(c, i) < End(c, j)
    OBVIOUS
  <2>1. CASE sent[c] = <<>>
    BY <2>1 DEF End
  <2>2. CASE sent[c] = Stream(Opening)
    <3>1. j \in 0 .. N /\ \A i \in 0 .. j : End(c, i) = e[i]
      BY <1>1, <1>3, <2>2 DEF End
    <3> QED BY <1>1, <3>1
  <2> QED BY <1>4, <2>1, <2>2
<1>7. \A c \in Conns : Len(sent[c]) \in Nat /\ got[c] = 0 /\ taken[c] = 0 /\ Rest(c) = <<>> /\ Len(Rest(c)) = 0
  BY <1>5, StreamsAssumption, LenProperties DEF LinkInit, Rest, TypeOK
<1>8. Ordered
  <2>1. \A c \in Conns : \A i, j \in 0 .. Len(sent[c]) : i < j => End(c, i) < End(c, j)
    BY <1>6, <1>7
  <2>2. \A c \in Conns : got[c] <= Written(c)
    <3> SUFFICES ASSUME NEW c \in Conns PROVE got[c] <= Written(c)
      OBVIOUS
    <3>1. Len(sent[c]) \in 0 .. Len(sent[c]) /\ got[c] = 0
      BY <1>7
    <3> QED BY <1>6, <3>1 DEF Written
  <2> QED BY <2>1, <2>2 DEF Ordered
<1>9. OneSource
  BY DEF LinkInit, OneSource
<1>10. Counted /\ WholeUnlessBehind
  BY <1>7 DEF Counted, WholeUnlessBehind, End
<1>11. LinkTypes
  BY EmptySeq DEF LinkInit, LinkTypes
<1> QED BY <1>5, <1>8, <1>9, <1>10, <1>11 DEF LinkInv, IInv

\* Every step of the link is one of a stream, or touches none.
StreamMove == \/ \E c \in Conns, m \in Messages : Send(c, m)
              \/ \E c \in Conns : \E n : ReadData(c, n, Queue(c, n)) \/ ReadNothing(c, n)
              \/ UNCHANGED streamVars

\* Such a step preserves what is proved of streams.
LEMMA MoveStep == IInv /\ StreamMove => IInv'
<1> SUFFICES ASSUME IInv, StreamMove PROVE IInv'
  OBVIOUS
<1>1. ASSUME NEW c \in Conns, NEW m \in Messages, Send(c, m) PROVE IInv'
  BY <1>1, SendStep
<1>2. ASSUME NEW c \in Conns, NEW n, ReadData(c, n, Queue(c, n)) PROVE IInv'
  BY <1>2, ReadStep, HandStep
<1>3. ASSUME NEW c \in Conns, NEW n, ReadNothing(c, n) PROVE IInv'
  BY <1>3, NothingStep
<1>4. CASE UNCHANGED streamVars
  BY <1>4, NextStep
<1> QED BY <1>1, <1>2, <1>3, <1>4 DEF StreamMove

\* The first write that main has before it, and those behind it.
LEMMA FirstWrite ==
    ASSUME LinkTypes, todo # <<>>
    PROVE  /\ Head(todo) = todo[1] /\ todo[1].to \in Slots /\ todo[1].msg \in Messages
           /\ Tail(todo) \in Seq([to : Slots, msg : Messages]) /\ Len(todo) \in Nat \ {0}
           /\ Len(Tail(todo)) = Len(todo) - 1
           /\ \A i \in 1 .. Len(Tail(todo)) : Tail(todo)[i] = todo[i + 1]
<1>1. todo \in Seq([to : Slots, msg : Messages]) /\ Len(todo) \in Nat \ {0}
  BY EmptySeq, LenProperties DEF LinkTypes
<1>2. todo[1] \in [to : Slots, msg : Messages]
  <2>1. 1 \in 1 .. Len(todo)
    BY <1>1
  <2> QED BY <1>1, <2>1, ElementOfSeq
<1> QED BY <1>1, <1>2, HeadTailProperties

\* A write in the loops of the main thread, or its failure.
WriteTo(k, m) ==
    /\ k = todo[1].to /\ m = todo[1].msg
    /\ \/ Send(Down(k), m) /\ todo' = Tail(todo) /\ stage' = stage
       \/ HungUp(k) /\ stage' = "failed" /\ UNCHANGED streamVars /\ todo' = todo

\* The steps of the main thread: pass over a slot, write or fail, a turn, the result, the exit.
LEMMA MainFacts ==
    ASSUME LinkTypes, Main
    PROVE  /\ UNCHANGED <<moverVars, clientVars>>
           /\ \/ /\ todo # <<>> /\ todo' \in {todo, Tail(todo)} /\ UNCHANGED <<streamVars, stage, tick>>
              \/ todo # <<>> /\ Alive /\ tick' = tick /\ \E k \in Slots, m \in Messages : WriteTo(k, m)
              \/ /\ stage = "game" /\ stage' = stage /\ UNCHANGED streamVars
                 /\ tick' = tick + 1 /\ tick' \in 1 .. Len(Boards) /\ todo' = ToAll(Message("BOARD", tick'))
              \/ /\ stage = "game" /\ stage' = "over" /\ UNCHANGED <<streamVars, tick>>
                 /\ \E winner : todo' = Results(winner)
              \/ stage = "over" /\ stage' = "exited" /\ UNCHANGED <<streamVars, tick, todo>>
<1>1. CASE NextSlot
  BY <1>1 DEF NextSlot
<1>2. CASE Write
  <2>1. Head(todo) = todo[1] /\ todo[1].to \in Slots /\ todo[1].msg \in Messages
    BY <1>2, FirstWrite DEF Write
  <2> QED BY <1>2, <2>1 DEF Write, WriteTo
<1>3. CASE Update
  <2>1. tick' \in 1 .. Len(Boards)
    BY <1>3, LinkAssumption DEF Update, LinkTypes
  <2> QED BY <1>3, <2>1 DEF Update
<1>4. CASE GameOver
  BY <1>4 DEF GameOver
<1>5. CASE Exit
  BY <1>5 DEF Exit
<1> QED BY <1>1, <1>2, <1>3, <1>4, <1>5 DEF Main

\* The notice of disconnect to one client, or its failure.
NotifyOne(k) ==
    /\ k \in notices
    /\ \/ Send(Down(k), Message("STRING", leaver)) /\ notices' = notices \ {k} /\ stage' = stage
       \/ HungUp(k) /\ stage' = "failed" /\ UNCHANGED <<streamVars, notices>>

\* The steps of the mover: clear a slot, tell of it, serve a request or die of a read.
LEMMA MoverFacts ==
    ASSUME LinkTypes, Mover
    PROVE  /\ UNCHANGED <<tick, todo, writing, clientVars>> /\ Alive
           /\ \/ Free
              \/ \E k \in Slots : NotifyOne(k) /\ UNCHANGED <<seated, leaver, foreign, burst>>
              \/ \E k \in Slots : \E n : Serve(k, n)
              \/ \E k \in Slots : \E n : ServeNothing(k, n)
<1>1. CASE Free
  BY <1>1 DEF Free, mainVars
<1>2. ASSUME NEW k \in Slots, Notify(k)
      PROVE  /\ UNCHANGED <<tick, todo, writing, clientVars>> /\ Alive
             /\ NotifyOne(k) /\ UNCHANGED <<seated, leaver, foreign, burst>>
  BY <1>2 DEF Notify, NotifyOne
<1>3. ASSUME NEW k \in Slots, NEW n, Serve(k, n) \/ ServeNothing(k, n)
      PROVE  UNCHANGED <<tick, todo, writing, clientVars>> /\ Alive
  BY <1>3 DEF Serve, ServeNothing, Chosen, mainVars
<1> QED BY <1>1, <1>2, <1>3 DEF Mover

\* The phases in which the connection is closed.
Closed == {"quit", "gone", "dead"}

\* A client reads, writes or leaves, which changes its phase and nothing of the server.
LEMMA ClientFacts ==
    ASSUME TypeOK, LinkTypes, NEW k \in Slots, Reader(k) \/ Press(k) \/ Leave(k)
    PROVE  /\ UNCHANGED <<mainVars, moverVars>>
           /\ phase[k] \notin Closed
           /\ \E p \in {"lobby", "playing", "won", "lost"} \cup Closed : phase' = [phase EXCEPT ![k] = p]
           /\ \/ \E n : Receive(k, n)
              \/ \E n : ReceiveNothing(k, n)
              \/ \E m \in {Message("POINT", 0), Bye} :
                    Send(Up(k), m) /\ (phase' = phase \/ phase'[k] \in {"quit", "gone"})
              \/ UNCHANGED streamVars /\ transport = "socket" /\ phase'[k] \in {"quit", "gone"}
              \/ UNCHANGED streamVars /\ transport = "socket" /\ phase'[k] = "dead" /\ ~Alive
<1> DEFINE P == {"lobby", "playing", "won", "lost"} \cup Closed
<1>0. phase \in [Slots -> P] /\ phase = [phase EXCEPT ![k] = phase[k]] /\ phase[k] \in P
  BY DEF LinkTypes, Closed
<1>1. ASSUME NEW n, Receive(k, n)
      PROVE  /\ UNCHANGED <<mainVars, moverVars>> /\ phase[k] \notin Closed
             /\ \E p \in P : phase' = [phase EXCEPT ![k] = p]
  <2>1. PICK queue : IF Head(queue).whole THEN Understand(k, MsgOf(Head(queue))) ELSE Misunderstand(k)
    BY <1>1 DEF Receive
  <2>2. \E p \in P : phase' = [phase EXCEPT ![k] = p]
    BY <1>0, <2>1 DEF Understand, Misunderstand, ReadPlayer, Enter, Told, Closed
  <2> QED BY <1>1, <2>2 DEF Receive, Listening, Closed
<1>2. ASSUME NEW n, ReceiveNothing(k, n)
      PROVE  /\ UNCHANGED <<mainVars, moverVars>> /\ phase[k] \notin Closed
             /\ \E p \in P : phase' = [phase EXCEPT ![k] = p]
  BY <1>2 DEF ReceiveNothing, Listening, Enter, Closed
<1>3. CASE Press(k)
  BY <1>0, <1>3 DEF Press, Enter, Closed, clientVars
<1>4. CASE Leave(k)
  <2>1. \/ phase' = [phase EXCEPT ![k] = "gone"] /\ phase'[k] = "gone"
        \/ phase' = [phase EXCEPT ![k] = "quit"] /\ phase'[k] = "quit"
    BY <1>0, <1>4 DEF Leave, Enter
  <2>2. (transport = "fifo" /\ Send(Up(k), Bye)) \/ (transport = "socket" /\ UNCHANGED streamVars)
    BY <1>4 DEF Leave, TypeOK
  <2> QED BY <1>4, <2>1, <2>2 DEF Leave, Closed
<1> QED BY <1>1, <1>2, <1>3, <1>4 DEF Reader
-----------------------------------------------------------------------------
(* What every step of the link preserves.                                  *)

\* Every step of the link is such a step.
LEMMA LinkMoves ==
    ASSUME LinkInv, [LinkNext]_vars
    PROVE  StreamMove
<1>1. CASE Main
  <2>1. ASSUME NEW k \in Slots, NEW m \in Messages, WriteTo(k, m) PROVE StreamMove
    BY <2>1, Links DEF WriteTo, StreamMove
  <2> QED BY <1>1, <2>1, MainFacts DEF LinkInv, StreamMove
<1>2. CASE Mover
  <2>1. CASE Free
    BY <2>1 DEF Free, StreamMove
  <2>2. ASSUME NEW k \in Slots, NotifyOne(k) PROVE StreamMove
    <3>1. leaver \in Slots
      BY <2>2 DEF NotifyOne, LinkInv, LinkTypes
    <3> QED BY <2>2, <3>1, Links, MessageFacts DEF NotifyOne, StreamMove
  <2>3. ASSUME NEW k \in Slots, NEW n, Serve(k, n) \/ ServeNothing(k, n) PROVE StreamMove
    BY <2>3, Links DEF Serve, ServeNothing, StreamMove
  <2> QED BY <1>2, <2>1, <2>2, <2>3, MoverFacts DEF LinkInv
<1>3. ASSUME NEW k \in Slots, Reader(k) \/ Press(k) \/ Leave(k) PROVE StreamMove
  <2>1. ASSUME NEW n, Receive(k, n) \/ ReceiveNothing(k, n) PROVE StreamMove
    BY <2>1, Links DEF Receive, ReceiveNothing, StreamMove
  <2>2. ASSUME NEW m \in {Message("POINT", 0), Bye}, Send(Up(k), m) PROVE StreamMove
    BY <2>2, Links, MessageFacts DEF StreamMove
  <2> QED BY <1>3, <2>1, <2>2, ClientFacts DEF LinkInv, IInv, StreamMove
<1>4. CASE UNCHANGED vars
  BY <1>4 DEF vars, StreamMove
<1> QED BY <1>1, <1>2, <1>3, <1>4 DEF LinkNext

\* The loops over clients[] write to slots.
LEMMA LoopTypes ==
    /\ \A m \in Messages : ToAll(m) \in Seq([to : Slots, msg : Messages])
    /\ \A winner : Results(winner) \in Seq([to : Slots, msg : Messages])
<1> DEFINE N == Cardinality(Slots)
           R == [to : Slots, msg : Messages]
<1>1. N \in Nat /\ \A n \in 1 .. N : n - 1 \in Slots
  BY SlotNumbers
<1>2. ASSUME NEW m \in Messages PROVE ToAll(m) \in Seq(R)
  <2>1. \A n \in 1 .. N : [to |-> n - 1, msg |-> m] \in R
    BY <1>1
  <2> HIDE DEF R
  <2> QED BY <1>1, <2>1 DEF ToAll
<1>3. ASSUME NEW winner PROVE Results(winner) \in Seq(R)
  <2>1. \A n \in 1 .. N : Message("BOOLEAN", IF n - 1 = winner THEN 1 ELSE 0) \in Messages
    BY MessageFacts
  <2>2. \A n \in 1 .. N : [to |-> n - 1, msg |-> Message("BOOLEAN", IF n - 1 = winner THEN 1 ELSE 0)] \in R
    BY <1>1, <2>1
  <2> HIDE DEF R
  <2> QED BY <1>1, <2>2 DEF Results
<1> QED BY <1>2, <1>3

\* The types of the link, and what is proved of its streams.
LEMMA LinkStep ==
    ASSUME LinkInv, [LinkNext]_vars
    PROVE  LinkInv'
<1>1. IInv' /\ LinkTypes
  BY LinkMoves, MoveStep DEF LinkInv
<1>2. CASE Main
  <2>1. UNCHANGED <<seated, leaver, notices, foreign, burst, phase>>
    BY <1>1, <1>2, MainFacts DEF moverVars, clientVars
  <2>2. todo' \in Seq([to : Slots, msg : Messages]) /\ tick' \in Nat
        /\ stage' \in {"game", "over", "exited", "failed"}
    <3>1. \A t \in 1 .. Len(Boards) : ToAll(Message("BOARD", t)) \in Seq([to : Slots, msg : Messages])
      BY LoopTypes, MessageFacts
    <3>2. todo # <<>> => Tail(todo) \in Seq([to : Slots, msg : Messages])
      BY <1>1, FirstWrite
    <3>3. todo \in Seq([to : Slots, msg : Messages]) /\ tick \in Nat /\ tick + 1 \in Nat
          /\ stage \in {"game", "over", "exited", "failed"}
      BY <1>1 DEF LinkTypes
    <3> QED BY <1>1, <1>2, <3>1, <3>2, <3>3, MainFacts, LoopTypes DEF WriteTo
  <2> QED BY <1>1, <2>1, <2>2 DEF LinkInv, LinkTypes
<1>3. CASE Mover
  <2>1. UNCHANGED <<tick, todo, phase>>
    BY <1>1, <1>3, MoverFacts DEF clientVars
  <2>2. CASE Free
    BY <1>1, <2>1, <2>2 DEF Free, mainVars, LinkInv, LinkTypes
  <2>3. ASSUME NEW k \in Slots, NotifyOne(k), UNCHANGED <<seated, leaver, foreign, burst>>
        PROVE  LinkInv'
    BY <1>1, <2>1, <2>3 DEF NotifyOne, LinkInv, LinkTypes
  <2>4. ASSUME NEW k \in Slots, NEW n, Serve(k, n) PROVE LinkInv'
    <3>1. /\ leaver' \in {k, Nobody} /\ seated' = seated /\ stage' = stage
          /\ notices' = IF leaver' = k THEN seated \ {k} ELSE {}
          /\ foreign' \in BOOLEAN /\ burst' \in BOOLEAN
      BY <1>1, <2>4 DEF Serve, mainVars, LinkTypes
    <3> QED BY <1>1, <2>1, <3>1 DEF LinkInv, LinkTypes
  <2>5. ASSUME NEW k \in Slots, NEW n, ServeNothing(k, n) PROVE LinkInv'
    BY <1>1, <2>1, <2>5 DEF ServeNothing, moverVars, LinkInv, LinkTypes
  <2> QED BY <1>1, <1>3, <2>2, <2>3, <2>4, <2>5, MoverFacts
<1>4. ASSUME NEW k \in Slots, Reader(k) \/ Press(k) \/ Leave(k) PROVE LinkInv'
  <2>1. UNCHANGED <<mainVars, moverVars>>
        /\ \E p \in {"lobby", "playing", "won", "lost"} \cup Closed : phase' = [phase EXCEPT ![k] = p]
    BY <1>1, <1>4, ClientFacts DEF LinkInv, IInv
  <2> QED BY <1>1, <2>1 DEF LinkInv, LinkTypes, mainVars, moverVars, Closed
<1>5. CASE UNCHANGED vars
  BY <1>1, <1>5 DEF vars, mainVars, moverVars, clientVars, LinkInv, LinkTypes
<1> QED BY <1>2, <1>3, <1>4, <1>5 DEF LinkNext
-----------------------------------------------------------------------------
(* Requests.                                                               *)

\* A step that hands the server no message leaves its buffer alone.
LEMMA OtherMoves ==
    ASSUME LinkInv, [LinkNext]_vars, ~(\E k \in Slots : \E n : Serve(k, n))
    PROVE  UNCHANGED <<foreign, burst>> /\ readBuffer'[Server] = readBuffer[Server]
<1>1. LinkTypes /\ TypeOK
  BY DEF LinkInv, IInv
<1>2. CASE Main
  BY <1>1, <1>2, MainFacts DEF moverVars, streamVars, WriteTo, Send
<1>3. CASE Mover
  <2>1. CASE Free
    BY <2>1 DEF Free, streamVars
  <2>2. ASSUME NEW k \in Slots, NotifyOne(k), UNCHANGED <<seated, leaver, foreign, burst>>
        PROVE  UNCHANGED <<foreign, burst>> /\ readBuffer' = readBuffer
    BY <2>2 DEF NotifyOne, Send, streamVars
  <2>3. ASSUME NEW k \in Slots, NEW n, ServeNothing(k, n)
        PROVE  UNCHANGED <<foreign, burst>> /\ readBuffer' = readBuffer
    BY <2>3 DEF ServeNothing, ReadNothing, moverVars
  <2> QED BY <1>1, <1>3, <2>1, <2>2, <2>3, MoverFacts
<1>4. ASSUME NEW k \in Slots, Reader(k) \/ Press(k) \/ Leave(k)
      PROVE  UNCHANGED <<foreign, burst>> /\ readBuffer'[Server] = readBuffer[Server]
  <2>1. UNCHANGED <<foreign, burst>>
    BY <1>1, <1>4, ClientFacts DEF moverVars
  <2>2. ASSUME NEW n, Receive(k, n) PROVE readBuffer'[Server] = readBuffer[Server]
    <3>1. PICK queue : ReadData(Down(k), n, queue)
      BY <2>2 DEF Receive
    <3>2. ReaderOf[Down(k)] # Server
      BY Links
    <3> QED BY <1>1, <3>1, <3>2, Links DEF ReadData, TypeOK
  <2>3. ASSUME NEW n, ReceiveNothing(k, n) PROVE readBuffer' = readBuffer
    BY <2>3 DEF ReceiveNothing, ReadNothing
  <2> QED BY <1>1, <1>4, <2>1, <2>2, <2>3, ClientFacts DEF Send, streamVars
<1>5. CASE UNCHANGED vars
  BY <1>5 DEF vars, moverVars, streamVars
<1> QED BY <1>2, <1>3, <1>4, <1>5 DEF LinkNext

\* If the buffer is empty, what the server reads is of the connection it asks.
LEMMA SourceStep ==
    ASSUME LinkInv, SourceInv, [LinkNext]_vars
    PROVE  SourceInv'
<1>1. ASSUME NEW k \in Slots, NEW n, Serve(k, n) PROVE SourceInv'
  <2> DEFINE q == Queue(Up(k), n)
  <2>1. /\ ReadData(Up(k), n, q) /\ foreign' = (foreign \/ Head(q).conn # Up(k))
        /\ burst' = (burst \/ Len(q) > 1)
    BY <1>1 DEF Serve
  <2>2. /\ TypeOK /\ foreign \in BOOLEAN /\ burst \in BOOLEAN /\ (foreign => burst)
        /\ burst \/ readBuffer[Server] = <<>>
        /\ Up(k) \in Conns /\ ReaderOf[Up(k)] = Server /\ Server \in Readers
    BY Links DEF LinkInv, IInv, LinkTypes, SourceInv, RequestIsOwn
  <2>3. CASE burst
    BY <2>1, <2>2, <2>3 DEF SourceInv, RequestIsOwn
  <2>4. CASE ~burst
    <3>1. readBuffer[Server] = <<>> /\ q = Pieces(Up(k), n) /\ n \in ReadSizes(Up(k)) /\ q # <<>>
      BY <2>1, <2>2, <2>4 DEF Queue, ReadData, Reading
    <3>2. n \in Nat
      BY <2>2, <3>1, ReadSizesRange DEF LinkInv
    <3>3. CutInto(Up(k), LastEnded(Up(k), got[Up(k)]), LastEnded(Up(k), got[Up(k)] + n), q)
      BY <2>2, <3>1, <3>2, PiecesOf
    <3>4. q # <<>>
      BY <3>1
    <3> HIDE DEF q
    <3>5. q \in Seq(Piece) /\ Len(q) \in Nat \ {0} /\ \A i \in 1 .. Len(q) : q[i].conn = Up(k)
      <4>1. q \in Seq(Piece) /\ \A i \in 1 .. Len(q) : q[i].conn = Up(k)
        BY <3>3 DEF CutInto
      <4> QED BY <3>4, <4>1, EmptySeq, LenProperties
    <3>6. ~foreign'
      BY <2>1, <2>2, <2>4, <3>5
    <3>7. burst' \/ Tail(q) = <<>>
      <4>1. Len(q) > 1 => burst'
        BY <2>1
      <4>2. Len(q) = 1 => Tail(q) = <<>>
        <5>1. Len(q) = 1 => q # <<>> /\ Len(Tail(q)) = 0 /\ Tail(q) \in Seq(Piece)
          BY <3>4, <3>5, HeadTailProperties
        <5> QED BY <5>1, EmptySeq
      <4> QED BY <3>5, <4>1, <4>2
    <3>8. readBuffer'[Server] = Tail(q)
      BY <2>1, <2>2 DEF ReadData, TypeOK
    <3> QED BY <3>6, <3>7, <3>8 DEF SourceInv, RequestIsOwn
  <2> QED BY <2>3, <2>4
<1>2. CASE ~(\E k \in Slots : \E n : Serve(k, n))
  BY <1>2, OtherMoves DEF SourceInv, RequestIsOwn
<1> QED BY <1>1, <1>2
-----------------------------------------------------------------------------
(* What ends the server.                                                   *)

\* Requests are shorter than a read (1 and 7 bytes, BUFFER_SIZE is 1024).
RequestsFit == Size[Message("POINT", 0)] <= BufferSize /\ Size[Bye] <= BufferSize

KillInv == UpInv /\ OnlyHangUpKills

\* A write to one stream leaves the messages of the others, and those before it.
LEMMA UpStep ==
    ASSUME RequestsFit, LinkInv, UpInv, [LinkNext]_vars
    PROVE  UpInv'
<1>1. TypeOK /\ LinkTypes
  BY DEF LinkInv, IInv
<1>2. CASE sent' = sent
  BY <1>2 DEF UpInv, End
<1>3. ASSUME NEW k \in Slots, NEW m \in Messages, Send(Down(k), m) PROVE UpInv'
  <2>1. \A j \in Slots : sent'[Up(j)] = sent[Up(j)]
    BY <1>1, <1>3, SendFacts, Links
  <2> QED BY <2>1 DEF UpInv, End
<1>4. ASSUME NEW k \in Slots, NEW m \in {Message("POINT", 0), Bye}, Send(Up(k), m) PROVE UpInv'
  <2> DEFINE L == Len(sent[Up(k)])
  <2>1. /\ L \in Nat /\ Len(sent'[Up(k)]) = L + 1
        /\ \A i \in 0 .. L : End(Up(k), i)' = End(Up(k), i)
        /\ sent'[Up(k)][L + 1].end = End(Up(k), L) + Size[m]
        /\ \A d \in Conns \ {Up(k)} : sent'[d] = sent[d] /\ \A i : End(d, i)' = End(d, i)
    BY <1>1, <1>4, SendFacts, MessageFacts, Links
  <2>2. Size[m] <= BufferSize /\ Size[m] \in Nat /\ BufferSize \in Nat /\ End(Up(k), L) \in Nat
    BY <1>1, <2>1, EndType, SizesAssumption, MessageFacts, Links DEF RequestsFit
  <2> SUFFICES ASSUME NEW j \in Slots, NEW i \in 1 .. Len(sent'[Up(j)])
               PROVE  End(Up(j), i)' <= End(Up(j), i - 1)' + BufferSize
    BY DEF UpInv
  <2>3. CASE j # k
    BY <2>1, <2>3, Links DEF UpInv
  <2>4. CASE j = k /\ i # L + 1
    <3>1. i \in 1 .. L /\ i \in 0 .. L /\ i - 1 \in 0 .. L
      BY <2>1, <2>4
    <3> HIDE DEF L
    <3>2. End(Up(k), i)' = End(Up(k), i) /\ End(Up(k), i - 1)' = End(Up(k), i - 1)
      BY <2>1, <3>1
    <3> QED BY <2>4, <3>1, <3>2 DEF UpInv, L
  <2>5. CASE j = k /\ i = L + 1
    <3>1. i - 1 = L /\ i # 0 /\ L \in 0 .. L
      BY <2>1, <2>5
    <3>2. End(Up(k), i)' = sent'[Up(k)][i].end
      BY <3>1 DEF End
    <3> HIDE DEF L
    <3>3. End(Up(k), i - 1)' = End(Up(k), L)
      BY <2>1, <3>1
    <3> QED BY <2>1, <2>2, <2>5, <3>2, <3>3
  <2> QED BY <2>3, <2>4, <2>5
<1>5. CASE Main
  BY <1>1, <1>2, <1>3, <1>5, MainFacts DEF WriteTo, streamVars
<1>6. CASE Mover
  <2>1. CASE Free
    BY <1>2, <2>1 DEF Free, streamVars
  <2>2. ASSUME NEW k \in Slots, NotifyOne(k) PROVE UpInv'
    <3>1. Message("STRING", leaver) \in Messages
      BY <1>1, <2>2, MessageFacts DEF NotifyOne, LinkTypes
    <3> QED BY <1>2, <1>3, <2>2, <3>1 DEF NotifyOne, streamVars
  <2>3. ASSUME NEW k \in Slots, NEW n, Serve(k, n) \/ ServeNothing(k, n) PROVE UpInv'
    BY <1>2, <2>3 DEF Serve, ServeNothing, ReadData, ReadNothing
  <2> QED BY <1>1, <1>6, <2>1, <2>2, <2>3, MoverFacts
<1>7. ASSUME NEW k \in Slots, Reader(k) \/ Press(k) \/ Leave(k) PROVE UpInv'
  <2>1. ASSUME NEW n, Receive(k, n) \/ ReceiveNothing(k, n) PROVE UpInv'
    BY <1>2, <2>1 DEF Receive, ReceiveNothing, ReadData, ReadNothing
  <2> QED BY <1>1, <1>2, <1>4, <1>7, <2>1, ClientFacts DEF streamVars
<1>8. CASE UNCHANGED vars
  BY <1>2, <1>8 DEF vars, streamVars
<1> QED BY <1>5, <1>6, <1>7, <1>8 DEF LinkNext

\* A stream that is not empty before a read holds the end of a message, unless a
\* read left a part of it there.
LEMMA NothingServed ==
    ASSUME LinkInv, UpInv, NEW k \in Slots, NEW n, ServeNothing(k, n)
    PROVE  transport = "socket" /\ (phase[k] \in Closed \/ behind'[Up(k)])
<1> DEFINE c == Up(k)
<1>1. /\ TypeOK /\ c \in Conns /\ ReadNothing(c, n) /\ (n = 0 => HungUp(k))
      /\ readBuffer[ReaderOf[c]] = <<>>
  BY Links DEF LinkInv, IInv, ServeNothing, ReadNothing
<1>2. CASE n = 0
  BY <1>1, <1>2 DEF HungUp, Closed
<1>3. CASE n # 0
  <2>1. /\ n \in ReadSizes(c) /\ Pieces(c, n) = <<>>
        /\ behind' = [behind EXCEPT ![c] = @ \/ n < Waiting(c)]
    BY <1>1, <1>3 DEF ReadNothing, Reading
  <2>2. n < Waiting(c) /\ n # BufferSize
    BY <1>1, <2>1, NoPieces DEF LinkInv, UpInv
  <2>3. behind'[c]
    BY <1>1, <2>1, <2>2 DEF TypeOK
  <2>4. transport = "socket"
    <3>1. n = Most(c) \/ transport = "socket"
      BY <2>1 DEF ReadSizes
    <3>2. Waiting(c) \in Int /\ n \in Nat
      BY <1>1, <2>1, ReadSizesRange DEF Waiting, LinkInv
    <3> QED BY <2>2, <3>1, <3>2, SizesAssumption DEF Most
  <2> QED BY <2>3, <2>4
<1> QED BY <1>2, <1>3

\* A read never takes back that it has left something.
LEMMA BehindStays ==
    ASSUME LinkInv, [LinkNext]_vars, NEW c \in Conns
    PROVE  transport' = transport /\ (behind[c] => behind'[c])
<1>1. IInv /\ TypeOK /\ StreamMove
  BY LinkMoves DEF LinkInv, IInv
<1>2. ASSUME NEW d \in Conns, NEW m \in Messages, Send(d, m) PROVE UNCHANGED <<transport, behind>>
  BY <1>2 DEF Send
<1>3. ASSUME NEW d \in Conns, NEW n, ReadData(d, n, Queue(d, n))
      PROVE  transport' = transport /\ (behind[c] => behind'[c])
  BY <1>1, <1>3, ReadFacts
<1>4. ASSUME NEW d \in Conns, NEW n, ReadNothing(d, n)
      PROVE  transport' = transport /\ (behind[c] => behind'[c])
  BY <1>1, <1>4 DEF ReadNothing, Reading, TypeOK
<1> QED BY <1>1, <1>2, <1>3, <1>4 DEF StreamMove, streamVars

\* A closed connection stays closed.
LEMMA ClosedStays ==
    ASSUME LinkInv, [LinkNext]_vars, NEW k \in Slots, phase[k] \in Closed
    PROVE  phase'[k] \in Closed
<1>1. LinkTypes /\ TypeOK
  BY DEF LinkInv, IInv
<1>2. CASE Main \/ Mover \/ UNCHANGED vars
  BY <1>1, <1>2, MainFacts, MoverFacts DEF vars, clientVars
<1>3. ASSUME NEW j \in Slots, Reader(j) \/ Press(j) \/ Leave(j) PROVE phase'[k] \in Closed
  BY <1>1, <1>3, ClientFacts DEF LinkTypes
<1> QED BY <1>2, <1>3 DEF LinkNext

\* The server dies of a closed connection, or of a read without the end of a message.
LEMMA KillStep ==
    ASSUME RequestsFit, LinkInv, KillInv, [LinkNext]_vars
    PROVE  KillInv'
<1>1. UpInv' /\ LinkTypes /\ TypeOK
  BY UpStep DEF KillInv, LinkInv, IInv
<1>2. OnlyHangUpKills'
  <2> SUFFICES ASSUME stage' = "failed"
               PROVE  transport' = "socket" /\ \E k \in Slots : phase'[k] \in Closed \/ behind'[Up(k)]
    BY DEF OnlyHangUpKills, Closed
  <2>1. ASSUME NEW k \in Slots, transport = "socket", phase[k] \in Closed \/ behind[Up(k)]
        PROVE  transport' = "socket" /\ (phase'[k] \in Closed \/ behind'[Up(k)])
    BY <2>1, BehindStays, ClosedStays, Links
  <2>2. CASE stage = "failed"
    BY <2>1, <2>2 DEF KillInv, OnlyHangUpKills, Closed
  <2>3. ASSUME NEW k \in Slots, HungUp(k) PROVE transport = "socket" /\ phase[k] \in Closed
    BY <2>3 DEF HungUp, Closed
  <2>4. CASE stage # "failed" /\ Main
    <3>1. \E k \in Slots : HungUp(k)
      BY <1>1, <2>4, MainFacts DEF WriteTo
    <3> QED BY <2>1, <2>3, <3>1
  <2>5. CASE stage # "failed" /\ Mover
    <3>1. \/ \E k \in Slots : HungUp(k)
          \/ \E k \in Slots : \E n : ServeNothing(k, n)
      BY <1>1, <2>5, MoverFacts DEF NotifyOne, Free, Serve, mainVars
    <3>2. ASSUME NEW k \in Slots, NEW n, ServeNothing(k, n)
          PROVE  transport' = "socket" /\ (phase'[k] \in Closed \/ behind'[Up(k)])
      BY <3>2, NothingServed, BehindStays, ClosedStays, Links DEF KillInv
    <3> QED BY <2>1, <2>3, <3>1, <3>2
  <2>6. CASE stage # "failed" /\ (UNCHANGED vars \/ \E k \in Slots : Reader(k) \/ Press(k) \/ Leave(k))
    BY <1>1, <2>6, ClientFacts DEF vars, mainVars
  <2> QED BY <2>2, <2>4, <2>5, <2>6 DEF LinkNext
<1> QED BY <1>1, <1>2 DEF KillInv
-----------------------------------------------------------------------------
(* A client that keeps pace, and the end of the game.                      *)

\* The server does not return to the game, and does not come back.
LEMMA StageOnly ==
    ASSUME LinkInv, [LinkNext]_vars
    PROVE  /\ stage # "game" => stage' # "game"
           /\ ~Alive => ~Alive'
<1>1. LinkTypes /\ TypeOK
  BY DEF LinkInv, IInv
<1>2. CASE Main
  BY <1>1, <1>2, MainFacts DEF WriteTo, Alive
<1>3. CASE Mover
  BY <1>1, <1>3, MoverFacts DEF Free, NotifyOne, Serve, ServeNothing, mainVars, Alive
<1>4. ASSUME NEW k \in Slots, Reader(k) \/ Press(k) \/ Leave(k) PROVE stage' = stage
  BY <1>1, <1>4, ClientFacts DEF mainVars
<1> QED BY <1>2, <1>3, <1>4 DEF LinkNext, vars, mainVars, Alive

\* What a write adds to what a client is sent.
LEMMA DownGrows ==
    ASSUME LinkInv, DownInv, stage # "game" => stage' # "game",
           NEW k \in Slots, NEW m \in Messages, Send(Down(k), m), m.type = "BOOLEAN" => stage' # "game"
    PROVE  DownInv'
<1> DEFINE L == Len(sent[Down(k)])
<1>1. /\ L \in Nat /\ Len(sent'[Down(k)]) = L + 1 /\ sent'[Down(k)][L + 1].msg = m
      /\ \A i \in 1 .. L : sent'[Down(k)][i] = sent[Down(k)][i]
      /\ \A d \in Conns \ {Down(k)} : sent'[d] = sent[d]
  BY SendFacts, Links DEF LinkInv, IInv
<1>2. L >= Openers /\ Openers \in Nat
  BY OpeningFacts DEF DownInv
<1> SUFFICES ASSUME NEW j \in Slots
             PROVE  /\ Len(sent'[Down(j)]) >= Openers
                    /\ \A i \in 1 .. Len(sent'[Down(j)]) :
                          /\ i < Openers => sent'[Down(j)][i].msg.type = "PLAYER"
                          /\ i = Openers => sent'[Down(j)][i].msg.type = "BOOLEAN"
                          /\ i > Openers /\ sent'[Down(j)][i].msg.type = "BOOLEAN" => stage' # "game"
  BY DEF DownInv
<1>3. CASE j # k
  BY <1>1, <1>3, Links DEF DownInv
<1>4. CASE j = k
  <2>1. \A i \in 1 .. L : /\ i < Openers => sent[Down(j)][i].msg.type = "PLAYER"
                          /\ i = Openers => sent[Down(j)][i].msg.type = "BOOLEAN"
                          /\ i > Openers /\ sent[Down(j)][i].msg.type = "BOOLEAN" => stage # "game"
    BY <1>4 DEF DownInv
  <2> HIDE DEF L
  <2> SUFFICES ASSUME NEW i \in 1 .. L + 1
               PROVE  /\ i < Openers => sent'[Down(j)][i].msg.type = "PLAYER"
                      /\ i = Openers => sent'[Down(j)][i].msg.type = "BOOLEAN"
                      /\ i > Openers /\ sent'[Down(j)][i].msg.type = "BOOLEAN" => stage' # "game"
    BY <1>1, <1>2, <1>4
  <2>2. CASE i = L + 1
    BY <1>1, <1>2, <1>4, <2>2
  <2>3. CASE i # L + 1
    <3>1. i \in 1 .. L
      BY <1>1, <2>3
    <3> QED BY <1>1, <1>4, <2>1, <3>1
  <2> QED BY <2>2, <2>3
<1> QED BY <1>3, <1>4

\* Only the loop after the last turn writes a BOOLEAN.
LEMMA DownStep ==
    ASSUME LinkInv, DownInv, TodoInv, [LinkNext]_vars
    PROVE  DownInv'
<1>1. LinkTypes /\ TypeOK /\ (stage # "game" => stage' # "game")
  BY StageOnly DEF LinkInv, IInv
<1>2. ASSUME \A k \in Slots : sent'[Down(k)] = sent[Down(k)] PROVE DownInv'
  BY <1>1, <1>2 DEF DownInv
<1>3. CASE Main
  <2>1. ASSUME NEW k \in Slots, NEW m \in Messages, WriteTo(k, m), todo # <<>> PROVE DownInv'
    <3>1. CASE Send(Down(k), m) /\ stage' = stage
      <4>1. 1 \in 1 .. Len(todo) /\ todo[1].msg = m
        BY <1>1, <2>1, FirstWrite DEF WriteTo
      <4>2. m.type = "BOOLEAN" => stage' # "game"
        BY <3>1, <4>1 DEF TodoInv
      <4> QED BY <1>1, <3>1, <4>2, DownGrows
    <3> QED BY <1>2, <2>1, <3>1 DEF WriteTo, streamVars
  <2> QED BY <1>1, <1>2, <1>3, <2>1, MainFacts DEF streamVars
<1>4. CASE Mover
  <2>1. CASE Free
    BY <1>2, <2>1 DEF Free, streamVars
  <2>2. ASSUME NEW k \in Slots, NotifyOne(k) PROVE DownInv'
    <3>1. Message("STRING", leaver) \in Messages /\ Message("STRING", leaver).type # "BOOLEAN"
      BY <1>1, <2>2, MessageFacts DEF NotifyOne, LinkTypes
    <3>2. CASE Send(Down(k), Message("STRING", leaver))
      BY <1>1, <3>1, <3>2, DownGrows
    <3> QED BY <1>2, <2>2, <3>2 DEF NotifyOne, streamVars
  <2>3. ASSUME NEW k \in Slots, NEW n, Serve(k, n) \/ ServeNothing(k, n) PROVE DownInv'
    BY <1>2, <2>3 DEF Serve, ServeNothing, ReadData, ReadNothing
  <2> QED BY <1>1, <1>4, <2>1, <2>2, <2>3, MoverFacts
<1>5. ASSUME NEW k \in Slots, Reader(k) \/ Press(k) \/ Leave(k) PROVE DownInv'
  <2>1. ASSUME NEW n, Receive(k, n) \/ ReceiveNothing(k, n) PROVE DownInv'
    BY <1>2, <2>1 DEF Receive, ReceiveNothing, ReadData, ReadNothing
  <2>2. ASSUME NEW m \in {Message("POINT", 0), Bye}, Send(Up(k), m) PROVE DownInv'
    <3>1. \A j \in Slots : sent'[Down(j)] = sent[Down(j)]
      BY <1>1, <2>2, SendFacts, MessageFacts, Links
    <3> QED BY <1>2, <3>1
  <2> QED BY <1>1, <1>2, <1>5, <2>1, <2>2, ClientFacts DEF streamVars
<1>6. CASE UNCHANGED vars
  BY <1>2, <1>6 DEF vars, streamVars
<1> QED BY <1>3, <1>4, <1>5, <1>6 DEF LinkNext

\* While the game lasts, main writes boards.
LEMMA TodoStep ==
    ASSUME LinkInv, TodoInv, [LinkNext]_vars
    PROVE  TodoInv'
<1>1. LinkTypes /\ TypeOK /\ (stage # "game" => stage' # "game")
  BY StageOnly DEF LinkInv, IInv
<1>2. ASSUME todo' = todo PROVE TodoInv'
  BY <1>1, <1>2 DEF TodoInv
<1>3. CASE Main
  <2>1. ASSUME todo # <<>>, todo' = Tail(todo) PROVE TodoInv'
    <3>1. /\ Len(todo) \in Nat /\ Len(todo') = Len(todo) - 1
          /\ \A i \in 1 .. Len(todo') : todo'[i] = todo[i + 1]
      BY <1>1, <2>1, FirstWrite
    <3> SUFFICES ASSUME stage' = "game", NEW i \in 1 .. Len(todo') PROVE todo'[i].msg.type # "BOOLEAN"
      BY DEF TodoInv
    <3>2. i + 1 \in 1 .. Len(todo) /\ todo'[i] = todo[i + 1] /\ stage = "game"
      BY <1>1, <3>1
    <3> QED BY <3>2 DEF TodoInv
  <2>2. ASSUME NEW t \in Nat, todo' = ToAll(Message("BOARD", t)) PROVE TodoInv'
    <3>1. Message("BOARD", t).type # "BOOLEAN"
      BY MessageFacts
    <3> DEFINE m == Message("BOARD", t)
    <3> HIDE DEF m
    <3>2. Len(ToAll(m)) = Cardinality(Slots) /\ \A i \in 1 .. Cardinality(Slots) : ToAll(m)[i].msg = m
      BY SlotNumbers DEF ToAll
    <3> QED BY <2>2, <3>1, <3>2 DEF TodoInv, m
  <2>3. ASSUME stage' # "game" PROVE TodoInv'
    BY <2>3 DEF TodoInv
  <2>4. tick \in Nat /\ tick + 1 \in Nat
    BY <1>1 DEF LinkTypes
  <2> QED BY <1>1, <1>2, <1>3, <2>1, <2>2, <2>3, <2>4, MainFacts DEF WriteTo
<1>4. CASE Mover
  BY <1>1, <1>2, <1>4, MoverFacts
<1>5. ASSUME NEW k \in Slots, Reader(k) \/ Press(k) \/ Leave(k) PROVE TodoInv'
  BY <1>1, <1>2, <1>5, ClientFacts DEF mainVars
<1>6. CASE UNCHANGED vars
  BY <1>2, <1>6 DEF vars, mainVars
<1> QED BY <1>3, <1>4, <1>5, <1>6 DEF LinkNext

\* A client that stays where it is.
LEMMA PhaseStays ==
    ASSUME LinkInv, [LinkNext]_vars, NEW k \in Slots, PhaseOf(k),
           phase'[k] = phase[k], taken'[Down(k)] = taken[Down(k)]
    PROVE  PhaseOf(k)'
<1>1. /\ stage # "game" => stage' # "game"
      /\ ~Alive => ~Alive'
      /\ transport' = transport /\ (behind[Down(k)] => behind'[Down(k)])
  BY StageOnly, BehindStays, Links
<1> QED BY <1>1 DEF PhaseOf, Keeping

\* What client k takes from its stream while it keeps pace is the next message,
\* of which DownInv says the type.
LEMMA PhaseReceive ==
    ASSUME LinkInv, DownInv, NEW k \in Slots, PhaseOf(k), NEW n, Receive(k, n)
    PROVE  PhaseOf(k)'
<1> DEFINE c == Down(k)
           h == Head(Queue(c, n))
           m == MsgOf(h)
<1>1. /\ phase[k] \in {"lobby", "playing"} /\ ReadData(c, n, Queue(c, n)) /\ stage' = stage
      /\ IF h.whole THEN Understand(k, m) ELSE Misunderstand(k)
  BY DEF Receive, Listening, ReadData, mainVars
<1>2. TypeOK /\ LinkTypes /\ c \in Conns /\ taken[c] \in Nat /\ Openers \in Nat \ {0}
  BY Links, OpeningFacts DEF LinkInv, IInv, TypeOK
<1>3. /\ h.conn \in Conns /\ ReaderOf[h.conn] = ReaderOf[c]
      /\ h.msg \in 1 .. Len(sent[h.conn])
      /\ taken' = [taken EXCEPT ![h.conn] = h.msg]
      /\ behind[c] => behind'[c]
      /\ h.conn = c /\ ~behind'[c] => h.whole /\ h.msg = taken[c] + 1
  BY <1>1, <1>2, ReadFacts DEF LinkInv
<1>4. h.conn = c
  BY <1>3, Links
<1> SUFFICES ASSUME ~behind'[c]
             PROVE  /\ phase'[k] = "lobby" => taken'[c] < Openers
                    /\ phase'[k] = "playing" => taken'[c] >= Openers
                    /\ phase'[k] \in {"won", "lost"} => stage' # "game"
                    /\ phase'[k] # "dead"
  BY DEF PhaseOf, Keeping
<1>5. /\ Understand(k, m) /\ m = sent[c][taken[c] + 1].msg /\ taken[c] + 1 \in 1 .. Len(sent[c])
      /\ taken'[c] = taken[c] + 1
  BY <1>1, <1>2, <1>3, <1>4 DEF MsgOf, TypeOK
<1>6. /\ phase[k] = "lobby" => taken[c] < Openers
      /\ phase[k] = "playing" => taken[c] >= Openers
  BY <1>3 DEF PhaseOf, Keeping
<1>7. /\ taken[c] + 1 < Openers => m.type = "PLAYER"
      /\ taken[c] + 1 = Openers => m.type = "BOOLEAN"
      /\ taken[c] + 1 > Openers /\ m.type = "BOOLEAN" => stage # "game"
  BY <1>5 DEF DownInv
<1> HIDE DEF c, h, m
<1>8. \/ m.type # "BOOLEAN" /\ phase' = phase
      \/ m.type = "BOOLEAN" /\ phase'[k] = IF phase[k] = "lobby" THEN "playing"
                                           ELSE IF Read[m] = 1 THEN "won" ELSE "lost"
  BY <1>2, <1>5 DEF Understand, ReadPlayer, Enter, Told, LinkTypes
<1> QED BY <1>1, <1>2, <1>5, <1>6, <1>7, <1>8

\* A read without a terminator takes a part of a message, which is to fall
\* behind, unless the server has gone.
LEMMA PhaseNothing ==
    ASSUME LinkInv, [LinkNext]_vars, NEW k \in Slots, NEW n, ReceiveNothing(k, n)
    PROVE  PhaseOf(k)'
<1> DEFINE c == Down(k)
<1>1. /\ TypeOK /\ LinkTypes /\ c \in Conns /\ ReadNothing(c, n) /\ phase'[k] = "dead"
      /\ (n = 0 => ~Alive)
  BY Links DEF LinkInv, IInv, ReceiveNothing, Enter, LinkTypes
<1>2. /\ ~Alive => ~Alive'
      /\ transport' = transport
  BY <1>1, StageOnly, BehindStays
<1>3. CASE Reading(c, n) /\ Pieces(c, n) = <<>>
  <2>1. n \in ReadSizes(c) /\ behind' = [behind EXCEPT ![c] = @ \/ n < Waiting(c)]
    BY <1>1, <1>3 DEF ReadNothing, Reading
  <2>2. n < Waiting(c)
    BY <1>1, <1>3, <2>1, NoPieces DEF LinkInv
  <2>3. behind'[c]
    BY <1>1, <2>1, <2>2 DEF TypeOK
  <2> QED BY <2>3 DEF PhaseOf, Keeping
<1>4. CASE n = 0 /\ transport = "socket"
  BY <1>1, <1>2, <1>4 DEF PhaseOf
<1> QED BY <1>1, <1>3, <1>4 DEF ReadNothing

\* What a client that keeps pace does with the next message of its stream.
LEMMA PhaseStep ==
    ASSUME LinkInv, DownInv, PhaseInv, [LinkNext]_vars
    PROVE  PhaseInv'
<1>1. LinkTypes /\ TypeOK /\ \A j \in Slots : PhaseOf(j)
  BY DEF LinkInv, IInv, PhaseInv
<1>2. ASSUME phase' = phase, \A j \in Slots : taken'[Down(j)] = taken[Down(j)] PROVE PhaseInv'
  BY <1>1, <1>2, PhaseStays DEF PhaseInv
<1>3. CASE Main
  <2>1. phase' = phase /\ taken' = taken
    BY <1>1, <1>3, MainFacts DEF clientVars, streamVars, WriteTo, Send
  <2> QED BY <1>2, <2>1
<1>4. CASE Mover
  <2>1. phase' = phase
    BY <1>1, <1>4, MoverFacts DEF clientVars
  <2>2. CASE Free \/ \E k \in Slots : NotifyOne(k) \/ \E n : ServeNothing(k, n)
    <3>1. taken' = taken
      BY <2>2 DEF Free, NotifyOne, ServeNothing, Send, ReadNothing, streamVars
    <3> QED BY <1>2, <2>1, <3>1
  <2>3. ASSUME NEW k \in Slots, NEW n, Serve(k, n) PROVE PhaseInv'
    <3> DEFINE h == Head(Queue(Up(k), n))
    <3>1. ReadData(Up(k), n, Queue(Up(k), n)) /\ Up(k) \in Conns
      BY <2>3, Links DEF Serve
    <3>2. ReaderOf[h.conn] = ReaderOf[Up(k)] /\ taken' = [taken EXCEPT ![h.conn] = h.msg]
      BY <1>1, <3>1, ReadFacts DEF LinkInv
    <3>3. \A j \in Slots : Down(j) # h.conn
      BY <3>2, Links
    <3>4. \A j \in Slots : taken'[Down(j)] = taken[Down(j)]
      BY <1>1, <3>2, <3>3, Links DEF TypeOK
    <3> QED BY <1>2, <2>1, <3>4
  <2> QED BY <1>1, <1>4, <2>2, <2>3, MoverFacts
<1>5. ASSUME NEW k \in Slots, Reader(k) \/ Press(k) \/ Leave(k) PROVE PhaseInv'
  <2>1. /\ \A j \in Slots \ {k} : phase'[j] = phase[j]
        /\ stage' = stage /\ phase[k] \notin Closed
    BY <1>1, <1>5, ClientFacts DEF LinkTypes, mainVars
  <2>2. \A j \in Slots \ {k} : taken'[Down(j)] = taken[Down(j)]
    <3>1. CASE taken' = taken
      BY <3>1
    <3>2. ASSUME NEW n, Receive(k, n) PROVE \A j \in Slots \ {k} : taken'[Down(j)] = taken[Down(j)]
      <4> DEFINE h == Head(Queue(Down(k), n))
      <4>1. ReadData(Down(k), n, Queue(Down(k), n)) /\ Down(k) \in Conns
        BY <3>2, Links DEF Receive, ReadData
      <4>2. ReaderOf[h.conn] = ReaderOf[Down(k)] /\ taken' = [taken EXCEPT ![h.conn] = h.msg]
        BY <1>1, <4>1, ReadFacts DEF LinkInv
      <4>3. \A j \in Slots \ {k} : Down(j) # h.conn
        BY <4>2, Links
      <4> QED BY <1>1, <4>2, <4>3, Links DEF TypeOK
    <3> QED BY <1>1, <1>5, <3>1, <3>2, ClientFacts DEF ReceiveNothing, ReadNothing, Send, streamVars
  <2>3. PhaseOf(k)'
    <3>1. CASE \E n : Receive(k, n)
      BY <1>1, <3>1, PhaseReceive
    <3>2. CASE \E n : ReceiveNothing(k, n)
      BY <3>2, PhaseNothing
    <3>3. CASE phase'[k] \in {"quit", "gone"}
      BY <3>3 DEF PhaseOf
    <3>4. CASE phase' = phase /\ \E m \in {Message("POINT", 0), Bye} : Send(Up(k), m)
      BY <1>1, <3>4, PhaseStays DEF Send
    <3>5. CASE UNCHANGED streamVars /\ transport = "socket" /\ phase'[k] = "dead" /\ ~Alive
      BY <2>1, <3>5 DEF PhaseOf, Alive, streamVars
    <3> QED BY <1>1, <1>5, <3>1, <3>2, <3>3, <3>4, <3>5, ClientFacts
  <2>4. \A j \in Slots \ {k} : PhaseOf(j)'
    BY <1>1, <2>1, <2>2, PhaseStays
  <2> QED BY <2>3, <2>4 DEF PhaseInv
<1>6. CASE UNCHANGED vars
  BY <1>2, <1>6 DEF vars, clientVars, streamVars
<1> QED BY <1>3, <1>4, <1>5, <1>6 DEF LinkNext

\* The three parts hold together.
LEMMA EndStep ==
    ASSUME LinkInv, EndInv, [LinkNext]_vars
    PROVE  EndInv'
BY DownStep, TodoStep, PhaseStep DEF EndInv
-----------------------------------------------------------------------------
(* What a client that keeps pace reads.                                    *)

\* What has been announced, as characters, if no name has a separator in it.
LEMMA FieldsAre ==
    ASSUME NEW i \in 1 .. Len(Announced), Plain(Announced[i].name)
    PROVE  /\ Fields[i] = [nombre |-> Announced[i].name, num |-> Digits[Announced[i].num],
                           num2 |-> Digits[Announced[i].score], num3 |-> Digits[Announced[i].ready]]
           /\ \A f \in DOMAIN Blank : Fields[i][f] \in Seq(Chars(Letters))
           /\ Len(Digits[Announced[i].ready]) = 1
           /\ unmarshPlayer(Fields[i]) = Announced[i]
<1> DEFINE p == Announced[i]
           m == Message("PLAYER", i)
           F == [nombre |-> p.name, num |-> Digits[p.num], num2 |-> Digits[p.score], num3 |-> Digits[p.ready]]
<1>1. i \in DOMAIN Announced /\ p \in [name : Seq(Letters), num : Nat, score : Nat, ready : {0, 1}]
  BY LinkAssumption, StructsAssumption
<1>2. m \in LinkMessages /\ m # Bye /\ m.type = "PLAYER" /\ m.of = i
  BY <1>1, LinkAssumption DEF LinkMessages, Message, Bye
<1>3. Data[m] = marshalling(p, "PLAYER")
  BY <1>2 DEF Data, Struct
<1>4. Fields[i] = PlayerFields(marshalling(p, "PLAYER"))
  BY <1>1, <1>3 DEF Fields
<1>5. p \in Structs("PLAYER", Letters)
  BY <1>1 DEF Structs
<1> HIDE DEF p
<1>6. Fields[i] = F /\ unmarshPlayer(Fields[i]) = p
  BY <1>4, <1>5, PlayerFieldsAre, PlayerIsRead
<1>7. /\ p.name \in Seq(Chars(Letters)) /\ Digits[p.num] \in Seq(Chars(Letters))
      /\ Digits[p.score] \in Seq(Chars(Letters)) /\ Digits[p.ready] \in Seq(Chars(Letters))
  <2>1. Letters \subseteq Chars(Letters)
    BY DEF Chars
  <2>2. p.name \in Seq(Letters) /\ p.num \in Nat /\ p.score \in Nat /\ p.ready \in Nat
    BY <1>1
  <2> QED BY <2>1, <2>2, SeqMonotonic, DigitsPlain
<1>8. Digits[p.ready] = <<p.ready>>
  BY <1>1, DigitsDefined
<1>9. \A f \in DOMAIN Blank : F[f] \in Seq(Chars(Letters))
  BY <1>7 DEF Blank
<1> QED BY <1>6, <1>8, <1>9 DEF p

\* No name up to the n-th has a separator.
PlainUpTo(n) == \A j \in 1 .. n : Plain(Announced[j].name)

\* Before the i-th announcement a reader's buffers hold no more than earlier ones did.
Filled(buffer, n) ==
    PlainUpTo(n) => \A f \in DOMAIN Blank :
        /\ buffer[f] \in Seq(Chars(Letters))
        /\ Len(buffer[f]) = 0 \/ \E j \in 1 .. n : Len(buffer[f]) <= Len(Fields[j][f])

\* The n-th announcement is as long as each earlier one.
Fitting(n) == PlainUpTo(n) /\ \A j \in 1 .. n - 1 : FitsOver(Announced[n], Announced[j])

\* One more announcement leaves no more, and is read right if it covers what there is.
LEMMA OneMore ==
    ASSUME NEW i \in 1 .. Len(Announced), NEW old, Filled(old, i - 1),
           NEW b, b = PlayerBuffers(Fields[i], old)
    PROVE  Filled(b, i) /\ (Fitting(i) => unmarshPlayer(b) = Announced[i])
<1> DEFINE D == Chars(Letters)
<1>1. Len(Announced) \in Nat
  BY LinkAssumption
<1> SUFFICES ASSUME PlainUpTo(i)
             PROVE  /\ \A f \in DOMAIN Blank :
                          /\ b[f] \in Seq(D)
                          /\ \E j \in 1 .. i : Len(b[f]) <= Len(Fields[j][f])
                    /\ Fitting(i) => unmarshPlayer(b) = Announced[i]
  BY Zenon DEF Filled, Fitting
<1>2. /\ \A j \in 1 .. i : j \in 1 .. Len(Announced) /\ Plain(Announced[j].name)
      /\ PlainUpTo(i - 1)
  BY <1>1 DEF PlainUpTo
<1>3. \A j \in 1 .. i : /\ Fields[j] = [nombre |-> Announced[j].name, num |-> Digits[Announced[j].num],
                                        num2 |-> Digits[Announced[j].score], num3 |-> Digits[Announced[j].ready]]
                        /\ \A f \in DOMAIN Blank : Fields[j][f] \in Seq(D)
                        /\ Len(Digits[Announced[j].ready]) = 1
                        /\ unmarshPlayer(Fields[j]) = Announced[j]
  BY <1>2, FieldsAre
<1>4. i \in 1 .. i /\ DOMAIN Fields[i] = DOMAIN Blank /\ Fields[i] = [f \in DOMAIN Blank |-> Fields[i][f]]
  <2>1. i \in 1 .. i
    BY <1>1
  <2>2. Fields[i] = [nombre |-> Announced[i].name, num |-> Digits[Announced[i].num],
                     num2 |-> Digits[Announced[i].score], num3 |-> Digits[Announced[i].ready]]
    BY <1>3, <2>1
  <2> QED BY <2>1, <2>2 DEF Blank
<1>10. \A j \in 1 .. i : /\ Fields[j]["nombre"] = Announced[j].name
                         /\ Fields[j]["num"] = Digits[Announced[j].num]
                         /\ Fields[j]["num2"] = Digits[Announced[j].score]
                         /\ Len(Fields[j]["num3"]) = 1
  <2> SUFFICES ASSUME NEW j \in 1 .. i
               PROVE  /\ Fields[j]["nombre"] = Announced[j].name
                      /\ Fields[j]["num"] = Digits[Announced[j].num]
                      /\ Fields[j]["num2"] = Digits[Announced[j].score]
                      /\ Len(Fields[j]["num3"]) = 1
    OBVIOUS
  <2>1. Fields[j] = [nombre |-> Announced[j].name, num |-> Digits[Announced[j].num],
                     num2 |-> Digits[Announced[j].score], num3 |-> Digits[Announced[j].ready]]
    BY <1>3
  <2> QED BY <1>3, <2>1
<1>5. \A f \in DOMAIN Blank :
          /\ old[f] \in Seq(D) /\ Len(old[f]) \in Nat
          /\ Len(old[f]) = 0 \/ \E j \in 1 .. i - 1 : Len(old[f]) <= Len(Fields[j][f])
  BY <1>2, LenProperties DEF Filled
<1>6. \A f \in DOMAIN Blank : b[f] = Over(Fields[i][f], old[f])
  BY <1>4 DEF PlayerBuffers
<1>7. \A f \in DOMAIN Blank : Fields[i][f] \in Seq(D) /\ Len(Fields[i][f]) \in Nat
  BY <1>3, <1>4, LenProperties
<1>8. ASSUME NEW f \in DOMAIN Blank
      PROVE  b[f] \in Seq(D) /\ \E j \in 1 .. i : Len(b[f]) <= Len(Fields[j][f])
  <2>1. /\ b[f] \in Seq(D)
        /\ Len(b[f]) = IF Len(old[f]) <= Len(Fields[i][f]) THEN Len(Fields[i][f]) ELSE Len(old[f])
    <3> DEFINE s == Fields[i][f]
               o == old[f]
    <3>1. s \in Seq(D) /\ o \in Seq(D) /\ b[f] = Over(s, o)
      BY <1>5, <1>6, <1>7
    <3> HIDE DEF s, o, D
    <3>2. Over(s, o) \in Seq(D) /\ Len(Over(s, o)) = IF Len(o) <= Len(s) THEN Len(s) ELSE Len(o)
      BY <3>1, OverLength
    <3> QED BY <3>1, <3>2 DEF s, o
  <2>2. CASE Len(old[f]) <= Len(Fields[i][f])
    BY <1>4, <1>7, <2>1, <2>2
  <2>3. CASE ~ (Len(old[f]) <= Len(Fields[i][f]))
    <3>1. Len(old[f]) # 0 /\ Len(b[f]) = Len(old[f])
      BY <1>7, <2>1, <2>3
    <3>2. PICK j \in 1 .. i - 1 : Len(old[f]) <= Len(Fields[j][f])
      BY <1>5, <3>1
    <3>3. j \in 1 .. i
      OBVIOUS
    <3> QED BY <2>1, <3>1, <3>2, <3>3
  <2> QED BY <2>2, <2>3
<1>9. ASSUME Fitting(i) PROVE unmarshPlayer(b) = Announced[i]
  <2>1. \A j \in 1 .. i - 1 : \A f \in DOMAIN Blank : Len(Fields[j][f]) <= Len(Fields[i][f])
    <3> SUFFICES ASSUME NEW j \in 1 .. i - 1, NEW f \in DOMAIN Blank
                 PROVE  Len(Fields[j][f]) <= Len(Fields[i][f])
      OBVIOUS
    <3>1. j \in 1 .. i /\ FitsOver(Announced[i], Announced[j])
      BY <1>9 DEF Fitting
    <3>2. Len(Fields[j][f]) \in Nat
      BY <1>3, <3>1, LenProperties
    <3>3. f \in {"nombre", "num", "num2", "num3"}
      BY DEF Blank
    <3>4. CASE f = "nombre"
      BY <1>4, <1>7, <1>10, <3>1, <3>2, <3>4 DEF FitsOver
    <3>5. CASE f = "num"
      BY <1>4, <1>7, <1>10, <3>1, <3>2, <3>5 DEF FitsOver
    <3>6. CASE f = "num2"
      BY <1>4, <1>7, <1>10, <3>1, <3>2, <3>6 DEF FitsOver
    <3>7. CASE f = "num3"
      BY <1>4, <1>10, <3>1, <3>7
    <3> QED BY <3>3, <3>4, <3>5, <3>6, <3>7
  <2>2. \A f \in DOMAIN Blank : Len(old[f]) <= Len(Fields[i][f])
    <3> SUFFICES ASSUME NEW f \in DOMAIN Blank PROVE Len(old[f]) <= Len(Fields[i][f])
      OBVIOUS
    <3>1. CASE Len(old[f]) = 0
      BY <1>7, <3>1
    <3>2. ASSUME NEW j \in 1 .. i - 1, Len(old[f]) <= Len(Fields[j][f])
          PROVE  Len(old[f]) <= Len(Fields[i][f])
      <4>1. j \in 1 .. i /\ Len(Fields[j][f]) \in Nat
        BY <1>3, LenProperties
      <4>2. Len(Fields[j][f]) <= Len(Fields[i][f])
        BY <2>1
      <4>3. Len(old[f]) \in Nat /\ Len(Fields[i][f]) \in Nat
        BY <1>5, <1>7
      <4>4. \A x, y, z \in Nat : x <= y /\ y <= z => x <= z
        OBVIOUS
      <4> QED BY <3>2, <4>1, <4>2, <4>3, <4>4, Zenon
    <3> QED BY <1>5, <3>1, <3>2
  <2>3. \A f \in DOMAIN Blank : Over(Fields[i][f], old[f]) = Fields[i][f]
    BY <1>5, <1>7, <2>2, OverAll
  <2>4. b = Fields[i]
    <3>1. b = [f \in DOMAIN Blank |-> Over(Fields[i][f], old[f])]
      BY <1>4 DEF PlayerBuffers
    <3> QED BY <1>4, <2>3, <3>1
  <2> QED BY <1>3, <1>4, <2>4
<1> QED BY <1>8, <1>9

\* Nothing that has been written changes.
LEMMA StreamsGrow ==
    ASSUME LinkInv, [LinkNext]_vars, NEW c \in Conns
    PROVE  /\ Len(sent[c]) \in Nat /\ Len(sent'[c]) \in Nat /\ Len(sent'[c]) >= Len(sent[c])
           /\ \A i \in 1 .. Len(sent[c]) : sent'[c][i] = sent[c][i]
<1>1. TypeOK /\ StreamMove /\ Len(sent[c]) \in Nat
  BY LinkMoves, LenProperties DEF LinkInv, IInv, TypeOK
<1>2. CASE sent' = sent
  BY <1>1, <1>2
<1>3. ASSUME NEW d \in Conns, NEW m \in Messages, Send(d, m)
      PROVE  /\ Len(sent'[c]) \in Nat /\ Len(sent'[c]) >= Len(sent[c])
             /\ \A i \in 1 .. Len(sent[c]) : sent'[c][i] = sent[c][i]
  <2>1. CASE c = d
    BY <1>1, <1>3, <2>1, SendFacts
  <2>2. CASE c # d
    BY <1>1, <1>3, <2>2, SendFacts
  <2> QED BY <2>1, <2>2
<1> QED BY <1>1, <1>2, <1>3 DEF StreamMove, ReadData, ReadNothing, streamVars

\* The announcements are what a client is sent first.
OpenedInv == \A k \in Slots :
    /\ Len(sent[Down(k)]) >= Len(Announced)
    /\ \A i \in 1 .. Len(Announced) : sent[Down(k)][i].msg = Message("PLAYER", i)

\* And stay that.
LEMMA OpenedStep ==
    ASSUME LinkInv, OpenedInv, [LinkNext]_vars
    PROVE  OpenedInv'
<1> SUFFICES ASSUME NEW k \in Slots
             PROVE  /\ Len(sent'[Down(k)]) >= Len(Announced)
                    /\ \A i \in 1 .. Len(Announced) : sent'[Down(k)][i].msg = Message("PLAYER", i)
  BY DEF OpenedInv
<1> DEFINE c == Down(k)
<1>1. c \in Conns /\ Len(Announced) \in Nat
  BY Links, LinkAssumption
<1>2. /\ Len(sent[c]) \in Nat /\ Len(sent'[c]) \in Nat /\ Len(sent'[c]) >= Len(sent[c])
      /\ \A i \in 1 .. Len(sent[c]) : sent'[c][i] = sent[c][i]
  BY <1>1, StreamsGrow
<1>3. /\ Len(sent[c]) >= Len(Announced)
      /\ \A i \in 1 .. Len(Announced) : sent[c][i].msg = Message("PLAYER", i)
  BY DEF OpenedInv
<1> HIDE DEF c
<1>4. \A i \in 1 .. Len(Announced) : i \in 1 .. Len(sent[c])
  BY <1>1, <1>2, <1>3
<1> QED BY <1>1, <1>2, <1>3, <1>4 DEF c

\* Only its own reading moves a client along its stream.
LEMMA TakenByReceive ==
    ASSUME LinkInv, [LinkNext]_vars, NEW k \in Slots
    PROVE  taken'[Down(k)] = taken[Down(k)] \/ \E n : Receive(k, n)
<1>1. LinkTypes /\ TypeOK
  BY DEF LinkInv, IInv
<1>2. CASE Main
  BY <1>1, <1>2, MainFacts DEF streamVars, WriteTo, Send
<1>3. CASE Mover
  <2>1. CASE Free \/ \E j \in Slots : NotifyOne(j) \/ \E n : ServeNothing(j, n)
    BY <2>1 DEF Free, NotifyOne, ServeNothing, Send, ReadNothing, streamVars
  <2>2. ASSUME NEW j \in Slots, NEW n, Serve(j, n) PROVE taken'[Down(k)] = taken[Down(k)]
    <3> DEFINE h == Head(Queue(Up(j), n))
    <3>1. ReadData(Up(j), n, Queue(Up(j), n)) /\ Up(j) \in Conns
      BY <2>2, Links DEF Serve
    <3>2. ReaderOf[h.conn] = ReaderOf[Up(j)] /\ taken' = [taken EXCEPT ![h.conn] = h.msg]
      BY <1>1, <3>1, ReadFacts DEF LinkInv
    <3>3. Down(k) # h.conn
      BY <3>2, Links
    <3> QED BY <1>1, <3>2, <3>3, Links DEF TypeOK
  <2> QED BY <1>1, <1>3, <2>1, <2>2, MoverFacts
<1>4. ASSUME NEW j \in Slots, Reader(j) \/ Press(j) \/ Leave(j)
      PROVE  taken'[Down(k)] = taken[Down(k)] \/ \E n : Receive(k, n)
  <2>1. CASE taken' = taken
    BY <2>1
  <2>2. ASSUME NEW n, Receive(j, n) PROVE taken'[Down(k)] = taken[Down(k)] \/ \E i : Receive(k, i)
    <3>1. CASE j = k
      BY <2>2, <3>1
    <3>2. CASE j # k
      <4> DEFINE h == Head(Queue(Down(j), n))
      <4>1. ReadData(Down(j), n, Queue(Down(j), n)) /\ Down(j) \in Conns
        BY <2>2, Links DEF Receive, ReadData
      <4>2. ReaderOf[h.conn] = ReaderOf[Down(j)] /\ taken' = [taken EXCEPT ![h.conn] = h.msg]
        BY <1>1, <4>1, ReadFacts DEF LinkInv
      <4>3. Down(k) # h.conn
        BY <3>2, <4>2, Links
      <4> QED BY <1>1, <4>2, <4>3, Links DEF TypeOK
    <3> QED BY <3>1, <3>2
  <2> QED BY <1>1, <1>4, <2>1, <2>2, ClientFacts DEF ReceiveNothing, ReadNothing, Send, streamVars
<1> QED BY <1>2, <1>3, <1>4 DEF LinkNext, vars, streamVars

\* What a client has read in the lobby is as many announcements as it has taken from
\* its stream, each as it was made if it fits; and what is on its screen is a board.
ReaderInv(k) ==
    /\ phase[k] # "lobby" => players[k] = <<>>
    /\ shown[k] \in {0} \cup 1 .. Len(Boards)
    /\ Keeping(k) /\ phase[k] = "lobby" =>
          /\ taken[Down(k)] = Len(players[k]) /\ \E S : players[k] \in Seq(S)
          /\ Filled(buffers[k], Len(players[k]))
          /\ \A i \in 1 .. Len(players[k]) : Fitting(i) => players[k][i] = Announced[i]

\* The variables of the clients.
ClientSlots == DOMAIN buffers = Slots /\ DOMAIN players = Slots /\ DOMAIN shown = Slots

ReadersInv == ClientSlots /\ \A k \in Slots : ReaderInv(k)

\* A step changes nothing of a client, but for its own, which is one of these.
LEMMA OwnSteps ==
    ASSUME LinkInv, ClientSlots, [LinkNext]_vars
    PROVE  /\ ClientSlots'
           /\ \A k \in Slots :
                 \/ /\ phase'[k] = phase[k] /\ buffers'[k] = buffers[k]
                    /\ players'[k] = players[k] /\ shown'[k] = shown[k]
                 \/ \E n : Receive(k, n)
                 \/ phase'[k] \in Closed /\ players'[k] = <<>> /\ shown'[k] = 0
<1>1. LinkTypes /\ TypeOK
  BY DEF LinkInv, IInv
<1>2. CASE UNCHANGED clientVars
  BY <1>2 DEF clientVars, ClientSlots
<1>3. ASSUME NEW j \in Slots, NEW p, Enter(j, p)
      PROVE  /\ ClientSlots'
             /\ \A i \in Slots \ {j} : /\ phase'[i] = phase[i] /\ buffers'[i] = buffers[i]
                                       /\ players'[i] = players[i] /\ shown'[i] = shown[i]
             /\ p # phase[j] => phase'[j] = p /\ players'[j] = <<>> /\ shown'[j] = 0
  BY <1>1, <1>3 DEF Enter, LinkTypes, ClientSlots
<1>4. ASSUME NEW j \in Slots, NEW m, Understand(j, m)
      PROVE  /\ ClientSlots'
             /\ \A i \in Slots \ {j} : /\ phase'[i] = phase[i] /\ buffers'[i] = buffers[i]
                                       /\ players'[i] = players[i] /\ shown'[i] = shown[i]
  <2>1. CASE \E i : ReadPlayer(j, i)
    BY <2>1 DEF ReadPlayer, ClientSlots
  <2>2. CASE \E i : shown' = [shown EXCEPT ![j] = i] /\ UNCHANGED <<phase, buffers, players>>
    BY <2>2 DEF ClientSlots
  <2> QED BY <1>2, <1>3, <1>4, <2>1, <2>2 DEF Understand, clientVars
<1>5. ASSUME NEW j \in Slots, NEW n, Receive(j, n)
      PROVE  /\ ClientSlots'
             /\ \A i \in Slots \ {j} : /\ phase'[i] = phase[i] /\ buffers'[i] = buffers[i]
                                       /\ players'[i] = players[i] /\ shown'[i] = shown[i]
  <2>1. (\E m : Understand(j, m)) \/ Misunderstand(j)
    BY <1>5 DEF Receive
  <2> QED BY <1>3, <1>4, <2>1 DEF Misunderstand
<1>6. ASSUME NEW j \in Slots, Reader(j) \/ Press(j) \/ Leave(j)
      PROVE  \/ \E n : Receive(j, n)
             \/ UNCHANGED clientVars
             \/ \E p \in Closed : Enter(j, p) /\ phase[j] # p
  <2>1. CASE Reader(j)
    BY <2>1 DEF Reader, ReceiveNothing, Listening, Closed
  <2>2. CASE Press(j)
    BY <2>2 DEF Press, Closed
  <2>3. CASE Leave(j)
    BY <2>3 DEF Leave, Closed
  <2> QED BY <1>6, <2>1, <2>2, <2>3
<1>7. ASSUME NEW j \in Slots, Reader(j) \/ Press(j) \/ Leave(j)
      PROVE  /\ ClientSlots'
             /\ \A k \in Slots :
                   \/ /\ phase'[k] = phase[k] /\ buffers'[k] = buffers[k]
                      /\ players'[k] = players[k] /\ shown'[k] = shown[k]
                   \/ \E n : Receive(k, n)
                   \/ phase'[k] \in Closed /\ players'[k] = <<>> /\ shown'[k] = 0
  <2>1. ClientSlots'
    BY <1>2, <1>3, <1>5, <1>6, <1>7
  <2> SUFFICES ASSUME NEW k \in Slots
               PROVE  \/ /\ phase'[k] = phase[k] /\ buffers'[k] = buffers[k]
                         /\ players'[k] = players[k] /\ shown'[k] = shown[k]
                      \/ \E n : Receive(k, n)
                      \/ phase'[k] \in Closed /\ players'[k] = <<>> /\ shown'[k] = 0
    BY <2>1
  <2>2. CASE j = k
    BY <1>2, <1>3, <1>5, <1>6, <1>7, <2>2 DEF clientVars
  <2>3. CASE j # k
    BY <1>2, <1>3, <1>5, <1>6, <1>7, <2>3 DEF clientVars
  <2> QED BY <2>2, <2>3
<1>8. CASE Main \/ Mover \/ UNCHANGED vars
  <2>1. UNCHANGED clientVars
    BY <1>1, <1>8, MainFacts, MoverFacts DEF vars
  <2> QED BY <1>2, <2>1 DEF clientVars
<1> QED BY <1>7, <1>8 DEF LinkNext

\* A message of the lobby that a client which keeps pace takes.
LEMMA LobbyMessage ==
    ASSUME LinkInv, DownInv, OpenedInv, NEW k \in Slots, PhaseOf(k), NEW n, Receive(k, n),
           NEW h, h = Head(Queue(Down(k), n)), ~behind'[Down(k)]
    PROVE  /\ h.whole /\ ~behind[Down(k)] /\ taken'[Down(k)] = taken[Down(k)] + 1 /\ taken[Down(k)] \in Nat
           /\ phase[k] = "lobby" => \/ MsgOf(h).type = "BOOLEAN"
                                    \/ /\ taken[Down(k)] + 1 \in 1 .. Len(Announced)
                                       /\ MsgOf(h) = Message("PLAYER", taken[Down(k)] + 1)
<1> DEFINE c == Down(k)
           t == taken[c]
<1>1. /\ TypeOK /\ c \in Conns /\ t \in Nat /\ Openers = Len(Announced) + 1
      /\ Len(Announced) \in Nat /\ ReadData(c, n, Queue(c, n))
  BY Links, LinkAssumption DEF LinkInv, IInv, TypeOK, Openers, Receive
<1>2. /\ h.conn \in Conns /\ ReaderOf[h.conn] = ReaderOf[c] /\ h.msg \in 1 .. Len(sent[h.conn])
      /\ taken' = [taken EXCEPT ![h.conn] = h.msg]
      /\ behind[c] => behind'[c]
      /\ h.conn = c /\ ~behind'[c] => h.whole /\ h.msg = t + 1
  BY <1>1, ReadFacts DEF LinkInv
<1>3. h.conn = c
  BY <1>2, Links
<1>4. /\ h.whole /\ ~behind[c] /\ taken'[c] = t + 1 /\ t + 1 \in 1 .. Len(sent[c])
      /\ MsgOf(h) = sent[c][t + 1].msg
  BY <1>1, <1>2, <1>3 DEF MsgOf, TypeOK
<1>5. ASSUME phase[k] = "lobby", MsgOf(h).type # "BOOLEAN"
      PROVE  t + 1 \in 1 .. Len(Announced) /\ MsgOf(h) = Message("PLAYER", t + 1)
  <2>1. t < Openers
    BY <1>4, <1>5 DEF PhaseOf, Keeping
  <2>2. t + 1 # Openers
    BY <1>4, <1>5 DEF DownInv
  <2>3. t + 1 \in 1 .. Len(Announced)
    BY <1>1, <2>1, <2>2
  <2> QED BY <1>4, <2>3 DEF OpenedInv
<1> QED BY <1>1, <1>4, <1>5

\* One element more at the end of a sequence of whatever it is.
LEMMA AppendAny ==
    ASSUME NEW s, \E S : s \in Seq(S), NEW e
    PROVE  /\ \E S : Append(s, e) \in Seq(S)
           /\ Len(s) \in Nat /\ Len(Append(s, e)) = Len(s) + 1
           /\ \A i \in 1 .. Len(s) : Append(s, e)[i] = s[i]
           /\ Append(s, e)[Len(s) + 1] = e
<1>1. PICK S : s \in Seq(S)
  OBVIOUS
<1> DEFINE T == S \cup {e}
<1>2. e \in T /\ S \subseteq T
  OBVIOUS
<1> HIDE DEF T
<1>3. s \in Seq(T)
  BY <1>1, <1>2, SeqMonotonic
<1> QED BY <1>2, <1>3, AppendProperties, LenProperties

\* Reading one announcement.
LEMMA ReadPlayerKeeps ==
    ASSUME LinkInv, ClientSlots, NEW k \in Slots, ReaderInv(k), phase[k] = "lobby", Keeping(k),
           NEW i, i = taken[Down(k)] + 1, i \in 1 .. Len(Announced), ReadPlayer(k, i),
           taken'[Down(k)] = taken[Down(k)] + 1
    PROVE  ReaderInv(k)'
<1> DEFINE s == players[k]
<1>1. /\ taken[Down(k)] = Len(s) /\ \E S : s \in Seq(S)
      /\ Filled(buffers[k], Len(s))
      /\ \A j \in 1 .. Len(s) : Fitting(j) => s[j] = Announced[j]
  BY DEF ReaderInv
<1>2. Len(s) \in Nat /\ i = Len(s) + 1 /\ i - 1 = Len(s)
  BY <1>1, AppendAny
<1>3. PICK old \in {Blank, buffers[k]} : \E b \in {PlayerBuffers(Fields[i], old)} :
         /\ players' = [players EXCEPT ![k] = Append(@, unmarshPlayer(b))]
         /\ buffers' = [buffers EXCEPT ![k] = b]
         /\ UNCHANGED <<phase, shown>>
  BY DEF ReadPlayer
<1> DEFINE b == PlayerBuffers(Fields[i], old)
           e == unmarshPlayer(b)
<1>4. players'[k] = Append(s, e) /\ buffers'[k] = b /\ phase'[k] = phase[k] /\ shown'[k] = shown[k]
  BY <1>3 DEF ClientSlots
<1>5. Filled(old, i - 1)
  <2>1. CASE old = Blank
    <3>1. <<>> \in Seq(Chars(Letters)) /\ Len(<<>>) = 0
      BY EmptySeq
    <3>2. \A f \in DOMAIN Blank : old[f] = <<>>
      BY <2>1 DEF Blank
    <3> QED BY <3>1, <3>2 DEF Filled
  <2>2. CASE old = buffers[k]
    BY <1>1, <1>2, <2>2
  <2> QED BY <2>1, <2>2
<1>6. Filled(b, i) /\ (Fitting(i) => e = Announced[i])
  BY <1>5, OneMore
<1> HIDE DEF b, e, s
<1>7. /\ \E S : Append(s, e) \in Seq(S)
      /\ Len(Append(s, e)) = i
      /\ \A j \in 1 .. Len(s) : Append(s, e)[j] = s[j]
      /\ Append(s, e)[i] = e
  <2>1. \E S : s \in Seq(S)
    BY <1>1
  <2>2. /\ \E S : Append(s, e) \in Seq(S)
        /\ Len(Append(s, e)) = Len(s) + 1
        /\ \A j \in 1 .. Len(s) : Append(s, e)[j] = s[j]
        /\ Append(s, e)[Len(s) + 1] = e
    BY <2>1, AppendAny, ZenonT(40)
  <2> QED BY <1>2, <2>2
<1>8. \A j \in 1 .. i : Fitting(j) => Append(s, e)[j] = Announced[j]
  <2> SUFFICES ASSUME NEW j \in 1 .. i, Fitting(j) PROVE Append(s, e)[j] = Announced[j]
    OBVIOUS
  <2>1. CASE j = i
    BY <1>6, <1>7, <2>1
  <2>2. CASE j # i
    <3>1. j \in 1 .. Len(s)
      BY <1>2, <2>2
    <3> QED BY <1>1, <1>7, <3>1
  <2> QED BY <2>1, <2>2
<1> QED BY <1>1, <1>2, <1>4, <1>6, <1>7, <1>8 DEF ReaderInv

\* What a message does to a client.
LEMMA ReaderReceives ==
    ASSUME LinkInv, DownInv, OpenedInv, ClientSlots, NEW k \in Slots, PhaseOf(k), ReaderInv(k),
           NEW n, Receive(k, n)
    PROVE  ReaderInv(k)'
<1> DEFINE h == Head(Queue(Down(k), n))
           m == MsgOf(h)
<1>1. /\ IF h.whole THEN Understand(k, m) ELSE Misunderstand(k)
      /\ phase[k] \in {"lobby", "playing"} /\ ReadData(Down(k), n, Queue(Down(k), n))
  BY DEF Receive, Listening
<1>2. m \in Messages
  <2>1. Down(k) \in Conns /\ TypeOK
    BY Links DEF LinkInv, IInv
  <2>2. h.conn \in Conns /\ h.msg \in 1 .. Len(sent[h.conn])
    BY <1>1, <2>1, ReadFacts DEF LinkInv
  <2> HIDE DEF h
  <2>3. sent[h.conn] \in Seq([msg : Messages, end : Nat])
    BY <2>1, <2>2 DEF TypeOK
  <2>4. sent[h.conn][h.msg] \in [msg : Messages, end : Nat]
    BY <2>2, <2>3, ElementOfSeq
  <2> QED BY <2>4 DEF MsgOf
<1>3. ~behind'[Down(k)] =>
         /\ h.whole /\ Keeping(k) /\ taken'[Down(k)] = taken[Down(k)] + 1 /\ taken[Down(k)] \in Nat
         /\ phase[k] = "lobby" => \/ m.type = "BOOLEAN"
                                  \/ /\ taken[Down(k)] + 1 \in 1 .. Len(Announced)
                                     /\ m = Message("PLAYER", taken[Down(k)] + 1)
  BY LobbyMessage DEF Keeping
<1> HIDE DEF h, m
<1>4. ASSUME NEW q, Enter(k, q), h.whole => q # "lobby" PROVE ReaderInv(k)'
  <2>1. CASE q = phase[k]
    <3>1. UNCHANGED <<phase, buffers, players, shown>>
      BY <1>4, <2>1 DEF Enter, LinkInv, LinkTypes
    <3>2. phase[k] = "lobby" => behind'[Down(k)]
      BY <1>3, <1>4, <2>1
    <3> QED BY <3>1, <3>2 DEF ReaderInv, Keeping
  <2>2. CASE q # phase[k]
    <3>1. phase'[k] = q /\ players'[k] = <<>> /\ shown'[k] = 0 /\ buffers'[k] = Blank
      BY <1>4, <2>2 DEF Enter, ClientSlots, LinkInv, LinkTypes
    <3>2. q = "lobby" => behind'[Down(k)]
      BY <1>3, <1>4
    <3> QED BY <3>1, <3>2 DEF ReaderInv, Keeping
  <2> QED BY <2>1, <2>2
<1>5. CASE ~h.whole
  BY <1>1, <1>4, <1>5 DEF Misunderstand
<1>6. CASE h.whole
  <2>1. CASE m.type = "PLAYER" /\ phase[k] = "lobby" /\ ReadPlayer(k, m.of)
    <3>1. CASE ~behind'[Down(k)]
      <4>1. /\ Keeping(k) /\ taken'[Down(k)] = taken[Down(k)] + 1
            /\ taken[Down(k)] + 1 \in 1 .. Len(Announced) /\ m.of = taken[Down(k)] + 1
        BY <1>3, <2>1, <3>1 DEF Message
      <4> QED BY <2>1, <4>1, ReadPlayerKeeps
    <3>2. CASE behind'[Down(k)]
      BY <2>1, <3>2 DEF ReadPlayer, ReaderInv, Keeping
    <3> QED BY <3>1, <3>2
  <2>2. CASE m.type = "BOOLEAN" /\ Enter(k, Told(k, Read[m]))
    <3>1. Told(k, Read[m]) # "lobby"
      BY DEF Told
    <3> QED BY <1>4, <2>2, <3>1
  <2>3. CASE /\ m.type = "BOARD" /\ phase[k] = "playing"
             /\ shown' = [shown EXCEPT ![k] = m.of] /\ UNCHANGED <<phase, buffers, players>>
    <3>1. m.of \in 1 .. Len(Boards)
      BY <1>2, <2>3, LinkAssumption DEF LinkMessages, Message, Bye
    <3> QED BY <2>3, <3>1 DEF ReaderInv, ClientSlots
  <2>4. CASE /\ \/ m.type = "STRING"
                \/ m.type = "PLAYER" /\ phase[k] = "playing"
                \/ m.type = "BOARD" /\ phase[k] = "lobby"
             /\ UNCHANGED <<phase, buffers, players, shown>>
    <3>1. phase[k] = "lobby" => behind'[Down(k)]
      BY <1>3, <2>4 DEF Message
    <3> QED BY <2>4, <3>1 DEF ReaderInv, Keeping
  <2> QED BY <1>1, <1>6, <2>1, <2>2, <2>3, <2>4 DEF Understand
<1> QED BY <1>5, <1>6

\* What any step does to a client.
LEMMA ReadersStep ==
    ASSUME LinkInv, EndInv, OpenedInv, ReadersInv, [LinkNext]_vars
    PROVE  ReadersInv'
<1>0. ClientSlots /\ ClientSlots'
  BY OwnSteps DEF ReadersInv
<1> SUFFICES ASSUME NEW k \in Slots PROVE ReaderInv(k)'
  BY <1>0 DEF ReadersInv
<1>1. ClientSlots /\ ReaderInv(k) /\ PhaseOf(k) /\ DownInv
  BY DEF ReadersInv, EndInv, PhaseInv
<1>2. CASE \E n : Receive(k, n)
  BY <1>1, <1>2, ReaderReceives
<1>3. CASE ~ \E n : Receive(k, n)
  <2>1. taken'[Down(k)] = taken[Down(k)] /\ (behind[Down(k)] => behind'[Down(k)])
    BY <1>3, TakenByReceive, BehindStays, Links
  <2>2. \/ /\ phase'[k] = phase[k] /\ buffers'[k] = buffers[k]
           /\ players'[k] = players[k] /\ shown'[k] = shown[k]
        \/ phase'[k] \in Closed /\ players'[k] = <<>> /\ shown'[k] = 0
    BY <1>1, <1>3, OwnSteps
  <2> QED BY <1>1, <2>1, <2>2 DEF ReaderInv, Keeping, Closed
<1> QED BY <1>2, <1>3

-----------------------------------------------------------------------------
(* The states in which initGame begins.                                    *)

\* The clients have sent nothing yet, and read nothing of what the lobby sent.
LEMMA LinkInitStreams ==
    ASSUME LinkInit
    PROVE  /\ SourceInv /\ UpInv
           /\ \A k \in Slots : sent[Down(k)] = Stream(Opening) /\ taken[Down(k)] = 0
<1>1. \A k \in Slots : /\ sent[Up(k)] = <<>> /\ sent[Down(k)] = Stream(Opening)
                       /\ taken[Down(k)] = 0
  BY Links DEF LinkInit
<1>2. SourceInv
  BY Links DEF LinkInit, SourceInv, RequestIsOwn
<1>3. UpInv
  BY <1>1 DEF UpInv
<1> QED BY <1>1, <1>2, <1>3

\* All clients are before the message that starts the game.
LEMMA LinkInitEnd ==
    ASSUME LinkInit
    PROVE  EndInv
<1> DEFINE N == Len(Opening)
<1>1. /\ N = Openers /\ Openers \in Nat \ {0} /\ DOMAIN Opening = 1 .. N
      /\ \A i \in 1 .. N : /\ i < Openers => Opening[i].type = "PLAYER"
                           /\ i = Openers => Opening[i].type = "BOOLEAN"
  <2>1. Opening \in Seq(Messages) /\ N = Len(Announced) + 1 /\ Len(Announced) \in Nat
    BY OpeningFacts, LinkAssumption DEF Openers
  <2>2. DOMAIN Opening = 1 .. N
    BY <2>1, LenProperties
  <2> QED BY <2>1, <2>2, OpeningFacts DEF Openers
<1>2. Stream(Opening) = [n \in 1 .. N |-> [msg |-> Opening[n], end |-> Ends(Opening)[n]]]
  BY <1>1 DEF Stream
<1> HIDE DEF N
<1>3. Len(Stream(Opening)) = N /\ \A i \in 1 .. N : Stream(Opening)[i].msg = Opening[i]
  BY <1>1, <1>2
<1>4. DownInv
  <2>1. \A k \in Slots : sent[Down(k)] = Stream(Opening)
    BY LinkInitStreams
  <2> QED BY <1>1, <1>3, <2>1 DEF DownInv
<1>5. TodoInv
  BY DEF LinkInit, TodoInv
<1>6. PhaseInv
  <2>1. \A k \in Slots : phase[k] = "lobby" /\ taken[Down(k)] = 0
    <3>1. phase = [k \in Slots |-> "lobby"]
      BY DEF LinkInit
    <3> QED BY <3>1, LinkInitStreams
  <2> QED BY <1>1, <2>1 DEF PhaseInv, PhaseOf
<1> QED BY <1>4, <1>5, <1>6 DEF EndInv

\* Nobody has read anything yet, and what the lobby sent begins with the announcements.
LEMMA LinkInitReaders ==
    ASSUME LinkInit
    PROVE  OpenedInv /\ ReadersInv
<1> DEFINE N == Len(Opening)
<1>1. /\ N = Len(Announced) + 1 /\ Len(Announced) \in Nat /\ DOMAIN Opening = 1 .. N
      /\ \A i \in 1 .. Len(Announced) : Opening[i] = Message("PLAYER", i)
  <2>1. Opening \in Seq(Messages) /\ N = Len(Announced) + 1 /\ Len(Announced) \in Nat
    BY OpeningFacts, LinkAssumption DEF Openers
  <2>2. DOMAIN Opening = 1 .. N
    BY <2>1, LenProperties
  <2> QED BY <2>1, <2>2, OpeningFacts
<1>2. Stream(Opening) = [n \in 1 .. N |-> [msg |-> Opening[n], end |-> Ends(Opening)[n]]]
  BY <1>1 DEF Stream
<1> HIDE DEF N
<1>3. Len(Stream(Opening)) = N /\ \A i \in 1 .. N : Stream(Opening)[i].msg = Opening[i]
  BY <1>1, <1>2
<1>4. OpenedInv
  <2>1. \A k \in Slots : sent[Down(k)] = Stream(Opening)
    BY LinkInitStreams
  <2> QED BY <1>1, <1>3, <2>1 DEF OpenedInv
<1>5. ClientSlots
  BY DEF LinkInit, ClientSlots
<1>6. ASSUME NEW k \in Slots PROVE ReaderInv(k)
  <2>1. /\ phase[k] = "lobby" /\ players[k] = <<>> /\ shown[k] = 0 /\ buffers[k] = Blank
        /\ taken[Down(k)] = 0
    BY LinkInitStreams DEF LinkInit
  <2>2. <<>> \in Seq(Chars(Letters)) /\ Len(<<>>) = 0
    BY EmptySeq
  <2>3. \A f \in DOMAIN Blank : Blank[f] = <<>>
    BY DEF Blank
  <2>4. Filled(buffers[k], 0)
    BY <2>1, <2>2, <2>3 DEF Filled
  <2>5. \E S : players[k] \in Seq(S)
    BY <2>1, <2>2
  <2> QED BY <2>1, <2>2, <2>4, <2>5 DEF ReaderInv
<1> QED BY <1>4, <1>5, <1>6 DEF ReadersInv

\* The parts of the invariant say what the property does.
LEMMA ReadersReadAsSent ==
    ASSUME LinkInv, ReadersInv
    PROVE  ReadAsSent
<1> SUFFICES ASSUME NEW k \in Slots, Keeping(k)
             PROVE  /\ \A i \in DOMAIN players[k] :
                          (/\ \A j \in 1 .. i : Sep \notin Range(Announced[j].name)
                           /\ \A j \in 1 .. i - 1 : FitsOver(Announced[i], Announced[j]))
                              => players[k][i] = Announced[i]
                    /\ shown[k] # 0 => Read[Message("BOARD", shown[k])] = Boards[shown[k]]
  BY DEF ReadAsSent
<1>1. ReaderInv(k)
  BY DEF ReadersInv
<1>2. ASSUME NEW i \in DOMAIN players[k], \A j \in 1 .. i : Sep \notin Range(Announced[j].name),
             \A j \in 1 .. i - 1 : FitsOver(Announced[i], Announced[j])
      PROVE  players[k][i] = Announced[i]
  <2>1. phase[k] = "lobby"
    BY <1>1 DEF ReaderInv
  <2>2. /\ \E S : players[k] \in Seq(S)
        /\ \A n \in 1 .. Len(players[k]) : Fitting(n) => players[k][n] = Announced[n]
        /\ taken[Down(k)] = Len(players[k])
    BY <1>1, <2>1 DEF ReaderInv
  <2>3. i \in 1 .. Len(players[k])
    BY <2>2, LenProperties
  <2>4. \A j \in 1 .. i : Plain(Announced[j].name)
    BY <1>2 DEF Plain, Range
  <2> QED BY <1>2, <2>2, <2>3, <2>4 DEF Fitting, PlainUpTo
<1>3. ASSUME shown[k] # 0 PROVE Read[Message("BOARD", shown[k])] = Boards[shown[k]]
  <2> DEFINE t == shown[k]
             m == Message("BOARD", t)
             b == Boards[t]
  <2>1. t \in DOMAIN Boards
    BY <1>1, <1>3, LinkAssumption DEF ReaderInv
  <2>2. m \in LinkMessages /\ m # Bye /\ m.type = "BOARD" /\ m.of = t
    BY <2>1 DEF LinkMessages, Message, Bye
  <2>3. Read[m] = unmarshalling(marshalling(b, "BOARD"))
    BY <2>2 DEF Read, Data, Struct
  <2>4. b \in Structs("BOARD", 0 .. 9)
    BY <2>1, StructsAssumption DEF Structs
  <2> QED BY <2>3, <2>4, BoardIsRead
<1> QED BY <1>2, <1>3

\* Types of the server and its clients, and what Framing keeps, in every state of
\* the link.
THEOREM LinkInvariant == LinkSpec => []LinkInv
<1>1. LinkInit => LinkInv
  BY LinkInitInv
<1>2. LinkInv /\ [LinkNext]_vars => LinkInv'
  BY LinkStep
<1> QED BY <1>1, <1>2, PTL DEF LinkSpec

\* Whatever threads and players do, a message that the server or a client takes
\* from a stream that every read has emptied is whole, and the next one; and no
\* message is taken twice or lost there (readData, comWrapper.c:7-30).
THEOREM LinkKeepsWhole == LinkSpec => []WholeUnlessBehind
<1>1. LinkInv => WholeUnlessBehind
  BY DEF LinkInv, IInv
<1> QED BY <1>1, LinkInvariant, PTL

\* As long as no read of the server has taken two messages, each request is
\* executed for the client that wrote it (listenToClients, childServer.c:325-360).
THEOREM RequestsAreOwn == LinkSpec => []RequestIsOwn
<1>1. LinkInit => SourceInv
  BY LinkInitStreams
<1>2. LinkInv /\ SourceInv /\ [LinkNext]_vars => SourceInv'
  BY SourceStep
<1>3. SourceInv => RequestIsOwn
  BY DEF SourceInv
<1> QED BY <1>1, <1>2, <1>3, LinkInvariant, PTL DEF LinkSpec

\* The process of the game server ends before the game only on sockets, and only
\* after a client has closed its connection or a message of a client has come in
\* parts: if a request fits into one read.
THEOREM HangUpsKill ==
    ASSUME RequestsFit
    PROVE  LinkSpec => []OnlyHangUpKills
<1>1. LinkInit => KillInv
  BY LinkInitStreams DEF KillInv, LinkInit, OnlyHangUpKills
<1>2. LinkInv /\ KillInv /\ [LinkNext]_vars => KillInv'
  BY KillStep
<1>3. KillInv => OnlyHangUpKills
  BY DEF KillInv
<1> QED BY <1>1, <1>2, <1>3, LinkInvariant, PTL DEF LinkSpec

\* A client that has kept pace takes the BOOLEAN that starts the game for that,
\* and the one that ends it for that; it has a result only when the game is over,
\* and its process dies only after the server's (client.c:92-104).
THEOREM EndTogether == LinkSpec => []EndsWithServer
<1>1. LinkInit => EndInv
  BY LinkInitEnd
<1>2. LinkInv /\ EndInv /\ [LinkNext]_vars => EndInv'
  BY EndStep
<1>3. LinkInv /\ EndInv => EndsWithServer
  BY DEF LinkInv, LinkTypes, EndInv, PhaseInv, PhaseOf, EndsWithServer
<1> QED BY <1>1, <1>2, <1>3, LinkInvariant, PTL DEF LinkSpec

\* A client that has kept pace reads each PLAYER as it was announced, if no name has
\* a separator in it and no earlier one was longer in any field, although it reads
\* them over each other; and every board as it was drawn (unmarshPlayer,
\* unmarshBoard, marshalling.c:75-105, 180-213).
THEOREM ReadsAsSent == LinkSpec => []ReadAsSent
<1>1. LinkInit => EndInv /\ OpenedInv /\ ReadersInv
  BY LinkInitEnd, LinkInitReaders
<1>2. LinkInv /\ EndInv /\ OpenedInv /\ ReadersInv /\ [LinkNext]_vars
          => (EndInv /\ OpenedInv /\ ReadersInv)'
  BY EndStep, OpenedStep, ReadersStep
<1>3. LinkInv /\ ReadersInv => ReadAsSent
  BY ReadersReadAsSent
<1> QED BY <1>1, <1>2, <1>3, LinkInvariant, PTL DEF LinkSpec
=============================================================================
