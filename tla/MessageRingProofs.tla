------------------------- MODULE MessageRingProofs --------------------------
(***************************************************************************)
(* Theorems about MessageRing for any finite set of tasks, one interrupt   *)
(* handler, and any size of ring and length of record: the tokens count    *)
(* the records, and both rings are queues of whole records.                *)
(*                                                                         *)
(* The cursors are read through three constant-level operators: Between,   *)
(* the bytes Stored between two cursors, and the records a sequence of     *)
(* bytes Spells.  Every step either leaves the records of the rings alone, *)
(* publishes one (PublishRecords) or takes the first one (EndRecords).     *)
(***************************************************************************)
EXTENDS MessageRing, Integers, FiniteSetTheorems, SequenceTheorems, TLAPS

Index == 0 .. Size - 1
Cells == [Index -> Byte \cup {None}]

\* The bytes of message m.
BytesOf(m) == [i \in 1 .. Length |-> <<m, i>>]

\* The i-th cell from the cursor a on.
Cell(a, i) == (a + i - 1) % Size

\* What lies in the ring d from the cursor a to the cursor b.
Stored(a, b, d) == [i \in 1 .. Between(a, b) |-> d[Cell(a, i)]]

\* The records of a sequence of bytes: RecordsOf on any sequence.
Split(s) ==
    [k \in 1 .. Len(s) \div Length |-> RecordIn(SubSeq(s, (k - 1) * Length + 1, k * Length))]

\* s is the bytes of the messages q, one after the other.
Spells(s, q) ==
    /\ s \in Seq(Byte) /\ q \in Seq(Message)
    /\ Len(s) = Len(q) * Length
    /\ \A k \in 1 .. Len(q), i \in 1 .. Length : s[(k - 1) * Length + i] = <<q[k], i>>

\* A task is inside the call exactly while it holds the mutex.
WritersStand ==
    /\ \A w \in Sender : pc[w] \in {"check", "copy"} <=> mutex = w
    /\ \A w \in Writer : pc[w] # "idle" => message[w] \in Message

\* From a to b lies what is unread, from b to c the first bytes of message m; the record fits.
Behind(a, b, c, d, m) ==
    /\ Length <= Size - 1 - Between(a, b) /\ Between(b, c) <= Length
    /\ \A i \in 1 .. Between(b, c) : d[Cell(b, i)] = <<m, i>>

\* What a writer has copied lies behind the write cursor, in the free part of its ring.
Copying ==
    \A w \in Writer : pc[w] = "copy" =>
        Behind(read[RingOf(w)], write[RingOf(w)], cursor[w], data[RingOf(w)], message[w])

\* The reader is in a record that is there whole, or it has no byte.
Reading ==
    /\ Len(got) <= Length
    /\ source \notin Ring => got = <<>>
    /\ \A r \in Ring : source = r => Length <= Len(Unread(r))

\* What is unread of a ring is whole records.
Spelled == \A r \in Ring : Spells(Unread(r), RecordsOf(r))

\* The inductive invariant.
IInv == TypeOK /\ WritersStand /\ Copying /\ Reading /\ Spelled /\ TokenPerRecord

-----------------------------------------------------------------------------
(* Arithmetic of the cursors *)

\* A remainder below twice the size takes at most one subtraction.
LEMMA OneTurn ==
    ASSUME NEW x \in Nat, x < 2 * Size
    PROVE  x % Size = IF x < Size THEN x ELSE x - Size
<1>1. Size \in Nat /\ Size > 1  BY SizesAssumption
<1>2. CASE x < Size
  <2>1. x % Size = x  BY <1>1, <1>2
  <2> QED  BY <1>2, <2>1
<1>3. CASE Size <= x
  <2>1. x % Size = x - Size  BY <1>1, <1>3
  <2> QED  BY <1>1, <1>3, <2>1
<1> QED  BY <1>1, <1>2, <1>3

\* The distance between two cursors, without the remainder.
LEMMA BetweenIs ==
    ASSUME NEW a \in Index, NEW b \in Index
    PROVE  /\ Between(a, b) = IF a <= b THEN b - a ELSE b + Size - a
           /\ Between(a, b) \in Index
<1>1. Size \in Nat /\ Size > 1  BY SizesAssumption
<1>2. b + Size - a \in Nat /\ b + Size - a < 2 * Size  BY <1>1 DEF Index
<1>3. PICK x \in Nat : x = b + Size - a  BY <1>2
<1>4. x % Size = IF x < Size THEN x ELSE x - Size  BY <1>2, <1>3, OneTurn
<1> QED  BY <1>1, <1>3, <1>4 DEF Between, Index

\* The i-th cell from a cursor on, without the remainder.
LEMMA CellIs ==
    ASSUME NEW a \in Index, NEW i \in 1 .. Size
    PROVE  /\ Cell(a, i) = IF a + i - 1 < Size THEN a + i - 1 ELSE a + i - 1 - Size
           /\ Cell(a, i) \in Index
<1>1. Size \in Nat /\ Size > 1  BY SizesAssumption
<1>2. a + i - 1 \in Nat /\ a + i - 1 < 2 * Size  BY <1>1 DEF Index
<1>3. PICK x \in Nat : x = a + i - 1  BY <1>2
<1>4. x % Size = IF x < Size THEN x ELSE x - Size  BY <1>2, <1>3, OneTurn
<1> QED  BY <1>1, <1>3, <1>4 DEF Cell, Index

\* The cursor after a, without the remainder.
LEMMA AfterIs ==
    ASSUME NEW a \in Index
    PROVE  /\ After(a) = IF a + 1 < Size THEN a + 1 ELSE 0
           /\ After(a) \in Index
<1>1. Size \in Nat /\ Size > 1  BY SizesAssumption
<1>2. a + 1 \in Nat /\ a + 1 < 2 * Size  BY <1>1 DEF Index
<1>3. PICK x \in Nat : x = a + 1  BY <1>2
<1>4. x % Size = IF x < Size THEN x ELSE x - Size  BY <1>2, <1>3, OneTurn
<1> QED  BY <1>1, <1>3, <1>4 DEF After, Index

\* The bytes stored between two cursors are a sequence.
LEMMA StoredIs ==
    ASSUME NEW a \in Index, NEW b \in Index, NEW d \in Cells
    PROVE  /\ Stored(a, b, d) \in Seq(Byte \cup {None})
           /\ Len(Stored(a, b, d)) = Between(a, b)
           /\ Between(a, b) \in Nat /\ Between(a, b) < Size
           /\ \A i \in 1 .. Between(a, b) :
                 Cell(a, i) \in Index /\ Stored(a, b, d)[i] = d[Cell(a, i)]
<1>1. Size \in Nat /\ Size > 1  BY SizesAssumption
<1>2. Between(a, b) \in 0 .. Size - 1  BY BetweenIs DEF Index
<1>3. \A i \in 1 .. Between(a, b) : i \in 1 .. Size  BY <1>1, <1>2
<1>4. \A i \in 1 .. Between(a, b) : Cell(a, i) \in Index  BY <1>3, CellIs
<1>5. \A i \in 1 .. Between(a, b) : d[Cell(a, i)] \in Byte \cup {None}
  BY <1>4 DEF Cells
<1>6. Between(a, b) \in Nat /\ Between(a, b) < Size  BY <1>1, <1>2
<1>7. Stored(a, b, d) \in [1 .. Between(a, b) -> Byte \cup {None}]
  BY <1>5 DEF Stored
<1>8. Stored(a, b, d) \in Seq(Byte \cup {None}) /\ Len(Stored(a, b, d)) = Between(a, b)
  BY <1>6, <1>7, SeqDef, LenProperties
<1> QED  BY <1>4, <1>6, <1>8 DEF Stored

\* The reader's cursor moves: the first byte is left out.
LEMMA ReadOne ==
    ASSUME NEW a \in Index, NEW b \in Index, NEW d \in Cells, a # b
    PROVE  /\ Between(After(a), b) = Between(a, b) - 1
           /\ Stored(a, b, d) = <<d[a]>> \o Stored(After(a), b, d)
<1>1. Size \in Nat /\ Size > 1  BY SizesAssumption
<1>2. After(a) \in Index /\ After(a) = IF a + 1 < Size THEN a + 1 ELSE 0  BY AfterIs
<1>3. Between(After(a), b) = Between(a, b) - 1
  <2>1. Between(a, b) = IF a <= b THEN b - a ELSE b + Size - a  BY BetweenIs
  <2>2. Between(After(a), b) = IF After(a) <= b THEN b - After(a) ELSE b + Size - After(a)
    BY <1>2, BetweenIs
  <2> QED  BY <1>1, <1>2, <2>1, <2>2 DEF Index
<1>4. d[a] \in Byte \cup {None}  BY DEF Cells
<1> DEFINE s == Stored(a, b, d)
           u == Stored(After(a), b, d)
           t == <<d[a]>> \o u
           B == Byte \cup {None}
<1>5. /\ s \in Seq(B) /\ Len(s) = Between(a, b) /\ Len(s) \in Nat /\ Len(s) < Size
      /\ \A i \in 1 .. Len(s) : s[i] = d[Cell(a, i)]
  BY StoredIs
<1>6. /\ u \in Seq(B) /\ Len(u) = Len(s) - 1
      /\ \A i \in 1 .. Len(u) : u[i] = d[Cell(After(a), i)]
  BY <1>2, <1>3, <1>5, StoredIs
<1>7. <<d[a]>> \in Seq(B) /\ Len(<<d[a]>>) = 1 /\ <<d[a]>>[1] = d[a]  BY <1>4
<1> HIDE DEF s, u
<1>8. t \in Seq(B) /\ Len(t) = Len(s)
      /\ \A i \in 1 .. Len(s) : t[i] = IF i <= 1 THEN d[a] ELSE u[i - 1]
  BY <1>5, <1>6, <1>7, ConcatProperties
<1>9. ASSUME NEW i \in 1 .. Len(s)
      PROVE  s[i] = t[i]
  <2>1. s[i] = d[Cell(a, i)]  BY <1>5
  <2>2. i \in 1 .. Size  BY <1>1, <1>5
  <2>3. Cell(a, i) = IF a + i - 1 < Size THEN a + i - 1 ELSE a + i - 1 - Size  BY <2>2, CellIs
  <2>4. CASE i = 1
    <3>1. Cell(a, i) = a  BY <1>1, <2>3, <2>4 DEF Index
    <3> QED  BY <1>8, <2>1, <2>4, <3>1
  <2>5. CASE i # 1
    <3>1. PICK j \in 1 .. Len(u) : j = i - 1  BY <1>5, <1>6, <2>5
    <3>2. u[j] = d[Cell(After(a), j)]  BY <1>6
    <3>3. j \in 1 .. Size  BY <1>1, <1>5, <1>6
    <3>4. Cell(After(a), j) =
            IF After(a) + j - 1 < Size THEN After(a) + j - 1 ELSE After(a) + j - 1 - Size
      BY <1>2, <3>3, CellIs
    <3>5. Cell(After(a), j) = Cell(a, i)  BY <1>1, <1>2, <2>2, <2>3, <3>1, <3>4 DEF Index
    <3> QED  BY <1>8, <2>1, <2>5, <3>1, <3>2, <3>5
  <2> QED  BY <2>4, <2>5
<1>10. s = t  BY <1>5, <1>8, <1>9, SeqEqual
<1> QED  BY <1>3, <1>10 DEF s, u

\* A byte written c bytes behind b, where c is free, is not among those from a to b.
LEMMA WriteFree ==
    ASSUME NEW a \in Index, NEW b \in Index, NEW c \in Index, NEW d \in Cells, NEW v \in Byte,
           Between(a, b) + Between(b, c) + 1 < Size
    PROVE  /\ Stored(a, b, [d EXCEPT ![c] = v]) = Stored(a, b, d)
           /\ [d EXCEPT ![c] = v] \in Cells
<1>1. Size \in Nat /\ Size > 1  BY SizesAssumption
<1>2. Between(a, b) = IF a <= b THEN b - a ELSE b + Size - a  BY BetweenIs
<1>3. Between(b, c) = IF b <= c THEN c - b ELSE c + Size - b  BY BetweenIs
<1>4. ASSUME NEW i \in 1 .. Between(a, b)
      PROVE  [d EXCEPT ![c] = v][Cell(a, i)] = d[Cell(a, i)]
  <2>1. i \in 1 .. Size  BY <1>1, <1>2 DEF Index
  <2>2. /\ Cell(a, i) = IF a + i - 1 < Size THEN a + i - 1 ELSE a + i - 1 - Size
        /\ Cell(a, i) \in Index
    BY <2>1, CellIs
  <2>3. Cell(a, i) # c  BY <1>1, <1>2, <1>3, <2>2 DEF Index
  <2> QED  BY <2>2, <2>3 DEF Cells
<1> QED  BY <1>4 DEF Stored, Cells

\* The bytes from b to c, once the cursor passes from b to c, follow those from a to b.
LEMMA PassOver ==
    ASSUME NEW a \in Index, NEW b \in Index, NEW c \in Index, NEW d \in Cells,
           Between(a, b) + Between(b, c) < Size
    PROVE  /\ Between(a, c) = Between(a, b) + Between(b, c)
           /\ Stored(a, c, d) = Stored(a, b, d) \o Stored(b, c, d)
<1>1. Size \in Nat /\ Size > 1  BY SizesAssumption
<1>2. Between(a, b) = IF a <= b THEN b - a ELSE b + Size - a  BY BetweenIs
<1>3. Between(b, c) = IF b <= c THEN c - b ELSE c + Size - b  BY BetweenIs
<1>4. Between(a, c) = Between(a, b) + Between(b, c)
  <2>1. Between(a, c) = IF a <= c THEN c - a ELSE c + Size - a  BY BetweenIs
  <2> QED  BY <1>1, <1>2, <1>3, <2>1 DEF Index
<1> DEFINE s == Stored(a, c, d)
           u == Stored(a, b, d)
           z == Stored(b, c, d)
           t == u \o z
           B == Byte \cup {None}
<1>5. /\ s \in Seq(B) /\ Len(s) = Between(a, c) /\ Len(s) \in Nat /\ Len(s) < Size
      /\ \A i \in 1 .. Len(s) : s[i] = d[Cell(a, i)]
  BY StoredIs
<1>6. /\ u \in Seq(B) /\ Len(u) = Between(a, b) /\ Len(u) \in Nat
      /\ \A i \in 1 .. Len(u) : u[i] = d[Cell(a, i)]
  BY StoredIs
<1>7. /\ z \in Seq(B) /\ Len(z) = Between(b, c) /\ Len(z) \in Nat
      /\ \A i \in 1 .. Len(z) : z[i] = d[Cell(b, i)]
  BY StoredIs
<1> HIDE DEF s, u, z
<1>8. Len(s) = Len(u) + Len(z)  BY <1>4, <1>5, <1>6, <1>7
<1>9. t \in Seq(B) /\ Len(t) = Len(s)
      /\ \A i \in 1 .. Len(s) : t[i] = IF i <= Len(u) THEN u[i] ELSE z[i - Len(u)]
  BY <1>6, <1>7, <1>8, ConcatProperties
<1>10. ASSUME NEW i \in 1 .. Len(s)
       PROVE  s[i] = t[i]
  <2>1. s[i] = d[Cell(a, i)]  BY <1>5
  <2>2. CASE i <= Len(u)
    <3>1. u[i] = d[Cell(a, i)]  BY <1>6, <2>2
    <3> QED  BY <1>9, <2>1, <2>2, <3>1
  <2>3. CASE ~(i <= Len(u))
    <3>1. PICK j \in 1 .. Len(z) : j = i - Len(u)  BY <1>5, <1>6, <1>7, <1>8, <2>3
    <3>2. z[j] = d[Cell(b, j)]  BY <1>7
    <3>3. j \in 1 .. Size /\ i \in 1 .. Size  BY <1>1, <1>5, <1>6, <1>7, <1>8
    <3>4. Cell(b, j) = IF b + j - 1 < Size THEN b + j - 1 ELSE b + j - 1 - Size
      BY <3>3, CellIs
    <3>5. Cell(a, i) = IF a + i - 1 < Size THEN a + i - 1 ELSE a + i - 1 - Size
      BY <3>3, CellIs
    <3>6. j = i - Between(a, b)  BY <1>6, <3>1
    <3>7. i <= Between(a, c)  BY <1>5
    <3>8. Cell(b, j) = Cell(a, i)
      BY <1>1, <1>2, <1>3, <1>4, <3>3, <3>4, <3>5, <3>6, <3>7 DEF Index
    <3> QED  BY <1>9, <2>1, <2>3, <3>1, <3>2, <3>8
  <2> QED  BY <2>2, <2>3
<1>11. s = t  BY <1>5, <1>9, <1>10, SeqEqual
<1> QED  BY <1>4, <1>11 DEF s, u, z

\* A cursor that goes one byte on is one byte further, and the cell it leaves is the next one.
LEMMA OneFurther ==
    ASSUME NEW b \in Index, NEW c \in Index, Between(b, c) + 1 < Size
    PROVE  /\ Between(b, After(c)) = Between(b, c) + 1
           /\ Cell(b, Between(b, c) + 1) = c
           /\ \A i \in 1 .. Between(b, c) : Cell(b, i) # c
<1>1. Size \in Nat /\ Size > 1  BY SizesAssumption
<1>2. Between(b, c) = IF b <= c THEN c - b ELSE c + Size - b  BY BetweenIs
<1>3. Between(b, After(c)) = Between(b, c) + 1
  <2>1. After(c) \in Index /\ After(c) = IF c + 1 < Size THEN c + 1 ELSE 0  BY AfterIs
  <2>2. Between(b, After(c)) = IF b <= After(c) THEN After(c) - b ELSE After(c) + Size - b
    BY <2>1, BetweenIs
  <2> QED  BY <1>1, <1>2, <2>1, <2>2 DEF Index
<1>4. PICK j \in 1 .. Size : j = Between(b, c) + 1
  <2>1. Between(b, c) + 1 \in 1 .. Size  BY <1>1, <1>2 DEF Index
  <2> QED  BY <2>1
<1>5. Cell(b, j) = c
  <2>1. Cell(b, j) = IF b + j - 1 < Size THEN b + j - 1 ELSE b + j - 1 - Size  BY CellIs
  <2> QED  BY <1>1, <1>2, <1>4, <2>1 DEF Index
<1>6. ASSUME NEW i \in 1 .. Between(b, c)
      PROVE  Cell(b, i) # c
  <2>1. i \in 1 .. Size  BY <1>1, <1>2 DEF Index
  <2>2. Cell(b, i) = IF b + i - 1 < Size THEN b + i - 1 ELSE b + i - 1 - Size
    BY <2>1, CellIs
  <2> QED  BY <1>1, <1>2, <2>2 DEF Index
<1> QED  BY <1>3, <1>4, <1>5, <1>6

-----------------------------------------------------------------------------
(* Sequences of records *)

\* The bytes of a message are those of no other message.
LEMMA RecordInBytes ==
    ASSUME NEW m \in Message
    PROVE  RecordIn(BytesOf(m)) = m
<1>1. 1 \in 1 .. Length  BY SizesAssumption
<1>2. ASSUME NEW n \in Message, BytesOf(m) = BytesOf(n)
      PROVE  n = m
  <2>1. BytesOf(m)[1] = <<m, 1>> /\ BytesOf(n)[1] = <<n, 1>>  BY <1>1 DEF BytesOf
  <2> QED  BY <1>2, <2>1
<1>3. \E n \in Message : BytesOf(m) = BytesOf(n)  OBVIOUS
<1>4. PICK c \in Message : c = CHOOSE n \in Message : BytesOf(m) = BytesOf(n)  BY <1>3
<1>5. BytesOf(m) = BytesOf(c)  BY <1>3, <1>4
<1>6. RecordIn(BytesOf(m)) = CHOOSE n \in Message : BytesOf(m) = BytesOf(n)
  BY <1>3 DEF RecordIn, BytesOf
<1> QED  BY <1>2, <1>4, <1>5, <1>6

\* The bytes of a message are a sequence of bytes.
LEMMA BytesOfIs ==
    ASSUME NEW m \in Message
    PROVE  /\ BytesOf(m) \in Seq(Byte) /\ Len(BytesOf(m)) = Length
           /\ \A i \in 1 .. Length : BytesOf(m)[i] = <<m, i>>
<1>1. Length \in Nat  BY SizesAssumption
<1>2. BytesOf(m) \in [1 .. Length -> Byte]  BY DEF BytesOf, Byte
<1>3. BytesOf(m) \in Seq(Byte) /\ Len(BytesOf(m)) = Length  BY <1>1, <1>2, SeqDef, LenProperties
<1> QED  BY <1>3 DEF BytesOf

\* Where a record lies: its bytes come before the record after it.
LEMMA RecordPlace ==
    ASSUME NEW n \in Nat, NEW k \in 1 .. n
    PROVE  /\ (k - 1) * Length \in Nat /\ k * Length \in Nat /\ n * Length \in Nat
           /\ (k - 1) * Length + Length = k * Length
           /\ k * Length <= n * Length
<1>1. Length \in Nat /\ Length > 0  BY SizesAssumption
<1>2. (k - 1) * Length \in Nat /\ k * Length \in Nat /\ n * Length \in Nat  BY <1>1
<1>3. (k - 1) * Length + Length = k * Length  BY <1>1
<1>4. PICK j \in Nat : j = n - k  OBVIOUS
<1>5. j * Length \in Nat /\ n * Length = k * Length + j * Length  BY <1>1, <1>4
<1>6. k * Length <= n * Length  BY <1>2, <1>5
<1> QED  BY <1>2, <1>3, <1>6

\* The records a sequence spells are those RecordsOf finds in it.
LEMMA SpellsSplit ==
    ASSUME NEW s, NEW q, Spells(s, q)
    PROVE  Split(s) = q
<1>1. Length \in Nat /\ Length > 0  BY SizesAssumption
<1>2. s \in Seq(Byte) /\ q \in Seq(Message) /\ Len(q) \in Nat /\ Len(s) = Len(q) * Length
  BY DEF Spells
<1>3. Len(s) \div Length = Len(q)
  <2>1. PICK n \in Nat : n = Len(q)  BY <1>2
  <2>2. (n * Length) \div Length = n  BY <1>1
  <2> QED  BY <1>2, <2>1, <2>2
<1>4. ASSUME NEW k \in 1 .. Len(q)
      PROVE  RecordIn(SubSeq(s, (k - 1) * Length + 1, k * Length)) = q[k]
  <2> DEFINE p == (k - 1) * Length
             e == k * Length
             t == SubSeq(s, p + 1, e)
  <2>1. p \in Nat /\ e \in Nat /\ e = p + Length /\ e <= Len(s)  BY <1>2, RecordPlace
  <2>2. q[k] \in Message  BY <1>2
  <2>3. \A i \in 1 .. Length : s[p + i] = <<q[k], i>>  BY DEF Spells
  <2> HIDE DEF p, e
  <2>4. t \in Seq(Byte) /\ Len(t) = Length /\ \A i \in 1 .. Length : t[i] = s[p + i]
    <3>1. Len(t) = Length /\ \A i \in 1 .. Length : t[i] = s[p + 1 + i - 1]
      BY <1>1, <1>2, <2>1, SubSeqProperties
    <3>2. \A i \in p + 1 .. e : s[i] \in Byte  BY <1>2, <2>1
    <3>3. t \in Seq(Byte)  BY <1>2, <2>1, <3>2, SubSeqProperties
    <3>4. \A i \in 1 .. Length : p + 1 + i - 1 = p + i  BY <1>1, <2>1
    <3> QED  BY <3>1, <3>3, <3>4
  <2> HIDE DEF t
  <2>5. t = BytesOf(q[k])
    <3>1. /\ BytesOf(q[k]) \in Seq(Byte) /\ Len(BytesOf(q[k])) = Length
          /\ \A i \in 1 .. Length : BytesOf(q[k])[i] = <<q[k], i>>
      BY <2>2, BytesOfIs
    <3>2. Len(t) = Len(BytesOf(q[k])) /\ \A i \in 1 .. Len(t) : t[i] = BytesOf(q[k])[i]
      BY <2>3, <2>4, <3>1
    <3> QED  BY <2>4, <3>1, <3>2, SeqEqual
  <2> QED  BY <2>2, <2>5, RecordInBytes DEF p, e, t
<1>5. q = [k \in 1 .. Len(q) |-> q[k]]  BY <1>2
<1> QED  BY <1>3, <1>4, <1>5 DEF Split

\* One more message behind.
LEMMA SpellsAppend ==
    ASSUME NEW s, NEW q, Spells(s, q), NEW m \in Message
    PROVE  Spells(s \o BytesOf(m), Append(q, m))
<1>1. Length \in Nat /\ Length > 0  BY SizesAssumption
<1>2. s \in Seq(Byte) /\ q \in Seq(Message) /\ Len(q) \in Nat /\ Len(s) = Len(q) * Length
      /\ Len(s) \in Nat
  BY DEF Spells
<1> DEFINE b == BytesOf(m)
           t == s \o b
           z == Append(q, m)
<1>3. b \in Seq(Byte) /\ Len(b) = Length /\ \A i \in 1 .. Length : b[i] = <<m, i>>
  BY BytesOfIs
<1> HIDE DEF b
<1>4. /\ z \in Seq(Message) /\ Len(z) = Len(q) + 1
      /\ z[Len(q) + 1] = m
      /\ \A k \in 1 .. Len(q) : z[k] = q[k]
  BY <1>2, AppendProperties
<1>5. /\ t \in Seq(Byte) /\ Len(t) = Len(s) + Length
      /\ \A i \in 1 .. Len(t) : t[i] = IF i <= Len(s) THEN s[i] ELSE b[i - Len(s)]
  BY <1>2, <1>3, ConcatProperties
<1> HIDE DEF t, z
<1>6. Len(t) = Len(z) * Length
  <2>1. (Len(q) + 1) * Length = Len(q) * Length + Length  BY <1>1, <1>2
  <2> QED  BY <1>2, <1>4, <1>5, <2>1
<1>7. ASSUME NEW k \in 1 .. Len(z), NEW i \in 1 .. Length
      PROVE  t[(k - 1) * Length + i] = <<z[k], i>>
  <2>1. CASE k <= Len(q)
    <3>1. k \in 1 .. Len(q)  BY <1>2, <1>4, <2>1
    <3> DEFINE p == (k - 1) * Length
    <3>2. p \in Nat /\ p + Length <= Len(s)
      <4>1. /\ (k - 1) * Length \in Nat /\ k * Length \in Nat /\ Len(q) * Length \in Nat
            /\ (k - 1) * Length + Length = k * Length
            /\ k * Length <= Len(q) * Length
        BY <1>2, <3>1, RecordPlace
      <4> QED  BY <1>2, <4>1
    <3>3. s[p + i] = <<q[k], i>>  BY <3>1 DEF Spells
    <3> HIDE DEF p
    <3>4. p + i \in 1 .. Len(t) /\ p + i <= Len(s)  BY <1>1, <1>2, <1>5, <3>2
    <3>5. t[p + i] = s[p + i]  BY <1>5, <3>4
    <3> QED  BY <1>4, <3>1, <3>3, <3>5 DEF p
  <2>2. CASE k = Len(q) + 1
    <3>1. (k - 1) * Length = Len(s)  BY <1>2, <2>2
    <3>2. Len(s) + i \in 1 .. Len(t) /\ ~(Len(s) + i <= Len(s)) /\ Len(s) + i - Len(s) = i
      BY <1>1, <1>2, <1>5
    <3>3. t[Len(s) + i] = b[i]  BY <1>5, <3>2
    <3> QED  BY <1>3, <1>4, <2>2, <3>1, <3>3
  <2> QED  BY <1>2, <1>4, <2>1, <2>2
<1>8. Spells(t, z)  BY <1>4, <1>5, <1>6, <1>7 DEF Spells
<1> QED  BY <1>8 DEF t, z, b

\* The first message taken off.
LEMMA SpellsTail ==
    ASSUME NEW g \in Seq(Byte), NEW t \in Seq(Byte), NEW q, Spells(g \o t, q), Len(g) = Length
    PROVE  /\ Len(q) > 0 /\ Head(q) \in Message /\ Tail(q) \in Seq(Message)
           /\ Len(Tail(q)) = Len(q) - 1
           /\ RecordIn(g) = Head(q)
           /\ Spells(t, Tail(q))
<1>1. Length \in Nat /\ Length > 0  BY SizesAssumption
<1> DEFINE s == g \o t
<1>2. /\ s \in Seq(Byte) /\ q \in Seq(Message) /\ Len(q) \in Nat /\ Len(s) = Len(q) * Length
      /\ Len(g) \in Nat /\ Len(t) \in Nat
  BY DEF Spells
<1>3. /\ Len(s) = Length + Len(t)
      /\ \A i \in 1 .. Len(s) : s[i] = IF i <= Length THEN g[i] ELSE t[i - Length]
  BY ConcatProperties
<1>4. \A k \in 1 .. Len(q), i \in 1 .. Length : s[(k - 1) * Length + i] = <<q[k], i>>
  BY DEF Spells
<1> HIDE DEF s
<1>5. Len(q) > 0
  <2>1. Len(q) = 0 => Len(q) * Length = 0  BY <1>1
  <2> QED  BY <1>1, <1>2, <1>3, <2>1
<1> DEFINE z == Tail(q)
<1>6. /\ q # <<>> /\ Head(q) = q[1] /\ q[1] \in Message
      /\ z \in Seq(Message) /\ Len(z) = Len(q) - 1
      /\ \A k \in 1 .. Len(z) : z[k] = q[k + 1]
  BY <1>2, <1>5, HeadTailProperties
<1> HIDE DEF z
<1>7. g = BytesOf(q[1])
  <2>1. ASSUME NEW i \in 1 .. Length
        PROVE  g[i] = <<q[1], i>>
    <3>1. PICK k \in 1 .. Len(q) : k = 1  BY <1>2, <1>5
    <3>2. (k - 1) * Length + i = i  BY <1>1, <3>1
    <3>3. i \in 1 .. Len(s) /\ i <= Length  BY <1>1, <1>2, <1>3
    <3>4. s[i] = <<q[k], i>>  BY <1>4, <3>2
    <3> QED  BY <1>3, <3>1, <3>3, <3>4
  <2>2. /\ BytesOf(q[1]) \in Seq(Byte) /\ Len(BytesOf(q[1])) = Length
        /\ \A i \in 1 .. Length : BytesOf(q[1])[i] = <<q[1], i>>
    BY <1>6, BytesOfIs
  <2>3. Len(g) = Len(BytesOf(q[1])) /\ \A i \in 1 .. Len(g) : g[i] = BytesOf(q[1])[i]
    BY <2>1, <2>2
  <2> QED  BY <2>2, <2>3, SeqEqual
<1>8. RecordIn(g) = Head(q)  BY <1>6, <1>7, RecordInBytes
<1>9. Len(t) = Len(z) * Length
  <2>1. (Len(q) - 1) * Length = Len(q) * Length - Length  BY <1>1, <1>2
  <2> QED  BY <1>2, <1>3, <1>6, <2>1
<1>10. ASSUME NEW k \in 1 .. Len(z), NEW i \in 1 .. Length
       PROVE  t[(k - 1) * Length + i] = <<z[k], i>>
  <2>1. PICK j \in 1 .. Len(q) : j = k + 1  BY <1>2, <1>6
  <2> DEFINE p == (k - 1) * Length
             r == (j - 1) * Length
  <2>2. p \in Nat /\ p + Length <= Len(t)
    <3>1. /\ (k - 1) * Length \in Nat /\ k * Length \in Nat /\ Len(z) * Length \in Nat
          /\ (k - 1) * Length + Length = k * Length
          /\ k * Length <= Len(z) * Length
      BY <1>2, <1>6, RecordPlace
    <3> QED  BY <1>9, <3>1
  <2>3. r = p + Length
    <3>1. j - 1 = k /\ (k - 1) * Length + Length = k * Length  BY <1>1, <2>1
    <3> QED  BY <3>1
  <2>4. s[r + i] = <<q[j], i>>  BY <1>4
  <2> HIDE DEF p, r
  <2>5. r + i \in 1 .. Len(s) /\ ~(r + i <= Length) /\ r + i - Length = p + i
    BY <1>1, <1>2, <1>3, <2>2, <2>3
  <2>6. s[r + i] = t[p + i]
    <3>1. PICK e \in 1 .. Len(s) : e = r + i  BY <2>5
    <3>2. ~(e <= Length) /\ e - Length = p + i  BY <1>1, <2>2, <2>3, <3>1
    <3>3. s[e] = t[e - Length]  BY <1>3, <3>2
    <3> QED  BY <3>1, <3>2, <3>3
  <2>7. z[k] = q[j]  BY <1>6, <2>1
  <2> QED  BY <2>4, <2>6, <2>7 DEF p
<1>11. Spells(t, z)  BY <1>6, <1>9, <1>10 DEF Spells
<1> QED  BY <1>5, <1>6, <1>8, <1>11 DEF z

-----------------------------------------------------------------------------
(* What each step does to the bytes and the records of a ring *)

\* The bytes of the record the reader is in.
Begun(r) == IF source = r THEN got ELSE <<>>

\* Unread and RecordsOf, in terms of constant-level operators.
LEMMA UnreadIs ==
    ASSUME NEW r \in Ring
    PROVE  /\ Unread(r) = Begun(r) \o Stored(read[r], write[r], data[r])
           /\ Unread(r)' = Begun(r)' \o Stored(read'[r], write'[r], data'[r])
           /\ RecordsOf(r) = Split(Unread(r))
           /\ RecordsOf(r)' = Split(Unread(r)')
BY DEF Unread, Begun, Stored, Cell, Used, RecordsOf, Split

\* The types of what the bytes of a ring depend on.
LEMMA RingTypes ==
    ASSUME TypeOK, NEW r \in Ring
    PROVE  /\ data[r] \in Cells /\ read[r] \in Index /\ write[r] \in Index
           /\ Begun(r) \in Seq(Byte) /\ Begun(r) \in Seq(Byte \cup {None})
<1>1. data[r] \in Cells /\ read[r] \in Index /\ write[r] \in Index
  BY DEF TypeOK, Cells, Index
<1>2. Begun(r) \in Seq(Byte)  BY DEF TypeOK, Begun
<1>3. Begun(r) \in Seq(Byte \cup {None})  BY <1>2, SeqMonotonic
<1> QED  BY <1>1, <1>2, <1>3

\* A writer has one of the rings, and its cursor is one of its cells.
LEMMA WriterTypes ==
    ASSUME TypeOK, NEW w \in Writer
    PROVE  RingOf(w) \in Ring /\ cursor[w] \in Index
BY DEF TypeOK, RingOf, Ring, Index

\* What a ring's sequences are.
LEMMA SpelledIs ==
    ASSUME Spelled, NEW r \in Ring
    PROVE  /\ Spells(Unread(r), RecordsOf(r))
           /\ Unread(r) \in Seq(Byte) /\ RecordsOf(r) \in Seq(Message)
           /\ Len(Unread(r)) \in Nat /\ Len(RecordsOf(r)) \in Nat
           /\ Len(Unread(r)) = Len(RecordsOf(r)) * Length
<1>1. Spells(Unread(r), RecordsOf(r))  BY DEF Spelled
<1> QED  BY <1>1 DEF Spells

\* Where the bytes of a ring stay, its records do.
LEMMA RecordsStay ==
    ASSUME Spelled, NEW r \in Ring, Unread(r)' = Unread(r)
    PROVE  RecordsOf(r)' = RecordsOf(r) /\ Spells(Unread(r), RecordsOf(r))'
<1>1. RecordsOf(r)' = RecordsOf(r)  BY UnreadIs
<1>2. Spells(Unread(r), RecordsOf(r))  BY SpelledIs
<1> QED  BY <1>1, <1>2 DEF Spells

\* A step that keeps the rings, and moves the reader at most between two places without a byte.
LEMMA QuietStep ==
    ASSUME Reading, UNCHANGED <<data, read, write, got>>,
           source' # source => source \notin Ring, NEW r \in Ring
    PROVE  Unread(r)' = Unread(r)
<1>1. Begun(r)' = Begun(r)  BY DEF Reading, Begun
<1> QED  BY <1>1, UnreadIs

\* Two writers are not at the same ring.
LEMMA Alone ==
    ASSUME WritersStand, NEW w \in Writer, NEW v \in Writer, RingOf(w) = RingOf(v),
           pc[w] \in {"check", "copy"}, pc[v] \in {"check", "copy"}
    PROVE  w = v
<1>1. CASE w \in Sender
  <2>1. v \in Sender  BY <1>1 DEF RingOf
  <2> QED  BY <1>1, <2>1 DEF WritersStand
<1>2. CASE w \notin Sender
  <2>1. v \notin Sender  BY <1>2 DEF RingOf
  <2> QED  BY <1>2, <2>1, OneHandlerAssumption DEF Writer
<1> QED  BY <1>1, <1>2

\* A byte copied behind the write cursor is nobody's unread byte.
LEMMA CopyStep ==
    ASSUME TypeOK, WritersStand, Copying, NEW w \in Writer, CopyByte(w), NEW r \in Ring
    PROVE  /\ Unread(r)' = Unread(r)
           /\ data'[r] \in Cells
<1> DEFINE q == RingOf(w)
           v == <<message[w], Copied(w) + 1>>
<1>1. q \in Ring /\ cursor[w] \in Index  BY WriterTypes
<1>2. data[q] \in Cells /\ read[q] \in Index /\ write[q] \in Index  BY <1>1, RingTypes
<1>3. /\ Length <= Size - 1 - Between(read[q], write[q])
      /\ Between(write[q], cursor[w]) < Length
      /\ Copied(w) = Between(write[q], cursor[w])
  BY DEF Copying, Behind, CopyByte, Copied
<1>4. Size \in Nat /\ Length \in Nat  BY SizesAssumption
<1>5. Between(read[q], write[q]) \in Nat /\ Between(write[q], cursor[w]) \in Nat
  BY <1>1, <1>2, StoredIs
<1>6. Between(read[q], write[q]) + Between(write[q], cursor[w]) + 1 < Size
  BY <1>3, <1>4, <1>5
<1>7. v \in Byte
  <2>1. message[w] \in Message  BY DEF WritersStand, CopyByte
  <2>2. Copied(w) + 1 \in 1 .. Length  BY <1>3, <1>4, <1>5
  <2> QED  BY <2>1, <2>2 DEF Byte
<1>8. data'[r] = IF r = q THEN [data[q] EXCEPT ![cursor[w]] = v] ELSE data[r]
  BY <1>1 DEF TypeOK, CopyByte
<1>9. UNCHANGED <<read, write, source, got>>  BY DEF CopyByte, readerVars
<1>10. /\ Stored(read[r], write[r], data'[r]) = Stored(read[r], write[r], data[r])
       /\ data'[r] \in Cells
  <2>1. CASE r = q
    <3>1. /\ Stored(read[q], write[q], [data[q] EXCEPT ![cursor[w]] = v])
               = Stored(read[q], write[q], data[q])
          /\ [data[q] EXCEPT ![cursor[w]] = v] \in Cells
      BY <1>1, <1>2, <1>6, <1>7, WriteFree
    <3> QED  BY <1>8, <2>1, <3>1
  <2>2. CASE r # q
    BY <1>8, <2>2, RingTypes
  <2> QED  BY <2>1, <2>2
<1>11. Begun(r)' = Begun(r)  BY <1>9 DEF Begun
<1> QED  BY <1>9, <1>10, <1>11, UnreadIs

\* A byte read is still among the unread ones: it is in the reader's hands.
LEMMA ReadStep ==
    ASSUME TypeOK, Reading, Spelled, NEW q \in Ring, ReadByte(q), NEW r \in Ring
    PROVE  /\ Unread(r)' = Unread(r)
           /\ got' \in Seq(Byte) /\ Len(got') = Len(got) + 1 /\ Len(got') <= Length
           /\ read[q] # write[q]
           /\ Between(read'[q], write[q]) = Between(read[q], write[q]) - 1
<1> DEFINE s == Stored(read[q], write[q], data[q])
           x == data[q][read[q]]
           B == Byte \cup {None}
<1>1. data[q] \in Cells /\ read[q] \in Index /\ write[q] \in Index  BY RingTypes
<1>2. /\ source = q /\ Begun(q) = got /\ got \in Seq(Byte) /\ got \in Seq(B)
      /\ Len(got) \in Nat /\ Len(got) < Length
  BY RingTypes DEF ReadByte, Begun, TypeOK
<1>3. s \in Seq(B) /\ Len(s) = Between(read[q], write[q]) /\ Len(s) \in Nat
  BY <1>1, StoredIs
<1>4. Unread(q) = got \o s /\ Unread(q) \in Seq(Byte)  BY <1>2, UnreadIs, SpelledIs
<1>5. Len(got \o s) = Len(got) + Len(s)  BY <1>2, <1>3, ConcatProperties
<1>6. Length <= Len(Unread(q))  BY <1>2 DEF Reading
<1>7. Len(s) > 0 /\ Length \in Nat  BY <1>2, <1>3, <1>4, <1>5, <1>6, SizesAssumption
<1>8. read[q] # write[q]
  <2>1. Between(read[q], read[q]) =
          IF read[q] <= read[q] THEN read[q] - read[q] ELSE read[q] + Size - read[q]
    BY <1>1, BetweenIs
  <2>2. Between(read[q], read[q]) = 0  BY <1>1, <2>1, SizesAssumption DEF Index
  <2> QED  BY <1>3, <1>7, <2>2
<1>9. /\ Between(After(read[q]), write[q]) = Between(read[q], write[q]) - 1
      /\ s = <<x>> \o Stored(After(read[q]), write[q], data[q])
  BY <1>1, <1>8, ReadOne
<1>10. x \in Byte
  <2>1. Len(got) + 1 \in 1 .. Len(got \o s)  BY <1>2, <1>3, <1>5, <1>7
  <2>2. (got \o s)[Len(got) + 1] = s[1]
    <3>1. PICK i \in 1 .. Len(got) + Len(s) : i = Len(got) + 1  BY <1>5, <2>1
    <3>2. (got \o s)[i] = IF i <= Len(got) THEN got[i] ELSE s[i - Len(got)]
      BY <1>2, <1>3, ConcatProperties
    <3>3. ~(i <= Len(got)) /\ i - Len(got) = 1  BY <1>2, <3>1
    <3> QED  BY <3>1, <3>2, <3>3
  <2>3. (got \o s)[Len(got) + 1] \in Byte  BY <1>4, <2>1, ElementOfSeq
  <2>4. s[1] = x
    <3>1. PICK j \in 1 .. Between(read[q], write[q]) : j = 1  BY <1>3, <1>7
    <3>2. s[j] = data[q][Cell(read[q], j)]  BY <1>1, StoredIs
    <3>3. Cell(read[q], j) =
            IF read[q] + j - 1 < Size THEN read[q] + j - 1 ELSE read[q] + j - 1 - Size
      <4>1. j \in 1 .. Size  BY <3>1, SizesAssumption
      <4> QED  BY <1>1, <4>1, CellIs
    <3>4. Cell(read[q], j) = read[q]  BY <1>1, <3>1, <3>3, SizesAssumption DEF Index
    <3> QED  BY <3>1, <3>2, <3>4
  <2> QED  BY <2>2, <2>3, <2>4
<1>11. /\ read' = [read EXCEPT ![q] = After(@)] /\ got' = Append(got, x)
       /\ UNCHANGED <<data, write, source>>
  BY DEF ReadByte
<1>12. read' = [read EXCEPT ![q] = After(read[q])]  BY <1>11
<1>13. read'[q] = After(read[q]) /\ (r # q => read'[r] = read[r])  BY <1>12 DEF TypeOK
<1>14. got' \in Seq(Byte) /\ Len(got') = Len(got) + 1 /\ got' = got \o <<x>>
  BY <1>2, <1>10, <1>11, AppendProperties, AppendIsConcat
<1>15. Unread(r)' = Unread(r)
  <2>1. CASE r = q
    <3> DEFINE u == Stored(After(read[q]), write[q], data[q])
    <3>1. Unread(q)' = got' \o Stored(read'[q], write'[q], data'[q])
      <4>1. Begun(q)' = got'  BY <1>2, <1>11 DEF Begun
      <4> QED  BY <4>1, UnreadIs
    <3>2. Unread(q)' = (got \o <<x>>) \o u  BY <1>11, <1>13, <1>14, <3>1
    <3>3. u \in Seq(B) /\ <<x>> \in Seq(B)
      <4>1. After(read[q]) \in Index  BY <1>1, AfterIs
      <4> QED  BY <1>1, <1>10, <4>1, StoredIs
    <3>4. (got \o <<x>>) \o u = got \o (<<x>> \o u)  BY <1>2, <3>3, ConcatAssociative
    <3> QED  BY <1>4, <1>9, <2>1, <3>2, <3>4
  <2>2. CASE r # q
    <3>1. Begun(r) = <<>> /\ Begun(r)' = <<>>  BY <1>2, <1>11, <2>2 DEF Begun
    <3> QED  BY <1>11, <1>13, <2>2, <3>1, UnreadIs
  <2> QED  BY <2>1, <2>2
<1>16. Len(got') <= Length  BY <1>2, <1>7, <1>14
<1> QED  BY <1>8, <1>9, <1>11, <1>13, <1>14, <1>15, <1>16

\* Publishing appends the bytes of the writer's message to what is unread of its ring.
LEMMA PublishStep ==
    ASSUME TypeOK, WritersStand, Copying, NEW w \in Writer, Publish(w), NEW r \in Ring
    PROVE  /\ message[w] \in Message
           /\ Unread(r)' = IF r = RingOf(w) THEN Unread(r) \o BytesOf(message[w]) ELSE Unread(r)
           /\ r = RingOf(w) => Length <= Size - 1 - Between(read[r], write[r])
<1> DEFINE B == Byte \cup {None}
           m == message[w]
<1>1. RingOf(w) \in Ring /\ cursor[w] \in Index  BY WriterTypes
<1>2. m \in Message  BY DEF WritersStand, Publish
<1>3. /\ write'[r] = IF r = RingOf(w) THEN cursor[w] ELSE write[r]
      /\ UNCHANGED <<data, read, source, got>>
  BY DEF Publish, TypeOK, readerVars
<1>4. Begun(r)' = Begun(r)  BY <1>3 DEF Begun
<1>5. CASE r = RingOf(w)
  <2>1. data[r] \in Cells /\ read[r] \in Index /\ write[r] \in Index /\ Begun(r) \in Seq(B)
    BY RingTypes
  <2>2. Behind(read[r], write[r], cursor[w], data[r], m)  BY <1>5 DEF Copying, Publish
  <2>3. Between(write[r], cursor[w]) = Length  BY <1>5 DEF Publish, Complete, Copied
  <2>4. Length <= Size - 1 - Between(read[r], write[r])  BY <2>2 DEF Behind
  <2>5. Between(read[r], write[r]) \in Nat  BY <2>1, StoredIs
  <2>6. Between(read[r], write[r]) + Between(write[r], cursor[w]) < Size
    BY <2>3, <2>4, <2>5, SizesAssumption
  <2> DEFINE u == Stored(read[r], write[r], data[r])
             z == Stored(write[r], cursor[w], data[r])
  <2>7. Stored(read[r], cursor[w], data[r]) = u \o z  BY <1>1, <2>1, <2>6, PassOver
  <2>8. z = BytesOf(m)  BY <2>2, <2>3 DEF Behind, Stored, BytesOf
  <2>9. u \in Seq(B) /\ z \in Seq(B)  BY <1>1, <2>1, StoredIs
  <2>10. Begun(r) \o (u \o z) = (Begun(r) \o u) \o z  BY <2>1, <2>9, ConcatAssociative
  <2>11. Unread(r) = Begun(r) \o u  BY UnreadIs
  <2>12. Unread(r)' = Begun(r) \o (u \o z)  BY <1>3, <1>4, <1>5, <2>7, UnreadIs
  <2> QED  BY <1>2, <1>5, <2>4, <2>8, <2>10, <2>11, <2>12
<1>6. CASE r # RingOf(w)
  <2>1. Unread(r)' = Unread(r)  BY <1>3, <1>4, <1>6, UnreadIs
  <2> QED  BY <1>2, <1>6, <2>1
<1> QED  BY <1>5, <1>6

\* Ending a record drops the bytes in the reader's hands, and nothing else.
LEMMA EndStep ==
    ASSUME TypeOK, NEW q \in Ring, EndRead(q), NEW r \in Ring
    PROVE  /\ got \in Seq(Byte) /\ Len(got) = Length
           /\ r = q => Unread(r) = got \o Unread(r)'
           /\ r # q => Unread(r)' = Unread(r)
<1>1. source = q /\ source' = "wait" /\ Len(got) = Length /\ UNCHANGED <<data, read, write>>
  BY DEF EndRead, ringVars
<1>2. got \in Seq(Byte)  BY DEF TypeOK
<1>3. Begun(r)' = <<>> /\ Begun(r) = IF r = q THEN got ELSE <<>>  BY <1>1 DEF Begun, Ring
<1> DEFINE u == Stored(read[r], write[r], data[r])
<1>4. Unread(r) = Begun(r) \o u /\ Unread(r)' = <<>> \o u  BY <1>1, <1>3, UnreadIs
<1>5. <<>> \o u = u
  <2>1. u \in Seq(Byte \cup {None})  BY RingTypes, StoredIs
  <2> QED  BY <2>1, ConcatEmptySeq
<1> QED  BY <1>1, <1>2, <1>3, <1>4, <1>5

\* The steps that leave every ring's unread bytes alone.
Silent ==
    \/ \E w \in Writer : Enqueue(w) \/ Full(w) \/ Begin(w) \/ CopyByte(w) \/ Post(w)
    \/ TakeToken
    \/ \E r \in Ring : StartRead(r) \/ ReadByte(r)

\* A silent step changes no ring's records.
LEMMA SilentRecords ==
    ASSUME TypeOK, WritersStand, Copying, Reading, Spelled, Silent, NEW r \in Ring
    PROVE  /\ Unread(r)' = Unread(r)
           /\ RecordsOf(r)' = RecordsOf(r) /\ Spells(Unread(r), RecordsOf(r))'
<1>1. Unread(r)' = Unread(r)
  <2>1. ASSUME NEW w \in Writer, Enqueue(w) \/ Full(w) \/ Begin(w) \/ Post(w)
        PROVE  Unread(r)' = Unread(r)
    <3>1. UNCHANGED <<data, read, write, source, got>>
      BY <2>1 DEF Enqueue, Full, Begin, Post, ringVars, readerVars
    <3> QED  BY <3>1, QuietStep
  <2>2. ASSUME NEW w \in Writer, CopyByte(w)
        PROVE  Unread(r)' = Unread(r)
    BY <2>2, CopyStep
  <2>3. ASSUME TakeToken
        PROVE  Unread(r)' = Unread(r)
    <3>1. UNCHANGED <<data, read, write, got>> /\ source = "wait"
      BY <2>3 DEF TakeToken, ringVars
    <3> QED  BY <2>3, <3>1, QuietStep DEF TakeToken, Ring
  <2>4. ASSUME NEW q \in Ring, StartRead(q)
        PROVE  Unread(r)' = Unread(r)
    <3>1. UNCHANGED <<data, read, write, got>> /\ source = "token"
      BY <2>4 DEF StartRead, ringVars
    <3> QED  BY <2>4, <3>1, QuietStep DEF StartRead, Ring
  <2>5. ASSUME NEW q \in Ring, ReadByte(q)
        PROVE  Unread(r)' = Unread(r)
    BY <2>5, ReadStep
  <2> QED  BY <2>1, <2>2, <2>3, <2>4, <2>5 DEF Silent
<1> QED  BY <1>1, RecordsStay

\* Publishing puts the writer's message behind the records of its ring.
LEMMA PublishRecords ==
    ASSUME TypeOK, WritersStand, Copying, Spelled, NEW w \in Writer, Publish(w), NEW r \in Ring
    PROVE  /\ message[w] \in Message
           /\ RecordsOf(r)' = IF r = RingOf(w) THEN Append(RecordsOf(r), message[w])
                                               ELSE RecordsOf(r)
           /\ Spells(Unread(r), RecordsOf(r))'
<1>1. message[w] \in Message  BY PublishStep
<1>2. CASE r = RingOf(w)
  <2>1. Unread(r)' = Unread(r) \o BytesOf(message[w])  BY <1>2, PublishStep
  <2>2. Spells(Unread(r) \o BytesOf(message[w]), Append(RecordsOf(r), message[w]))
    BY <1>1, SpelledIs, SpellsAppend
  <2>3. Split(Unread(r) \o BytesOf(message[w])) = Append(RecordsOf(r), message[w])
    BY <2>2, SpellsSplit
  <2>4. RecordsOf(r)' = Append(RecordsOf(r), message[w])  BY <2>1, <2>3, UnreadIs
  <2>5. Spells(Unread(r), RecordsOf(r))'  BY <2>1, <2>2, <2>4 DEF Spells
  <2> QED  BY <1>1, <1>2, <2>4, <2>5
<1>3. CASE r # RingOf(w)
  <2>1. Unread(r)' = Unread(r)  BY <1>3, PublishStep
  <2> QED  BY <1>1, <1>3, <2>1, RecordsStay
<1> QED  BY <1>2, <1>3

\* Ending a record takes the first record off, and the reader has just that message.
LEMMA EndRecords ==
    ASSUME TypeOK, Spelled, NEW q \in Ring, EndRead(q), NEW r \in Ring
    PROVE  /\ RecordsOf(r)' = IF r = q THEN Tail(RecordsOf(r)) ELSE RecordsOf(r)
           /\ r = q => /\ Len(RecordsOf(r)) > 0
                       /\ Len(Tail(RecordsOf(r))) = Len(RecordsOf(r)) - 1
                       /\ RecordIn(got) = Head(RecordsOf(r)) /\ RecordIn(got) \in Message
           /\ Spells(Unread(r), RecordsOf(r))'
<1>1. CASE r = q
  <2>1. Unread(r) = got \o Unread(r)' /\ got \in Seq(Byte) /\ Len(got) = Length
    BY <1>1, EndStep
  <2>2. Unread(r)' \in Seq(Byte)
    <3> DEFINE u == Stored(read[r], write[r], data[r])
    <3>1. u \in Seq(Byte \cup {None})  BY RingTypes, StoredIs
    <3>2. Begun(r)' = <<>> /\ UNCHANGED <<data, read, write>>
      BY DEF EndRead, Begun, ringVars, Ring
    <3>3. Unread(r)' = u  BY <3>1, <3>2, UnreadIs, ConcatEmptySeq
    <3>4. Unread(r) \in Seq(Byte)  BY SpelledIs
    <3>5. Len(u) \in Nat /\ Len(got) \in Nat /\ Len(Unread(r)) = Len(got) + Len(u)
          /\ \A i \in 1 .. Len(got) + Len(u) :
                Unread(r)[i] = IF i <= Len(got) THEN got[i] ELSE u[i - Len(got)]
      <4>1. got \in Seq(Byte \cup {None})  BY <2>1, SeqMonotonic
      <4>2. Unread(r) = got \o u  BY <2>1, <3>3
      <4> HIDE DEF u
      <4>3. Len(u) \in Nat /\ Len(got) \in Nat  BY <3>1, <4>1, LenProperties
      <4> QED  BY <3>1, <4>1, <4>2, <4>3, ConcatProperties
    <3> HIDE DEF u
    <3>6. ASSUME NEW i \in 1 .. Len(u)
          PROVE  u[i] \in Byte
      <4>1. PICK j \in 1 .. Len(got) + Len(u) : j = Len(got) + i  BY <3>5
      <4>2. Unread(r)[j] = u[i]
        <5>1. ~(j <= Len(got)) /\ j - Len(got) = i  BY <3>5, <4>1
        <5> QED  BY <3>5, <5>1
      <4>3. Unread(r)[j] \in Byte  BY <3>4, <3>5, ElementOfSeq
      <4> QED  BY <4>2, <4>3
    <3>7. u \in Seq(Byte)
      <4>1. u \in [1 .. Len(u) -> Byte]  BY <3>1, <3>6
      <4> QED  BY <3>5, <4>1, SeqDef
    <3> QED  BY <3>3, <3>7
  <2>3. PICK t \in Seq(Byte) : t = Unread(r)'  BY <2>2
  <2>4. Spells(got \o t, RecordsOf(r))  BY <2>1, <2>3, SpelledIs
  <2>5. /\ Len(RecordsOf(r)) > 0 /\ Head(RecordsOf(r)) \in Message
        /\ Len(Tail(RecordsOf(r))) = Len(RecordsOf(r)) - 1
        /\ RecordIn(got) = Head(RecordsOf(r))
        /\ Spells(t, Tail(RecordsOf(r)))
    BY <2>1, <2>4, SpellsTail
  <2>6. RecordsOf(r)' = Tail(RecordsOf(r))  BY <2>3, <2>5, SpellsSplit, UnreadIs
  <2>7. Spells(Unread(r), RecordsOf(r))'  BY <2>3, <2>5, <2>6 DEF Spells
  <2> QED  BY <1>1, <2>5, <2>6, <2>7
<1>2. CASE r # q
  <2>1. Unread(r)' = Unread(r)  BY <1>2, EndStep
  <2> QED  BY <1>2, <2>1, RecordsStay
<1> QED  BY <1>1, <1>2

-----------------------------------------------------------------------------
(* The invariant *)

\* Every step is silent, publishes a record or ends one.
LEMMA Kinds ==
    ASSUME Next
    PROVE  Silent \/ (\E w \in Writer : Publish(w)) \/ (\E r \in Ring : EndRead(r))
BY DEF Next, WriterStep, ReaderStep, Silent

\* What is unread stays whole records, one step on.
LEMMA StepSpelled == ASSUME IInv, Next PROVE Spelled'
<1>1. CASE Silent
  <2>1. \A r \in Ring : Spells(Unread(r), RecordsOf(r))'  BY <1>1, SilentRecords DEF IInv
  <2> QED  BY <2>1 DEF Spelled
<1>2. ASSUME NEW w \in Writer, Publish(w)
      PROVE  Spelled'
  <2>1. \A r \in Ring : Spells(Unread(r), RecordsOf(r))'  BY <1>2, PublishRecords DEF IInv
  <2> QED  BY <2>1 DEF Spelled
<1>3. ASSUME NEW q \in Ring, EndRead(q)
      PROVE  Spelled'
  <2>1. \A r \in Ring : Spells(Unread(r), RecordsOf(r))'  BY <1>3, EndRecords DEF IInv
  <2> QED  BY <2>1 DEF Spelled
<1> QED  BY <1>1, <1>2, <1>3, Kinds

\* The variables keep their types; what is read is a byte and what is taken a message.
LEMMA StepType == ASSUME IInv, Next PROVE TypeOK'
<1> USE DEF IInv
<1>0. 0 \in Index /\ sent \in Nat /\ MaxSent \in Nat
  BY SizesAssumption DEF TypeOK, Index
<1>1. ASSUME NEW w \in Writer, Enqueue(w)
      PROVE  TypeOK'
  BY <1>0, <1>1 DEF TypeOK, Enqueue, Goto, Labels, ringVars, readerVars
<1>2. ASSUME NEW w \in Writer, Full(w)
      PROVE  TypeOK'
  BY <1>2 DEF TypeOK, Full, Unlocks, Goto, Labels, ringVars, readerVars
<1>3. ASSUME NEW w \in Writer, Begin(w)
      PROVE  TypeOK'
  <2>1. write[RingOf(w)] \in 0 .. Size - 1  BY <1>3, WriterTypes DEF TypeOK
  <2> QED  BY <1>3, <2>1 DEF TypeOK, Begin, Goto, Labels, ringVars, readerVars
<1>4. ASSUME NEW w \in Writer, CopyByte(w)
      PROVE  TypeOK'
  <2>1. After(cursor[w]) \in Index  BY <1>4, WriterTypes, AfterIs
  <2>2. data' \in [Ring -> Cells]
    <3>1. \A r \in Ring : data'[r] \in Cells  BY <1>4, CopyStep
    <3>2. data' = [r \in Ring |-> data'[r]]  BY <1>4 DEF TypeOK, CopyByte
    <3> QED  BY <3>1, <3>2
  <2>3. cursor' = [cursor EXCEPT ![w] = After(cursor[w])]  BY <1>4 DEF CopyByte
  <2>4. cursor' \in [Writer -> Index]  BY <2>1, <2>3 DEF TypeOK, Index
  <2> QED  BY <1>4, <2>2, <2>4 DEF TypeOK, CopyByte, Cells, Index, readerVars
<1>5. ASSUME NEW w \in Writer, Publish(w)
      PROVE  TypeOK'
  <2>1. cursor[w] \in 0 .. Size - 1  BY <1>5 DEF TypeOK
  <2> QED  BY <1>5, <2>1 DEF TypeOK, Publish, Unlocks, Goto, Labels, readerVars
<1>6. ASSUME NEW w \in Writer, Post(w)
      PROVE  TypeOK'
  BY <1>6 DEF TypeOK, Post, Goto, Labels, ringVars, readerVars
<1>7. ASSUME TakeToken
      PROVE  TypeOK'
  BY <1>7 DEF TypeOK, TakeToken, ringVars
<1>8. ASSUME NEW q \in Ring, StartRead(q)
      PROVE  TypeOK'
  BY <1>8 DEF TypeOK, StartRead, ringVars
<1>9. ASSUME NEW q \in Ring, ReadByte(q)
      PROVE  TypeOK'
  <2>1. got' \in Seq(Byte)  BY <1>9, ReadStep
  <2>2. After(read[q]) \in Index  BY <1>9, RingTypes, AfterIs
  <2>3. read' = [read EXCEPT ![q] = After(read[q])]  BY <1>9 DEF ReadByte
  <2>4. read' \in [Ring -> Index]  BY <2>2, <2>3 DEF TypeOK, Index
  <2> QED  BY <1>9, <2>1, <2>4 DEF TypeOK, ReadByte, Index
<1>10. ASSUME NEW q \in Ring, EndRead(q)
       PROVE  TypeOK'
  <2>1. RecordIn(got) \in Message  BY <1>10, EndRecords
  <2>2. taken' = [taken EXCEPT ![q] = Append(taken[q], RecordIn(got))]  BY <1>10 DEF EndRead
  <2>3. Append(taken[q], RecordIn(got)) \in Seq(Message)
    BY <2>1, AppendProperties DEF TypeOK
  <2>4. taken' \in [Ring -> Seq(Message)]  BY <2>2, <2>3 DEF TypeOK
  <2>5. <<>> \in Seq(Byte)  BY EmptySeq
  <2> QED  BY <1>10, <2>4, <2>5 DEF TypeOK, EndRead, ringVars
<1> QED  BY <1>1, <1>2, <1>3, <1>4, <1>5, <1>6, <1>7, <1>8, <1>9, <1>10
         DEF Next, WriterStep, ReaderStep

\* The mutex and the message stay those of the tasks inside the call.
LEMMA StepWritersStand == ASSUME IInv, Next PROVE WritersStand'
<1>1. TypeOK /\ WritersStand  BY DEF IInv
<1>2. Sender \subseteq Writer /\ None \notin Writer  BY WritersAssumption DEF Writer
<1>3. ASSUME NEW w \in Writer, Enqueue(w)
      PROVE  WritersStand'
  <2>1. sent + 1 \in Message  BY <1>1, <1>3, SizesAssumption DEF TypeOK, Enqueue, Message
  <2>2. \A v \in Writer : message'[v] = IF v = w THEN sent + 1 ELSE message[v]
    BY <1>1, <1>3 DEF TypeOK, Enqueue
  <2>3. \A v \in Writer : pc'[v] = IF v = w THEN "check" ELSE pc[v]
    BY <1>1, <1>3 DEF TypeOK, Enqueue, Goto
  <2>4. pc[w] = "idle" /\ (w \in Sender => mutex = None) /\ mutex' = IF w \in Sender THEN w ELSE mutex
    BY <1>3 DEF Enqueue
  <2>5. \A v \in Writer : pc'[v] # "idle" => message'[v] \in Message
    BY <1>1, <2>1, <2>2, <2>3 DEF WritersStand
  <2>6. \A v \in Sender : pc'[v] \in {"check", "copy"} <=> mutex' = v
    BY <1>1, <1>2, <2>3, <2>4 DEF WritersStand
  <2> QED  BY <2>5, <2>6 DEF WritersStand
<1>4. ASSUME NEW w \in Writer, Full(w) \/ Publish(w)
      PROVE  WritersStand'
  <2>1. \A v \in Writer : pc'[v] = IF v = w THEN pc'[w] ELSE pc[v]
    BY <1>1, <1>4 DEF TypeOK, Full, Publish, Goto
  <2>2. /\ pc'[w] \in {"idle", "post"} /\ pc[w] \in {"check", "copy"}
        /\ mutex' = (IF w \in Sender THEN None ELSE mutex) /\ message' = message
    BY <1>1, <1>4 DEF TypeOK, Full, Publish, Goto, Unlocks
  <2>3. \A v \in Writer : pc'[v] # "idle" => message'[v] \in Message
    BY <1>1, <2>1, <2>2 DEF WritersStand
  <2>4. \A v \in Sender : pc'[v] \in {"check", "copy"} <=> mutex' = v
    BY <1>1, <1>2, <2>1, <2>2 DEF WritersStand
  <2> QED  BY <2>3, <2>4 DEF WritersStand
<1>5. ASSUME NEW w \in Writer, Begin(w) \/ Post(w)
      PROVE  WritersStand'
  <2>1. \A v \in Writer : pc'[v] = IF v = w THEN pc'[w] ELSE pc[v]
    BY <1>1, <1>5 DEF TypeOK, Begin, Post, Goto
  <2>2. /\ pc[w] # "idle" /\ UNCHANGED <<mutex, message>>
        /\ pc'[w] \in {"check", "copy"} <=> pc[w] \in {"check", "copy"}
    BY <1>1, <1>5 DEF TypeOK, Begin, Post, Goto
  <2>3. \A v \in Writer : pc'[v] # "idle" => message'[v] \in Message
    BY <1>1, <2>1, <2>2 DEF WritersStand
  <2>4. \A v \in Sender : pc'[v] \in {"check", "copy"} <=> mutex' = v
    BY <1>1, <1>2, <2>1, <2>2 DEF WritersStand
  <2> QED  BY <2>3, <2>4 DEF WritersStand
<1>6. ASSUME UNCHANGED <<pc, mutex, message>>
      PROVE  WritersStand'
  BY <1>1, <1>6 DEF WritersStand
<1>7. \/ \E w \in Writer : Enqueue(w) \/ Full(w) \/ Publish(w) \/ Begin(w) \/ Post(w)
      \/ UNCHANGED <<pc, mutex, message>>
  BY DEF Next, WriterStep, ReaderStep, CopyByte, TakeToken, StartRead, ReadByte, EndRead
<1> QED  BY <1>3, <1>4, <1>5, <1>6, <1>7

\* What a writer copied stays where it put it, behind the write cursor.
LEMMA StepCopying == ASSUME IInv, Next PROVE Copying'
<1> USE DEF IInv
<1> DEFINE At(v) ==
      Behind(read[RingOf(v)], write[RingOf(v)], cursor[v], data[RingOf(v)], message[v])
<1>1. ASSUME NEW w \in Writer, Enqueue(w) \/ Full(w) \/ Post(w)
      PROVE  Copying'
  <2>1. UNCHANGED <<read, write, cursor, data>>
    BY <1>1 DEF Enqueue, Full, Post, ringVars
  <2>2. \A v \in Writer : pc'[v] = "copy" => pc[v] = "copy" /\ message'[v] = message[v]
    BY <1>1 DEF TypeOK, Enqueue, Full, Post, Goto
  <2> QED  BY <2>1, <2>2 DEF Copying
<1>2. ASSUME NEW w \in Writer, Begin(w)
      PROVE  Copying'
  <2>1. UNCHANGED <<read, write, data, message>>
    BY <1>2 DEF Begin, ringVars
  <2>2. \A v \in Writer : v # w /\ pc'[v] = "copy" => pc[v] = "copy" /\ cursor'[v] = cursor[v]
    BY <1>2 DEF TypeOK, Begin, Goto
  <2>3. cursor'[w] = write[RingOf(w)] /\ Fits(RingOf(w))  BY <1>2 DEF TypeOK, Begin
  <2>4. PICK b \in Index : b = write[RingOf(w)]  BY <1>2, WriterTypes, RingTypes
  <2>5. Between(b, b) = 0
    <3>1. Between(b, b) = IF b <= b THEN b - b ELSE b + Size - b  BY BetweenIs
    <3> QED  BY <3>1, SizesAssumption DEF Index
  <2>6. Behind(read[RingOf(w)], b, b, data[RingOf(w)], message[w])
    <3>1. \A i \in 1 .. 0 : FALSE  OBVIOUS
    <3>2. 0 <= Length  BY SizesAssumption
    <3> QED  BY <2>3, <2>4, <2>5, <3>1, <3>2 DEF Behind, Fits, Used
  <2> QED  BY <2>1, <2>2, <2>3, <2>4, <2>6 DEF Copying
<1>3. ASSUME NEW w \in Writer, CopyByte(w)
      PROVE  Copying'
  <2> DEFINE c == cursor[w]
  <2>1. UNCHANGED <<read, write, pc, message>> /\ pc[w] = "copy" /\ Copied(w) < Length
    BY <1>3 DEF CopyByte
  <2>2. PICK q \in Ring : q = RingOf(w)  BY <1>3, WriterTypes
  <2>3. data[q] \in Cells /\ read[q] \in Index /\ write[q] \in Index /\ c \in Index
    BY <1>3, RingTypes, WriterTypes
  <2>4. PICK k \in Nat : k = Between(write[q], c)  BY <2>3, StoredIs
  <2>5. Copied(w) = k  BY <2>2, <2>4 DEF Copied
  <2>6. /\ Length <= Size - 1 - Between(read[q], write[q])
        /\ \A i \in 1 .. k : data[q][Cell(write[q], i)] = <<message[w], i>>
    BY <1>3, <2>1, <2>2, <2>4 DEF Copying, Behind
  <2>7. Between(read[q], write[q]) \in Nat /\ k < Length  BY <2>1, <2>3, <2>5, StoredIs
  <2>8. k + 1 < Size  BY <2>6, <2>7, SizesAssumption
  <2>9. /\ Between(write[q], After(c)) = k + 1
        /\ Cell(write[q], k + 1) = c
        /\ \A i \in 1 .. k : Cell(write[q], i) # c
    BY <2>3, <2>4, <2>8, OneFurther
  <2>10. data'[q] = [data[q] EXCEPT ![c] = <<message[w], k + 1>>] /\ cursor'[w] = After(c)
    BY <1>3, <2>2, <2>5 DEF TypeOK, CopyByte
  <2>11. ASSUME NEW i \in 1 .. k + 1
         PROVE  data'[q][Cell(write[q], i)] = <<message[w], i>>
    <3>1. CASE i \in 1 .. k
      <4>1. Cell(write[q], i) # c  BY <2>9, <3>1
      <4>2. data'[q][Cell(write[q], i)] = data[q][Cell(write[q], i)]
        <5>1. i \in 1 .. Size  BY <2>8, SizesAssumption
        <5>2. Cell(write[q], i) \in Index  BY <2>3, <5>1, CellIs
        <5> QED  BY <2>3, <2>10, <4>1, <5>2 DEF Cells
      <4> QED  BY <2>6, <3>1, <4>2
    <3>2. CASE i = k + 1
      BY <2>3, <2>9, <2>10, <3>2 DEF Cells
    <3> QED  BY <2>4, <3>1, <3>2
  <2>12. Behind(read[q], write[q], cursor'[w], data'[q], message[w])
    <3>1. k + 1 <= Length  BY <2>7, SizesAssumption
    <3> QED  BY <2>6, <2>9, <2>10, <2>11, <3>1 DEF Behind
  <2>13. ASSUME NEW v \in Writer, v # w, pc[v] = "copy"
         PROVE  cursor'[v] = cursor[v] /\ data'[RingOf(v)] = data[RingOf(v)]
    <3>1. RingOf(v) # RingOf(w)  BY <1>3, <2>1, <2>13, Alone
    <3> QED  BY <1>3, <2>13, <3>1, WriterTypes DEF TypeOK, CopyByte
  <2> QED  BY <2>1, <2>2, <2>12, <2>13 DEF Copying
<1>4. ASSUME NEW w \in Writer, Publish(w)
      PROVE  Copying'
  <2>1. UNCHANGED <<read, cursor, data, message>> /\ pc[w] = "copy"
    BY <1>4 DEF Publish
  <2>2. ASSUME NEW v \in Writer, pc'[v] = "copy"
        PROVE  pc[v] = "copy" /\ write'[RingOf(v)] = write[RingOf(v)]
    <3>1. pc[v] = "copy" /\ v # w  BY <1>4, <2>2 DEF TypeOK, Publish, Goto
    <3>2. RingOf(v) # RingOf(w)  BY <1>4, <2>1, <2>2, <3>1, Alone
    <3> QED  BY <1>4, <2>2, <3>1, <3>2, WriterTypes DEF TypeOK, Publish
  <2> QED  BY <2>1, <2>2 DEF Copying
<1>5. ASSUME NEW q \in Ring, ReadByte(q)
      PROVE  Copying'
  <2>1. UNCHANGED <<write, cursor, data, message, pc>>  BY <1>5 DEF ReadByte
  <2>2. Between(read'[q], write[q]) = Between(read[q], write[q]) - 1  BY <1>5, ReadStep
  <2>3. Between(read[q], write[q]) \in Nat  BY <1>5, RingTypes, StoredIs
  <2>4. ASSUME NEW v \in Writer, pc[v] = "copy"
        PROVE  Behind(read'[RingOf(v)], write[RingOf(v)], cursor[v], data[RingOf(v)], message[v])
    <3>1. At(v)  BY <2>4 DEF Copying
    <3>2. CASE RingOf(v) = q
      <4>1. Length <= Size - 1 - Between(read'[q], write[q])
        BY <2>2, <2>3, <3>1, <3>2, SizesAssumption DEF Behind
      <4> QED  BY <3>1, <3>2, <4>1 DEF Behind
    <3>3. CASE RingOf(v) # q
      <4>1. read'[RingOf(v)] = read[RingOf(v)]
        BY <1>5, <2>4, <3>3, WriterTypes DEF TypeOK, ReadByte
      <4> QED  BY <3>1, <4>1
    <3> QED  BY <3>2, <3>3
  <2> QED  BY <2>1, <2>4 DEF Copying
<1>6. ASSUME UNCHANGED <<read, write, cursor, data, message, pc>>
      PROVE  Copying'
  BY <1>6 DEF Copying
<1>7. \/ \E w \in Writer : Enqueue(w) \/ Full(w) \/ Post(w) \/ Begin(w) \/ CopyByte(w) \/ Publish(w)
      \/ \E q \in Ring : ReadByte(q)
      \/ UNCHANGED <<read, write, cursor, data, message, pc>>
  BY DEF Next, WriterStep, ReaderStep, TakeToken, StartRead, EndRead, ringVars
<1> QED  BY <1>1, <1>2, <1>3, <1>4, <1>5, <1>6, <1>7

\* The record the reader is in stays there whole.
LEMMA StepReading == ASSUME IInv, Next PROVE Reading'
<1> USE DEF IInv
<1>1. ASSUME NEW w \in Writer, Enqueue(w) \/ Full(w) \/ Begin(w) \/ CopyByte(w) \/ Post(w)
      PROVE  Reading'
  <2>1. UNCHANGED <<source, got>>
    BY <1>1 DEF Enqueue, Full, Begin, CopyByte, Post, readerVars
  <2>2. Silent  BY <1>1 DEF Silent
  <2>3. \A r \in Ring : Unread(r)' = Unread(r)  BY <2>2, SilentRecords
  <2> QED  BY <2>1, <2>3 DEF Reading
<1>2. ASSUME NEW w \in Writer, Publish(w)
      PROVE  Reading'
  <2>1. UNCHANGED <<source, got>>  BY <1>2 DEF Publish, readerVars
  <2>2. ASSUME NEW r \in Ring, source = r
        PROVE  Length <= Len(Unread(r)')
    <3>1. Length <= Len(Unread(r)) /\ Unread(r) \in Seq(Byte) /\ Len(Unread(r)) \in Nat
      BY <2>2, SpelledIs DEF Reading
    <3>2. CASE r = RingOf(w)
      <4>1. Unread(r)' = Unread(r) \o BytesOf(message[w]) /\ message[w] \in Message
        BY <1>2, <3>2, PublishStep
      <4>2. Len(Unread(r)') = Len(Unread(r)) + Length
        BY <3>1, <4>1, BytesOfIs, ConcatProperties
      <4> QED  BY <3>1, <4>2, SizesAssumption
    <3>3. CASE r # RingOf(w)
      <4>1. Unread(r)' = Unread(r)  BY <1>2, <3>3, PublishStep
      <4> QED  BY <3>1, <4>1
    <3> QED  BY <3>2, <3>3
  <2> QED  BY <2>1, <2>2 DEF Reading
<1>3. ASSUME TakeToken
      PROVE  Reading'
  BY <1>3 DEF Reading, TakeToken, Ring
<1>4. ASSUME NEW q \in Ring, StartRead(q)
      PROVE  Reading'
  <2>1. Begun(q) = <<>> /\ got = <<>> /\ got' = got /\ source' = q
    BY <1>4 DEF Reading, StartRead, Begun, Ring
  <2>2. Unread(q)' = Unread(q)
    <3>1. Silent  BY <1>4 DEF Silent
    <3> QED  BY <1>4, <3>1, SilentRecords
  <2>3. Len(Unread(q)) = Used(q)
    <3> DEFINE u == Stored(read[q], write[q], data[q])
    <3>1. u \in Seq(Byte \cup {None}) /\ Len(u) = Used(q)
      BY <1>4, RingTypes, StoredIs DEF Used
    <3>2. Unread(q) = <<>> \o u  BY <1>4, <2>1, UnreadIs
    <3> HIDE DEF u
    <3>3. <<>> \o u = u  BY <3>1, ConcatEmptySeq
    <3> QED  BY <3>1, <3>2, <3>3
  <2>4. Length <= Used(q)  BY <1>4 DEF StartRead, Available
  <2>5. Len(got) <= Length  BY DEF Reading
  <2> QED  BY <1>4, <2>1, <2>2, <2>3, <2>4, <2>5 DEF Reading
<1>5. ASSUME NEW q \in Ring, ReadByte(q)
      PROVE  Reading'
  <2>1. \A r \in Ring : Unread(r)' = Unread(r)  BY <1>5, ReadStep
  <2>2. Len(got') <= Length /\ source' = source /\ source = q  BY <1>5, ReadStep DEF ReadByte
  <2> QED  BY <1>5, <2>1, <2>2 DEF Reading
<1>6. ASSUME NEW q \in Ring, EndRead(q)
      PROVE  Reading'
  <2>1. source' = "wait" /\ got' = <<>>  BY <1>6 DEF EndRead
  <2> QED  BY <2>1, SizesAssumption DEF Reading, Ring
<1> QED  BY <1>1, <1>2, <1>3, <1>4, <1>5, <1>6 DEF Next, WriterStep, ReaderStep

\* The writers between publish and post.
Posting == {w \in Writer : pc[w] = "post"}

\* They are finitely many, and one more or one less is counted.
LEMMA PostingIs ==
    /\ IsFiniteSet(Posting) /\ Cardinality(Posting) \in Nat
    /\ \A w \in Writer : w \notin Posting => Cardinality(Posting \cup {w}) = Cardinality(Posting) + 1
    /\ \A w \in Posting : Cardinality(Posting \ {w}) = Cardinality(Posting) - 1
<1>1. Posting \subseteq Writer  BY DEF Posting
<1>2. IsFiniteSet(Posting)  BY <1>1, FiniteAssumption, FS_Subset
<1> QED  BY <1>2, FS_CardinalityType, FS_AddElement, FS_RemoveElement

\* A published record, a posted token and an ended read balance each other.
LEMMA StepTokens == ASSUME IInv, Next PROVE TokenPerRecord'
<1> USE DEF IInv
<1> DEFINE a == Len(RecordsOf("locked"))
           b == Len(RecordsOf("deferred"))
           p == Cardinality(Posting)
<1>1. "locked" \in Ring /\ "deferred" \in Ring  BY DEF Ring
<1>2. a \in Nat /\ b \in Nat /\ p \in Nat /\ tokens \in Nat
  BY <1>1, SpelledIs, PostingIs DEF TypeOK
<1>3. a + b = tokens + Held + p  BY DEF TokenPerRecord, Posting
<1>4. ASSUME a' + b' = tokens' + Held' + p'
      PROVE  TokenPerRecord'
  BY <1>4 DEF TokenPerRecord, Posting
<1>5. Silent => a' = a /\ b' = b  BY <1>1, SilentRecords
<1> HIDE DEF a, b
<1>6. ASSUME NEW w \in Writer, Enqueue(w) \/ Full(w) \/ Begin(w) \/ CopyByte(w)
      PROVE  a' + b' = tokens' + Held' + p'
  <2>1. Silent  BY <1>6 DEF Silent
  <2>2. UNCHANGED <<tokens, source>>
    BY <1>6 DEF Enqueue, Full, Begin, CopyByte, readerVars
  <2>3. \A v \in Writer : pc'[v] = "post" <=> pc[v] = "post"
    BY <1>6 DEF TypeOK, Enqueue, Full, Begin, CopyByte, Goto
  <2>4. Posting' = Posting  BY <2>3 DEF Posting
  <2> QED  BY <1>3, <1>5, <2>1, <2>2, <2>4 DEF Held
<1>7. ASSUME NEW w \in Writer, Publish(w)
      PROVE  a' + b' = tokens' + Held' + p'
  <2>1. UNCHANGED <<tokens, source>>  BY <1>7 DEF Publish, readerVars
  <2>2. p' = p + 1
    <3>1. \A v \in Writer : pc'[v] = IF v = w THEN "post" ELSE pc[v]
      BY <1>7 DEF TypeOK, Publish, Goto
    <3>2. w \notin Posting  BY <1>7 DEF Posting, Publish
    <3>3. Posting' = Posting \cup {w}  BY <1>7, <3>1 DEF Posting
    <3> QED  BY <1>7, <3>2, <3>3, PostingIs
  <2>3. a' + b' = a + b + 1
    <3>1. ASSUME NEW r \in Ring
          PROVE  Len(RecordsOf(r)') = IF r = RingOf(w) THEN Len(RecordsOf(r)) + 1
                                                       ELSE Len(RecordsOf(r))
      <4>1. message[w] \in Message /\ RecordsOf(r) \in Seq(Message)
        BY <1>7, PublishRecords, SpelledIs
      <4> QED  BY <1>7, <4>1, PublishRecords, AppendProperties
    <3>2. RingOf(w) = "locked" \/ RingOf(w) = "deferred"  BY DEF RingOf
    <3> QED  BY <1>1, <1>2, <3>1, <3>2 DEF a, b
  <2> QED  BY <1>2, <1>3, <2>1, <2>2, <2>3 DEF Held
<1>8. ASSUME NEW w \in Writer, Post(w)
      PROVE  a' + b' = tokens' + Held' + p'
  <2>1. Silent  BY <1>8 DEF Silent
  <2>2. tokens' = tokens + 1 /\ source' = source  BY <1>8 DEF Post, readerVars
  <2>3. p' = p - 1
    <3>1. \A v \in Writer : pc'[v] = IF v = w THEN "idle" ELSE pc[v]
      BY <1>8 DEF TypeOK, Post, Goto
    <3>2. w \in Posting  BY <1>8 DEF Posting, Post
    <3>3. Posting' = Posting \ {w}  BY <1>8, <3>1 DEF Posting
    <3> QED  BY <3>2, <3>3, PostingIs
  <2> QED  BY <1>2, <1>3, <1>5, <2>1, <2>2, <2>3 DEF Held
<1>9. ASSUME TakeToken
      PROVE  a' + b' = tokens' + Held' + p'
  <2>1. Silent  BY <1>9 DEF Silent
  <2>2. tokens' = tokens - 1 /\ source' = "token" /\ source = "wait" /\ pc' = pc
    BY <1>9 DEF TakeToken
  <2>3. p' = p  BY <2>2 DEF Posting
  <2> QED  BY <1>2, <1>3, <1>5, <2>1, <2>2, <2>3 DEF Held
<1>10. ASSUME NEW q \in Ring, StartRead(q) \/ ReadByte(q)
       PROVE  a' + b' = tokens' + Held' + p'
  <2>1. Silent  BY <1>10 DEF Silent
  <2>2. UNCHANGED <<tokens, pc>> /\ source' # "wait" /\ source # "wait"
    BY <1>10 DEF StartRead, ReadByte, Ring
  <2>3. p' = p  BY <2>2 DEF Posting
  <2> QED  BY <1>2, <1>3, <1>5, <2>1, <2>2, <2>3 DEF Held
<1>11. ASSUME NEW q \in Ring, EndRead(q)
       PROVE  a' + b' = tokens' + Held' + p'
  <2>1. UNCHANGED <<tokens, pc>> /\ source' = "wait" /\ source # "wait"
    BY <1>11 DEF EndRead, Ring
  <2>2. p' = p  BY <2>1 DEF Posting
  <2>3. a' + b' = a + b - 1
    <3>1. ASSUME NEW r \in Ring
          PROVE  Len(RecordsOf(r)') = IF r = q THEN Len(RecordsOf(r)) - 1 ELSE Len(RecordsOf(r))
      BY <1>11, EndRecords
    <3>2. q = "locked" \/ q = "deferred"  BY <1>11 DEF Ring
    <3> QED  BY <1>1, <1>2, <3>1, <3>2 DEF a, b
  <2> QED  BY <1>2, <1>3, <2>1, <2>2, <2>3 DEF Held
<1> QED  BY <1>4, <1>6, <1>7, <1>8, <1>9, <1>10, <1>11 DEF Next, WriterStep, ReaderStep

\* Both rings are empty at first.
LEMMA AtFirst ==
    ASSUME Init, NEW r \in Ring
    PROVE  Unread(r) = <<>> /\ RecordsOf(r) = <<>> /\ Spells(Unread(r), RecordsOf(r))
<1>1. Size \in Nat /\ Size > 1  BY SizesAssumption
<1>2. 0 \in Index  BY <1>1 DEF Index
<1>3. data[r] \in Cells /\ read[r] = 0 /\ write[r] = 0 /\ source \notin Ring
  BY DEF Init, Cells, Index, Ring
<1>4. Between(0, 0) = 0
  <2>1. Between(0, 0) = IF 0 <= 0 THEN 0 - 0 ELSE 0 + Size - 0  BY <1>2, BetweenIs
  <2> QED  BY <2>1
<1>5. Stored(0, 0, data[r]) \in Seq(Byte \cup {None}) /\ Len(Stored(0, 0, data[r])) = 0
  BY <1>2, <1>3, <1>4, StoredIs
<1>6. Stored(0, 0, data[r]) = <<>>  BY <1>5, EmptySeq
<1>7. Begun(r) = <<>>  BY <1>3 DEF Begun
<1>8. Unread(r) = <<>>  BY <1>3, <1>6, <1>7, UnreadIs, ConcatEmptySeq, EmptySeq
<1>9. Spells(<<>>, <<>>)  BY SizesAssumption DEF Spells
<1> QED  BY <1>8, <1>9, SpellsSplit, UnreadIs

\* The invariant at the start.
LEMMA InitInv == Init => IInv
<1> SUFFICES ASSUME Init PROVE IInv  OBVIOUS
<1>1. TypeOK
  <2>1. 0 \in 0 .. Size - 1 /\ 0 \in 0 .. MaxSent  BY SizesAssumption
  <2> QED  BY <2>1, EmptySeq DEF Init, TypeOK, Labels
<1>2. WritersStand  BY WritersAssumption DEF Init, WritersStand, Writer
<1>3. Copying  BY DEF Init, Copying
<1>4. Reading  BY SizesAssumption DEF Init, Reading, Ring
<1>5. Spelled  BY AtFirst DEF Spelled
<1>6. TokenPerRecord
  <2>1. Len(RecordsOf("locked")) = 0 /\ Len(RecordsOf("deferred")) = 0  BY AtFirst DEF Ring
  <2>2. {w \in Writer : pc[w] = "post"} = {}  BY DEF Init
  <2>3. tokens = 0 /\ Held = 0  BY DEF Init, Held
  <2> QED  BY <2>1, <2>2, <2>3, FS_EmptySet DEF TokenPerRecord
<1> QED  BY <1>1, <1>2, <1>3, <1>4, <1>5, <1>6 DEF IInv

\* The invariant over a step that changes nothing.
LEMMA StutterInv == ASSUME IInv, UNCHANGED vars PROVE IInv'
<1>1. UNCHANGED <<data, read, write, mutex, tokens, pc, message, cursor, sent, source, got, taken>>
  BY DEF vars
<1>2. \A r \in Ring : Unread(r)' = Unread(r) /\ RecordsOf(r)' = RecordsOf(r)
  BY <1>1 DEF Unread, Used, RecordsOf
<1>3. TypeOK'  BY <1>1 DEF IInv, TypeOK
<1>4. WritersStand'  BY <1>1 DEF IInv, WritersStand
<1>5. Copying'  BY <1>1 DEF IInv, Copying
<1>6. Reading'  BY <1>1, <1>2 DEF IInv, Reading
<1>7. Spelled'
  <2>1. \A r \in Ring : Spells(Unread(r), RecordsOf(r))'
    BY <1>2, RecordsStay DEF IInv
  <2> QED  BY <2>1 DEF Spelled
<1>8. TokenPerRecord'
  <2>1. RecordsOf("locked")' = RecordsOf("locked") /\ RecordsOf("deferred")' = RecordsOf("deferred")
    BY <1>2 DEF Ring
  <2> QED  BY <1>1, <2>1 DEF IInv, TokenPerRecord, Held
<1> QED  BY <1>3, <1>4, <1>5, <1>6, <1>7, <1>8 DEF IInv

\* The inductive invariant holds of every reachable state.
THEOREM Invariance == Spec => []IInv
<1>1. Init => IInv  BY InitInv
<1>2. IInv /\ [Next]_vars => IInv'
  <2> SUFFICES ASSUME IInv, [Next]_vars PROVE IInv'  OBVIOUS
  <2>1. CASE Next
    BY <2>1, StepType, StepWritersStand, StepCopying, StepReading, StepSpelled, StepTokens DEF IInv
  <2>2. CASE UNCHANGED vars
    BY <2>2, StutterInv
  <2> QED  BY <2>1, <2>2
<1> QED  BY <1>1, <1>2, PTL DEF Spec

\* The variables keep their types: whatever the reader takes is a message, never a torn record.
THEOREM TypeCorrect == Spec => []TypeOK
<1>1. IInv => TypeOK  BY DEF IInv
<1> QED  BY <1>1, Invariance, PTL

\* A token, or a writer that is about to post one, for each record in the rings.
THEOREM TokenForEachRecord == Spec => []TokenPerRecord
<1>1. IInv => TokenPerRecord  BY DEF IInv
<1> QED  BY <1>1, Invariance, PTL

\* A reader that got a token finds a record in one of the rings: it never waits in the wrong place.
THEOREM TokenMeansRecord == Spec => [](source = "token" => \E r \in Ring : Available(r))
<1>1. ASSUME IInv, source = "token"
      PROVE  \E r \in Ring : Available(r)
  <2>1. \E r \in Ring : Len(RecordsOf(r)) > 0
    <3>1. "locked" \in Ring /\ "deferred" \in Ring  BY DEF Ring
    <3>2. Len(RecordsOf("locked")) \in Nat /\ Len(RecordsOf("deferred")) \in Nat
      BY <1>1, <3>1, SpelledIs DEF IInv
    <3>3. tokens \in Nat /\ Cardinality(Posting) \in Nat /\ Held = 1
      BY <1>1, PostingIs DEF IInv, TypeOK, Held
    <3>4. Len(RecordsOf("locked")) + Len(RecordsOf("deferred"))
            = tokens + Held + Cardinality(Posting)
      BY <1>1 DEF IInv, TokenPerRecord, Posting
    <3> QED  BY <3>1, <3>2, <3>3, <3>4
  <2>2. PICK r \in Ring : Len(RecordsOf(r)) > 0  BY <2>1
  <2> DEFINE u == Stored(read[r], write[r], data[r])
  <2>3. u \in Seq(Byte \cup {None}) /\ Len(u) = Used(r)
    BY <1>1, RingTypes, StoredIs DEF IInv, Used
  <2>4. Unread(r) = <<>> \o u
    <3>1. Begun(r) = <<>>  BY <1>1 DEF Begun, Ring
    <3> QED  BY <3>1, UnreadIs
  <2> HIDE DEF u
  <2>5. <<>> \o u = u  BY <2>3, ConcatEmptySeq
  <2>6. Len(Unread(r)) = Used(r)  BY <2>3, <2>4, <2>5
  <2>7. Length <= Len(Unread(r))
    <3>1. Len(RecordsOf(r)) \in Nat /\ Len(Unread(r)) = Len(RecordsOf(r)) * Length
      BY <1>1, SpelledIs DEF IInv
    <3>2. PICK n \in Nat : Len(RecordsOf(r)) = n + 1
      <4>1. Len(RecordsOf(r)) - 1 \in Nat /\ Len(RecordsOf(r)) = (Len(RecordsOf(r)) - 1) + 1
        BY <2>2, <3>1
      <4> QED  BY <4>1
    <3>3. n * Length \in Nat /\ (n + 1) * Length = n * Length + Length  BY SizesAssumption
    <3> QED  BY <3>1, <3>2, <3>3, SizesAssumption
  <2> QED  BY <2>6, <2>7 DEF Available
<1> QED  BY <1>1, Invariance, PTL

-----------------------------------------------------------------------------
(* The rings are queues of whole records *)

Capacity == (Size - 1) \div Length

\* A record that fits is one of the Capacity records.
LEMMA Room ==
    ASSUME NEW n \in Nat, (n + 1) * Length <= Size - 1
    PROVE  n < Capacity
<1>1. Length \in Nat /\ Length > 0 /\ Size - 1 \in Nat  BY SizesAssumption
<1>2. PICK x \in Nat : x = Size - 1  BY <1>1
<1>3. PICK k \in Nat : k = n + 1  OBVIOUS
<1>4. k * Length <= x  BY <1>2, <1>3
<1>5. k <= x \div Length  BY <1>1, <1>4
<1>6. x \div Length = Capacity  BY <1>2 DEF Capacity
<1>7. Capacity \in Nat
  <2>1. x \div Length \in Nat  BY <1>1
  <2> QED  BY <1>6, <2>1
<1> QED  BY <1>3, <1>5, <1>6, <1>7

\* While the reader is in a record, it is one of the ring's.
LEMMA FirstRecord ==
    ASSUME IInv, NEW r \in Ring, Length <= Len(Unread(r))
    PROVE  Len(RecordsOf(r)) > 0 /\ RecordsOf(r) # <<>>
<1>1. /\ Len(RecordsOf(r)) \in Nat /\ RecordsOf(r) \in Seq(Message)
      /\ Len(Unread(r)) = Len(RecordsOf(r)) * Length
  BY SpelledIs DEF IInv
<1>2. Length \in Nat /\ Length > 0  BY SizesAssumption
<1>3. Len(RecordsOf(r)) = 0 => Len(RecordsOf(r)) * Length = 0  BY <1>2
<1>4. Len(RecordsOf(r)) > 0  BY <1>1, <1>2, <1>3
<1> QED  BY <1>1, <1>4

\* What a step of the ring may do to the queue it implements.
QueueSteps(r) ==
    \/ Waiting(r)' = Waiting(r) /\ Received(r)' = Received(r)
    \/ /\ Waiting(r) # <<>>
       /\ Received(r)' = Append(Received(r), Head(Waiting(r)))
       /\ Waiting(r)' = Tail(Waiting(r))
    \/ \E m \in Message :
          /\ Len(Waiting(r)) < Capacity
          /\ Waiting(r)' = Append(Waiting(r), m)
          /\ Received(r)' = Received(r)

\* A step that keeps the reader's place, the records and what was taken is no step of the queue.
LEMMA QueueStays ==
    ASSUME NEW r \in Ring, RecordsOf(r)' = RecordsOf(r), taken'[r] = taken[r],
           source' = r <=> source = r
    PROVE  QueueSteps(r)
<1>1. Waiting(r)' = Waiting(r) /\ Received(r)' = Received(r)
  BY DEF Waiting, Received
<1> QED  BY <1>1 DEF QueueSteps

\* Every step of the rings is a step of the queue, or none: publish is Put, the start of a read is Get.
LEMMA StepQueue == ASSUME IInv, [Next]_vars, NEW r \in Ring PROVE QueueSteps(r)
<1> USE DEF IInv
<1> DEFINE q == RecordsOf(r)
<1>1. /\ Spells(Unread(r), q) /\ q \in Seq(Message) /\ Len(q) \in Nat
      /\ Len(Unread(r)) = Len(q) * Length /\ Unread(r) \in Seq(Byte)
  BY SpelledIs
<1>2. Length \in Nat /\ Length > 0 /\ Size \in Nat  BY SizesAssumption
<1>3. ASSUME NEW w \in Writer, Enqueue(w) \/ Full(w) \/ Begin(w) \/ CopyByte(w) \/ Post(w)
      PROVE  QueueSteps(r)
  <2>1. Silent  BY <1>3 DEF Silent
  <2>2. UNCHANGED <<source, taken>>
    BY <1>3 DEF Enqueue, Full, Begin, CopyByte, Post, readerVars
  <2> QED  BY <2>1, <2>2, SilentRecords, QueueStays
<1>4. ASSUME NEW w \in Writer, Publish(w)
      PROVE  QueueSteps(r)
  <2>1. UNCHANGED <<source, taken>>  BY <1>4 DEF Publish, readerVars
  <2>2. CASE r # RingOf(w)
    <3>1. RecordsOf(r)' = RecordsOf(r)  BY <1>4, <2>2, PublishRecords
    <3> QED  BY <2>1, <3>1, QueueStays
  <2>3. CASE r = RingOf(w)
    <3> DEFINE m == message[w]
    <3>1. m \in Message /\ RecordsOf(r)' = Append(q, m)  BY <1>4, <2>3, PublishRecords
    <3>2. Length <= Size - 1 - Between(read[r], write[r])  BY <1>4, <2>3, PublishStep
    <3>3. /\ Between(read[r], write[r]) \in Nat
          /\ Len(Unread(r)) = Len(Begun(r)) + Between(read[r], write[r])
      <4> DEFINE u == Stored(read[r], write[r], data[r])
      <4>1. u \in Seq(Byte \cup {None}) /\ Len(u) = Between(read[r], write[r]) /\ Len(u) \in Nat
        BY RingTypes, StoredIs
      <4>2. Unread(r) = Begun(r) \o u /\ Begun(r) \in Seq(Byte \cup {None})
        BY RingTypes, UnreadIs
      <4> HIDE DEF u
      <4> QED  BY <4>1, <4>2, ConcatProperties
    <3>4. CASE source # r
      <4>1. Begun(r) = <<>> /\ Len(Begun(r)) = 0  BY <3>4 DEF Begun
      <4>2. (Len(q) + 1) * Length = Len(q) * Length + Length  BY <1>1, <1>2
      <4>3. (Len(q) + 1) * Length <= Size - 1  BY <1>1, <1>2, <3>2, <3>3, <4>1, <4>2
      <4>4. Len(q) < Capacity  BY <1>1, <4>3, Room
      <4>5. /\ Waiting(r) = q /\ Waiting(r)' = Append(q, m)
            /\ Received(r)' = Received(r)
        BY <2>1, <3>1, <3>4 DEF Waiting, Received
      <4> QED  BY <3>1, <4>4, <4>5 DEF QueueSteps
    <3>5. CASE source = r
      <4>1. Len(q) > 0 /\ q # <<>>  BY <3>5, FirstRecord DEF Reading
      <4>2. Len(Begun(r)) <= Length /\ Len(Begun(r)) \in Nat
        BY <3>5 DEF Begun, Reading, TypeOK
      <4>3. PICK n \in Nat : Len(q) = n + 1
        <5>1. Len(q) - 1 \in Nat /\ Len(q) = (Len(q) - 1) + 1  BY <1>1, <4>1
        <5> QED  BY <5>1
      <4>4. Len(q) * Length <= Size - 1  BY <1>1, <1>2, <3>2, <3>3, <4>2
      <4>5. n < Capacity  BY <4>3, <4>4, Room
      <4>6. Len(Tail(q)) = n /\ Tail(q) \in Seq(Message)
        BY <1>1, <4>1, <4>3, HeadTailProperties
      <4>7. Tail(Append(q, m)) = Append(Tail(q), m) /\ Head(Append(q, m)) = Head(q)
        BY <1>1, <3>1, <4>1, HeadTailAppend
      <4>8. /\ Waiting(r) = Tail(q) /\ Waiting(r)' = Append(Tail(q), m)
            /\ Received(r)' = Received(r)
        BY <2>1, <3>1, <3>5, <4>7 DEF Waiting, Received
      <4> QED  BY <3>1, <4>5, <4>6, <4>8 DEF QueueSteps
    <3> QED  BY <3>4, <3>5
  <2> QED  BY <2>2, <2>3
<1>5. ASSUME TakeToken
      PROVE  QueueSteps(r)
  <2>1. Silent  BY <1>5 DEF Silent
  <2>2. source = "wait" /\ source' = "token" /\ taken' = taken  BY <1>5 DEF TakeToken
  <2> QED  BY <2>1, <2>2, SilentRecords, QueueStays DEF Ring
<1>6. ASSUME NEW p \in Ring, StartRead(p)
      PROVE  QueueSteps(r)
  <2>1. Silent  BY <1>6 DEF Silent
  <2>2. source = "token" /\ source' = p /\ taken' = taken  BY <1>6 DEF StartRead
  <2>3. RecordsOf(r)' = q  BY <2>1, SilentRecords
  <2>4. CASE r # p
    BY <2>2, <2>3, <2>4, QueueStays DEF Ring
  <2>5. CASE r = p
    <3>1. Reading'  BY <1>6, StepReading DEF Next, ReaderStep
    <3>2. Length <= Len(Unread(r)')  BY <2>2, <2>5, <3>1 DEF Reading
    <3>3. Unread(r)' = Unread(r)  BY <2>1, SilentRecords
    <3>4. q # <<>>  BY <3>2, <3>3, FirstRecord
    <3>5. /\ Waiting(r) = q /\ Received(r) = taken[r]
          /\ Waiting(r)' = Tail(q) /\ Received(r)' = Append(taken[r], Head(q))
      BY <2>2, <2>3, <2>5 DEF Waiting, Received, Ring
    <3> QED  BY <3>4, <3>5 DEF QueueSteps
  <2> QED  BY <2>4, <2>5
<1>7. ASSUME NEW p \in Ring, ReadByte(p)
      PROVE  QueueSteps(r)
  <2>1. Silent  BY <1>7 DEF Silent
  <2>2. UNCHANGED <<source, taken>>  BY <1>7 DEF ReadByte
  <2> QED  BY <2>1, <2>2, SilentRecords, QueueStays
<1>8. ASSUME NEW p \in Ring, EndRead(p)
      PROVE  QueueSteps(r)
  <2>1. source = p /\ source' = "wait"  BY <1>8 DEF EndRead
  <2>2. taken'[r] = IF r = p THEN Append(taken[r], RecordIn(got)) ELSE taken[r]
    BY <1>8 DEF EndRead, TypeOK
  <2>3. CASE r # p
    <3>1. RecordsOf(r)' = q  BY <1>8, <2>3, EndRecords
    <3> QED  BY <2>1, <2>2, <2>3, <3>1, QueueStays DEF Ring
  <2>4. CASE r = p
    <3>1. RecordsOf(r)' = Tail(q) /\ RecordIn(got) = Head(q)  BY <1>8, <2>4, EndRecords
    <3>2. Waiting(r)' = Waiting(r) /\ Received(r)' = Received(r)
      BY <2>1, <2>2, <2>4, <3>1 DEF Waiting, Received, Ring
    <3> QED  BY <3>2 DEF QueueSteps
  <2> QED  BY <2>3, <2>4
<1>9. ASSUME UNCHANGED vars
      PROVE  QueueSteps(r)
  <2>1. RecordsOf(r)' = q  BY <1>9 DEF vars, RecordsOf, Unread, Used
  <2> QED  BY <1>9, <2>1, QueueStays DEF vars
<1> QED  BY <1>3, <1>4, <1>5, <1>6, <1>7, <1>8, <1>9 DEF Next, WriterStep, ReaderStep

\* No record is torn, lost, doubled or overtaken in either ring, wherever its bytes wrap.
THEOREM Refinement == Spec => ImplementsQueues
<1>1. Init => LockedQueue!QueueInit /\ DeferredQueue!QueueInit
  <2> SUFFICES ASSUME Init PROVE LockedQueue!QueueInit /\ DeferredQueue!QueueInit  OBVIOUS
  <2>1. \A r \in Ring : Waiting(r) = <<>> /\ Received(r) = <<>>
    BY AtFirst DEF Init, Waiting, Received, Ring
  <2> QED  BY <2>1 DEF LockedQueue!QueueInit, DeferredQueue!QueueInit, Ring
<1>2. IInv /\ [Next]_vars => [LockedQueue!QueueNext]_(LockedQueue!queueVars)
  <2> SUFFICES ASSUME IInv, [Next]_vars
               PROVE  [LockedQueue!QueueNext]_(LockedQueue!queueVars)
    OBVIOUS
  <2>1. QueueSteps("locked")  BY StepQueue DEF Ring
  <2> QED  BY <2>1 DEF QueueSteps, Capacity, LockedQueue!QueueNext, LockedQueue!queueVars,
                       LockedQueue!Get, LockedQueue!Put
<1>3. IInv /\ [Next]_vars => [DeferredQueue!QueueNext]_(DeferredQueue!queueVars)
  <2> SUFFICES ASSUME IInv, [Next]_vars
               PROVE  [DeferredQueue!QueueNext]_(DeferredQueue!queueVars)
    OBVIOUS
  <2>1. QueueSteps("deferred")  BY StepQueue DEF Ring
  <2> QED  BY <2>1 DEF QueueSteps, Capacity, DeferredQueue!QueueNext, DeferredQueue!queueVars,
                       DeferredQueue!Get, DeferredQueue!Put
<1> QED  BY <1>1, <1>2, <1>3, Invariance, PTL
         DEF Spec, ImplementsQueues, LockedQueue!QueueSpec, DeferredQueue!QueueSpec
=============================================================================
