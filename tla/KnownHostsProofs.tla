--------------------------- MODULE KnownHostsProofs ---------------------------
(***************************************************************************)
(* However many connections, hosts and keys there are: as long as hosts    *)
(* are learned one at a time and no learning breaks off, known_hosts is a  *)
(* book of whole lines, and what the first line of a host says is what was *)
(* accepted by all that could read it.                                     *)
(***************************************************************************)
EXTENDS KnownHosts, SequenceTheorems, TLAPS

(* The file is the beginning of n lines, H and K their hosts and keys.     *)
Lines(n, H, K) ==
    /\ Len(file) <= 4 * n
    /\ \A j \in 1..n :
        /\ 4 * j - 3 <= Len(file) => file[4 * j - 3] = Id(H[j])
        /\ 4 * j - 2 <= Len(file) => file[4 * j - 2] = Space
        /\ 4 * j - 1 <= Len(file) => file[4 * j - 1] = KeyText(K[j])
        /\ 4 * j     <= Len(file) => file[4 * j] = NewLine

(* Line i is the first of a host; those that could not read the file have  *)
(* written the others.                                                     *)
FirstLine(i, h, n, H) ==
    /\ i \in 1..n /\ H[i] = h
    /\ \A j \in 1..n : H[j] = h => i <= j

HasFirst(h, n, H) == \E i \in 1..n : FirstLine(i, h, n, H)

Book(n, H, K) ==
    /\ n \in Nat /\ H \in [1..n -> Host] /\ K \in [1..n -> Key]
    /\ \A j \in 1..n : HasFirst(H[j], n, H)
    /\ Lines(n, H, K)

(* Line j of the book can be read: all of it is there but its end.         *)
Readable(j) == 4 * j - 1 <= Len(file)

(* The first line of a host can be read and says k.                        *)
Listed(h, k, n, H, K) ==
    \E j \in 1..n : FirstLine(j, h, n, H) /\ K[j] = k /\ Readable(j)

(* The book has no line of a host.                                         *)
Unlisted(h, n, H) == \A j \in 1..n : H[j] # h

-----------------------------------------------------------------------------
(* The fragments are told apart.                                           *)
LEMMA FragmentsDistinct ==
    /\ \A h, g : Id(h) = Id(g) => h = g
    /\ \A h : Id(h) # Space /\ Id(h) # NewLine
    /\ \A k : KeyText(k) # Space /\ KeyText(k) # NewLine
    /\ \A k : KeyText(k).is = "key" /\ KeyText(k).val = k
    /\ Space # NewLine
BY DEF Id, Space, NewLine, KeyText

(* The least of a set of numbers.                                          *)
LEMMA LeastIs ==
    ASSUME NEW S \in SUBSET Int, NEW m \in S, \A x \in S : m <= x
    PROVE  Min(S) = m
<1>1. Min(S) \in S /\ Min(S) <= m
  BY DEF Min
<1>2. PICK x : x = Min(S)
  OBVIOUS
<1>3. x \in Int /\ m \in Int /\ x <= m /\ m <= x
  BY <1>1, <1>2
<1>q. QED
  BY <1>2, <1>3

(* And the greatest.                                                       *)
LEMMA GreatestIs ==
    ASSUME NEW S \in SUBSET Int, NEW m \in S, \A x \in S : x <= m
    PROVE  Max(S) = m
<1>1. Max(S) \in S /\ m <= Max(S)
  BY DEF Max
<1>2. PICK x : x = Max(S)
  OBVIOUS
<1>3. x \in Int /\ m \in Int /\ x <= m /\ m <= x
  BY <1>1, <1>2
<1>q. QED
  BY <1>2, <1>3

(* Each place of the file is one of the four of a line.                    *)
LEMMA PlaceInLine ==
    ASSUME NEW n \in Nat, NEW x \in 1..(4 * n)
    PROVE  \E j \in 1..n : x \in {4 * j - 3, 4 * j - 2, 4 * j - 1, 4 * j}
<1> DEFINE j == (x + 3) \div 4
<1>1. j \in Int /\ 4 * j <= x + 3 /\ x + 3 < 4 * j + 4
  OBVIOUS
<1> HIDE DEF j
<1>2. j \in 1..n /\ x \in {4 * j - 3, 4 * j - 2, 4 * j - 1, 4 * j}
  BY <1>1
<1>q. QED
  BY <1>2

(* What a line of the book looks like to the reader.                       *)
LEMMA LineRead ==
    ASSUME file \in Seq(Fragments), NEW n, NEW H, NEW K, Book(n, H, K),
           NEW j \in 1..n, 4 * j - 3 <= Len(file)
    PROVE  /\ LineAt(4 * j - 3) =
                  SubSeq(file, 4 * j - 3,
                         IF Readable(j) THEN 4 * j - 1 ELSE Len(file))
<1> DEFINE S == {x \in (4 * j - 3)..Len(file) : file[x] = NewLine} \cup {Len(file) + 1}
<1>1. Len(file) \in Nat /\ n \in Nat /\ j \in Nat
  BY LenProperties DEF Book
<1>2. /\ file[4 * j - 3] # NewLine
      /\ 4 * j - 2 <= Len(file) => file[4 * j - 2] # NewLine
      /\ 4 * j - 1 <= Len(file) => file[4 * j - 1] # NewLine
      /\ 4 * j     <= Len(file) => file[4 * j] = NewLine
  BY ZenonT(60), FragmentsDistinct DEF Book, Lines
<1>3. S \in SUBSET Int
  BY <1>1
<1>4. CASE 4 * j <= Len(file)
  <2>1. 4 * j \in S
    BY <1>1, <1>2, <1>4
  <2>2. ASSUME NEW x \in S PROVE 4 * j <= x
    BY <1>1, <1>2, <1>4
  <2> HIDE DEF S
  <2>3. Min(S) = 4 * j
    BY <1>3, <2>1, <2>2, LeastIs
  <2>4. Min(S) - 1 = 4 * j - 1 /\ Readable(j)
    BY <1>1, <1>4, <2>3 DEF Readable
  <2>q. QED
    BY <2>4 DEF LineAt, S
<1>5. CASE ~(4 * j <= Len(file))
  <2>1. Len(file) + 1 \in S
    OBVIOUS
  <2>2. ASSUME NEW x \in S PROVE Len(file) + 1 <= x
    BY <1>1, <1>2, <1>5
  <2> HIDE DEF S
  <2>3. Min(S) = Len(file) + 1
    BY <1>3, <2>1, <2>2, LeastIs
  <2>4. Min(S) - 1 = Len(file) /\ (Readable(j) => 4 * j - 1 = Len(file))
    BY <1>1, <1>5, <2>3 DEF Readable
  <2>q. QED
    BY <2>4 DEF LineAt, S
<1>q. QED
  BY <1>4, <1>5

(* A text without a space at its ends is not trimmed.                      *)
LEMMA TrimIs ==
    ASSUME NEW l \in Seq(Fragments), NEW a \in DOMAIN l, NEW z \in DOMAIN l,
           l[a] # Space, l[z] # Space,
           \A x \in DOMAIN l : l[x] # Space => a <= x /\ x <= z
    PROVE  Trim(l) = SubSeq(l, a, z)
<1> DEFINE solid == {x \in DOMAIN l : l[x] # Space}
<1>1. solid \in SUBSET Int /\ a \in solid /\ z \in solid
  BY LenProperties
<1>2. \A x \in solid : a <= x /\ x <= z
  OBVIOUS
<1> HIDE DEF solid
<1>3. Min(solid) = a /\ Max(solid) = z /\ solid # {}
  BY <1>1, <1>2, LeastIs, GreatestIs
<1>q. QED
  BY <1>3 DEF Trim, solid

(* A line of the book names its host once its key is there.                *)
LEMMA TrimLine ==
    ASSUME NEW l \in Seq(Fragments), NEW h, NEW k,
           Len(l) \in 1..3, l[1] = Id(h),
           Len(l) >= 2 => l[2] = Space, Len(l) = 3 => l[3] = KeyText(k)
    PROVE  /\ Len(l) = 3 => Trim(l) = l /\ KeyIn(l) = k
           /\ Len(l) < 3 => Len(Trim(l)) = 1
<1>1. DOMAIN l = 1..Len(l) /\ 1 \in DOMAIN l
  BY LenProperties
<1>2. /\ l[1] # Space /\ (Len(l) >= 2 => l[2] = Space)
      /\ Len(l) = 3 => l[3] # Space
  BY FragmentsDistinct
<1>3. CASE Len(l) < 3
  <2>1. \A x \in DOMAIN l : l[x] # Space => 1 <= x /\ x <= 1
    BY <1>1, <1>2, <1>3
  <2>2. Trim(l) = SubSeq(l, 1, 1)
    BY <1>1, <1>2, <2>1, TrimIs
  <2>3. Len(SubSeq(l, 1, 1)) = 1
    BY <1>1, SubSeqProperties
  <2>q. QED
    BY <1>3, <2>2, <2>3
<1>4. CASE Len(l) = 3
  <2>1. 3 \in DOMAIN l /\ \A x \in DOMAIN l : l[x] # Space => 1 <= x /\ x <= 3
    BY <1>1, <1>4
  <2>2. Trim(l) = SubSeq(l, 1, 3)
    BY <1>1, <1>2, <1>4, <2>1, TrimIs
  <2>3. SubSeq(l, 1, 3) = l
    BY <1>4, SubSeqFull
  <2>4. PICK t : t = SubSeq(l, 3, 3)
    OBVIOUS
  <2>5. t \in Seq(Fragments) /\ Len(t) = 1 /\ t[1] = KeyText(k) /\ DOMAIN t = 1..1
    <3>1. l[3] \in Fragments
      BY <2>1, <1>1
    <3>2. \A x \in 3..3 : l[x] \in Fragments
      BY <3>1
    <3>3. /\ SubSeq(l, 3, 3) \in Seq(Fragments) /\ Len(SubSeq(l, 3, 3)) = 1
          /\ \A x \in 1..1 : SubSeq(l, 3, 3)[x] = l[3 + x - 1]
      BY <3>2, SubSeqProperties
    <3>q. QED
      BY <1>4, <2>4, <3>3
  <2>6. Trim(t) = SubSeq(t, 1, 1) /\ SubSeq(t, 1, 1) = t
    <3>1. 1 \in DOMAIN t /\ t[1] # Space /\ \A x \in DOMAIN t : 1 <= x /\ x <= 1
      BY <2>5, FragmentsDistinct
    <3>q. QED
      BY <2>5, <3>1, TrimIs, SubSeqFull
  <2>7. KeyIn(l) = k
    <3>1. Trim(SubSeq(l, 3, Len(l))) = t
      BY <1>4, <2>4, <2>6
    <3>q. QED
      BY <2>5, <3>1, FragmentsDistinct DEF KeyIn
  <2>q. QED
    BY <1>4, <2>2, <2>3, <2>7
<1>q. QED
  BY <1>3, <1>4

(* So the lines that name a host are those of the book.                    *)
LEMMA LineNames ==
    ASSUME file \in Seq(Fragments), NEW n, NEW H, NEW K, Book(n, H, K),
           NEW j \in 1..n, 4 * j - 3 <= Len(file)
    PROVE  LET l == Trim(LineAt(4 * j - 3)) IN
           /\ \A h : Names(l, h) <=> Readable(j) /\ H[j] = h
           /\ Readable(j) => KeyIn(l) = K[j]
<1> DEFINE e == IF Readable(j) THEN 4 * j - 1 ELSE Len(file)
<1>1. /\ Len(file) \in Nat /\ n \in Nat /\ j \in Nat
      /\ DOMAIN file = 1..Len(file)
  BY LenProperties DEF Book
<1>2. e \in Int /\ e \in (4 * j - 3)..Len(file) /\ e <= 4 * j - 1
      /\ (Readable(j) <=> e = 4 * j - 1)
  BY <1>1 DEF Readable
<1> HIDE DEF e
<1>3. PICK l : l = SubSeq(file, 4 * j - 3, e)
  OBVIOUS
<1>4. LineAt(4 * j - 3) = l
  BY <1>3, LineRead DEF e
<1>5. /\ l \in Seq(Fragments) /\ Len(l) = e - (4 * j - 3) + 1
      /\ \A x \in 1..(e - (4 * j - 3) + 1) : l[x] = file[4 * j - 3 + x - 1]
  <2>1. 4 * j - 3 \in Int /\ 4 * j - 3 <= e
    BY <1>1, <1>2
  <2>2. \A x \in (4 * j - 3)..e : file[x] \in Fragments
    BY <1>1, <1>2
  <2>q. QED
    BY <1>2, <1>3, <2>1, <2>2, SubSeqProperties
<1>6. PICK m \in 1..3 : m = e - (4 * j - 3) + 1
  BY <1>1, <1>2
<1>7. Len(l) = m /\ (Readable(j) <=> m = 3)
  BY SMTT(60), <1>1, <1>2, <1>5, <1>6
<1>8. /\ l[1] = Id(H[j]) /\ (m >= 2 => l[2] = Space)
      /\ m = 3 => l[3] = KeyText(K[j])
  <2>1. /\ l[1] = file[4 * j - 3] /\ (m >= 2 => l[2] = file[4 * j - 2])
        /\ m = 3 => l[3] = file[4 * j - 1]
    BY SMTT(60), <1>1, <1>5, <1>6
  <2>2. /\ m >= 2 => 4 * j - 2 <= Len(file)
        /\ m = 3 => 4 * j - 1 <= Len(file)
    BY <1>1, <1>2, <1>6
  <2>q. QED
    BY <2>1, <2>2 DEF Book, Lines
<1>11. /\ Len(l) = 3 => Trim(l) = l /\ KeyIn(l) = K[j]
       /\ Len(l) < 3 => Len(Trim(l)) = 1
  <2>1. /\ Len(l) \in 1..3 /\ l[1] = Id(H[j]) /\ l \in Seq(Fragments)
        /\ Len(l) >= 2 => l[2] = Space
        /\ Len(l) = 3 => l[3] = KeyText(K[j])
    BY <1>5, <1>7, <1>8
  <2>q. QED
    BY <2>1, TrimLine
<1>9. CASE Readable(j)
  <2>1. Trim(l) = l /\ KeyIn(l) = K[j] /\ Len(l) = 3 /\ l[2] = Space
    BY <1>7, <1>8, <1>9, <1>11
  <2>2. \A h : Names(l, h) <=> H[j] = h
    BY <1>8, <2>1, FragmentsDistinct DEF Names
  <2>q. QED
    BY <1>4, <1>9, <2>1, <2>2
<1>10. CASE ~Readable(j)
  <2>1. Len(Trim(l)) = 1
    BY <1>7, <1>10, <1>11
  <2>q. QED
    BY <1>4, <1>10, <2>1 DEF Names
<1>q. QED
  BY <1>9, <1>10

(* The first places of the lines of the book.                              *)
LEMMA StartsRead ==
    ASSUME file \in Seq(Fragments), NEW n, NEW H, NEW K, Book(n, H, K)
    PROVE  LineStarts = {x \in Int : \E j \in 1..n : x = 4 * j - 3 /\ x <= Len(file)}
<1>1. /\ Len(file) \in Nat /\ n \in Nat /\ Len(file) <= 4 * n
      /\ DOMAIN file = 1..Len(file)
  BY LenProperties DEF Book, Lines
<1>2. ASSUME NEW x \in LineStarts
      PROVE  \E j \in 1..n : x = 4 * j - 3 /\ x <= Len(file)
  <2>1. /\ x \in 1..(4 * n) /\ x <= Len(file) /\ x \in Int
        /\ x = 1 \/ file[x - 1] = NewLine
    BY <1>1 DEF LineStarts
  <2>2. PICK j \in 1..n : x \in {4 * j - 3, 4 * j - 2, 4 * j - 1, 4 * j}
    BY <1>1, <2>1, PlaceInLine
  <2>3. /\ 4 * j - 3 <= Len(file) => file[4 * j - 3] # NewLine
        /\ 4 * j - 2 <= Len(file) => file[4 * j - 2] # NewLine
        /\ 4 * j - 1 <= Len(file) => file[4 * j - 1] # NewLine
    BY ZenonT(60), FragmentsDistinct DEF Book, Lines
  <2>4. x = 4 * j - 3
    <3>1. CASE x = 4 * j - 2
      <4>1. x - 1 = 4 * j - 3 /\ 4 * j - 3 <= Len(file) /\ x # 1
        BY <1>1, <2>1, <3>1
      <4>q. QED
        BY <2>1, <2>3, <4>1
    <3>2. CASE x = 4 * j - 1
      <4>1. x - 1 = 4 * j - 2 /\ 4 * j - 2 <= Len(file) /\ x # 1
        BY <1>1, <2>1, <3>2
      <4>q. QED
        BY <2>1, <2>3, <4>1
    <3>3. CASE x = 4 * j
      <4>1. x - 1 = 4 * j - 1 /\ 4 * j - 1 <= Len(file) /\ x # 1
        BY <1>1, <2>1, <3>3
      <4>q. QED
        BY <2>1, <2>3, <4>1
    <3>q. QED
      BY <2>2, <3>1, <3>2, <3>3
  <2>q. QED
    BY <2>1, <2>4
<1>3. ASSUME NEW j \in 1..n, 4 * j - 3 <= Len(file)
      PROVE  4 * j - 3 \in LineStarts
  <2>1. 4 * j - 3 \in DOMAIN file
    BY <1>1, <1>3
  <2>2. CASE j = 1
    BY <2>1, <2>2 DEF LineStarts
  <2>3. CASE j # 1
    <3>1. PICK i \in 1..n : j = i + 1
      <4>1. j - 1 \in 1..n /\ j = (j - 1) + 1
        BY <1>1, <2>3
      <4>q. QED
        BY <4>1
    <3>2. (4 * j - 3) - 1 = 4 * i /\ 4 * i <= Len(file)
      BY <1>1, <1>3, <3>1
    <3>3. file[4 * i] = NewLine
      BY <3>2 DEF Book, Lines
    <3>q. QED
      BY <2>1, <3>2, <3>3 DEF LineStarts
  <2>q. QED
    BY <2>2, <2>3
<1>4. \A x \in LineStarts : x \in Int
  BY <1>1 DEF LineStarts
<1>q. QED
  BY <1>2, <1>3, <1>4

(* If a line of a host can be read, so can its first.                      *)
LEMMA FirstIsRead ==
    ASSUME file \in Seq(Fragments), NEW n, NEW H, NEW K, Book(n, H, K),
           NEW j \in 1..n, Readable(j)
    PROVE  Listed(H[j], K[CHOOSE i \in 1..n : FirstLine(i, H[j], n, H)], n, H, K)
<1>1. Len(file) \in Nat /\ n \in Nat
  BY LenProperties DEF Book
<1>2. PICK i \in 1..n : i = CHOOSE x \in 1..n : FirstLine(x, H[j], n, H)
  BY DEF Book, HasFirst
<1>3. FirstLine(i, H[j], n, H)
  BY <1>2 DEF Book, HasFirst
<1>4. Readable(i)
  BY <1>1, <1>3 DEF FirstLine, Readable
<1>q. QED
  BY <1>2, <1>3, <1>4 DEF Listed

(* What is pinned for a host is the key on its first line, if it has a     *)
(* line.                                                                   *)
LEMMA PinRead ==
    ASSUME file \in Seq(Fragments), NEW n, NEW H, NEW K, Book(n, H, K), NEW h
    PROVE  /\ \A k : Listed(h, k, n, H, K) => Pin(h) = k
           /\ (\A j \in 1..n : ~(H[j] = h /\ Readable(j))) => Pin(h) = None
<1> DEFINE lines == {i \in LineStarts : Names(Trim(LineAt(i)), h)}
<1>0. Len(file) \in Nat /\ n \in Nat
  BY LenProperties DEF Book
<1>1. \A i \in lines : \E j \in 1..n : i = 4 * j - 3 /\ H[j] = h /\ Readable(j)
  <2> SUFFICES ASSUME NEW i \in lines
               PROVE  \E j \in 1..n : i = 4 * j - 3 /\ H[j] = h /\ Readable(j)
    OBVIOUS
  <2>1. PICK j \in 1..n : i = 4 * j - 3 /\ i <= Len(file)
    BY StartsRead
  <2>q. QED
    BY <2>1, LineNames
<1>2. ASSUME NEW k, Listed(h, k, n, H, K) PROVE Pin(h) = k
  <2>1. PICK j \in 1..n : FirstLine(j, h, n, H) /\ K[j] = k /\ Readable(j)
    BY <1>2 DEF Listed
  <2>2. 4 * j - 3 <= Len(file) /\ 4 * j - 3 \in Int /\ H[j] = h
    BY <1>0, <2>1 DEF Readable, FirstLine
  <2>3. 4 * j - 3 \in lines
    BY <2>1, <2>2, StartsRead, LineNames
  <2>4. \A i \in lines : i \in Int /\ 4 * j - 3 <= i
    <3>1. \A i \in 1..n : H[i] = h => 4 * j - 3 <= 4 * i - 3 /\ 4 * i - 3 \in Int
      BY <1>0, <2>1 DEF FirstLine
    <3>q. QED
      BY <1>1, <3>1
  <2>5. lines \in SUBSET Int
    BY <2>4
  <2> HIDE DEF lines
  <2>6. Min(lines) = 4 * j - 3 /\ lines # {}
    BY <2>3, <2>4, <2>5, LeastIs
  <2>7. KeyIn(Trim(LineAt(4 * j - 3))) = k
    BY <2>1, <2>2, LineNames
  <2>q. QED
    BY <2>6, <2>7 DEF Pin, lines
<1>3. ASSUME \A j \in 1..n : ~(H[j] = h /\ Readable(j)) PROVE Pin(h) = None
  BY <1>1, <1>3 DEF Pin
<1>q. QED
  BY <1>2, <1>3

(* So a pin is what the first line says, and no pin is no line.            *)
LEMMA PinSays ==
    ASSUME file \in Seq(Fragments), NEW n, NEW H, NEW K, Book(n, H, K), NEW h,
           None \notin Key
    PROVE  /\ Pin(h) # None => Listed(h, Pin(h), n, H, K)
           /\ Pin(h) = None => \A j \in 1..n : ~(H[j] = h /\ Readable(j))
<1>1. ASSUME NEW j \in 1..n, H[j] = h, Readable(j)
      PROVE  Listed(h, Pin(h), n, H, K) /\ Pin(h) # None
  <2>1. PICK k : Listed(h, k, n, H, K)
    BY <1>1, FirstIsRead
  <2>2. Pin(h) = k /\ k \in Key
    BY <2>1, PinRead DEF Listed, Book
  <2>q. QED
    BY <2>1, <2>2
<1>q. QED
  BY <1>1, PinRead

(* A first line is one as well when another line is appended; the appended *)
(* one is the first of a host that had none.                               *)
LEMMA FirstExtends ==
    ASSUME NEW n \in Nat, NEW H, NEW H2, \A j \in 1..n : H2[j] = H[j]
    PROVE  /\ \A i, h : FirstLine(i, h, n, H) => FirstLine(i, h, n + 1, H2)
           /\ Unlisted(H2[n + 1], n, H) => FirstLine(n + 1, H2[n + 1], n + 1, H2)
<1>1. \A j \in 1..(n + 1) : j \in 1..n \/ j = n + 1
  OBVIOUS
<1>2. 1..n \subseteq 1..(n + 1) /\ n + 1 \in 1..(n + 1) /\ \A i \in 1..n : i <= n + 1
  OBVIOUS
<1>q. QED
  BY <1>1, <1>2 DEF FirstLine, Unlisted

-----------------------------------------------------------------------------
(* What holds however the learning goes.                                   *)
Base ==
    /\ TypeOK
    /\ \A c \in Conn : pc[c] # "new" =>
           /\ host[c] \in Host /\ seen[c] \in Key
           /\ host[c] \notin rekeyed => seen[c] = key[host[c]]
    /\ \A c \in Conn : pc[c] = "write" => todo[c] # <<>>

(* A connection writes the last line of the book, in which it has got as   *)
(* far as the file goes.                                                   *)
Writes(c, n, H, K) ==
    LET t == Len(todo[c]) IN
    /\ n # 0 /\ H[n] = host[c] /\ K[n] = seen[c]
    /\ c \notin unread => FirstLine(n, host[c], n, H)
    /\ t \in 1..4 /\ Len(file) = 4 * n - t
    /\ todo[c][t] = NewLine
    /\ t >= 2 => todo[c][t - 1] = KeyText(seen[c])
    /\ t >= 3 => todo[c][t - 2] = Space
    /\ t = 4  => todo[c][t - 3] = Id(host[c])

(* What the connections have made of the book.                             *)
Kept(n, H, K) ==
    /\ Book(n, H, K)
    /\ \A c \in Conn \ unread : pc[c] = "learn" => Unlisted(host[c], n, H)
    /\ \A c \in Conn : pc[c] = "write" => Writes(c, n, H, K)
    /\ (\A c \in Conn : pc[c] # "write") => Len(file) = 4 * n
    /\ \A c \in Conn \ unread :
           pc[c] = "accepted" => Listed(host[c], seen[c], n, H, K)
    /\ \A c \in Conn : pc[c] = "refused" => seen[c] \in Opaque \/ host[c] \in rekeyed
    /\ \A j \in 1..n : H[j] \notin rekeyed => K[j] = key[H[j]]

Learning(c) == pc[c] \in {"learn", "write"}

Ordered ==
    /\ \A c, d \in Conn : Learning(c) /\ Learning(d) => c = d
    /\ \E n \in Nat : \E H \in [1..n -> Host], K \in [1..n -> Key] : Kept(n, H, K)

KnownInv == Base /\ (Orderly => Ordered)

(* Nothing is known at first.                                              *)
LEMMA KnownInit == Init => KnownInv
<1> SUFFICES ASSUME Init PROVE KnownInv
  OBVIOUS
<1>1. Base
  <2>1. mixed \in BOOLEAN /\ broken \in BOOLEAN
    BY ZenonT(30) DEF Init
  <2>2. /\ file = <<>> /\ rekeyed = {} /\ rekeys = 0 /\ key \in [Host -> Key]
        /\ pc = [c \in Conn |-> "new"] /\ todo = [c \in Conn |-> <<>>]
        /\ host = [c \in Conn |-> None] /\ seen = [c \in Conn |-> None]
        /\ unread = {}
    BY DEF Init
  <2>3. file \in Seq(Fragments) /\ <<>> \in Seq(Fragments)
    BY <2>2
  <2>q. QED
    BY <2>1, <2>2, <2>3, ConstantsAssumption DEF Base, TypeOK
<1>2. Ordered
  <2> DEFINE H == [j \in 1..0 |-> CHOOSE h \in Host : TRUE]
             K == [j \in 1..0 |-> CHOOSE k \in Key : TRUE]
  <2>1. H \in [1..0 -> Host] /\ K \in [1..0 -> Key] /\ \A j \in 1..0 : FALSE
    OBVIOUS
  <2> HIDE DEF H, K
  <2>2. file = <<>> /\ Len(file) = 4 * 0 /\ \A c \in Conn : pc[c] = "new"
    BY DEF Init
  <2>3. Book(0, H, K)
    BY <2>1, <2>2 DEF Book, Lines
  <2>4. Kept(0, H, K)
    BY <2>1, <2>2, <2>3 DEF Kept
  <2>5. 0 \in Nat
    OBVIOUS
  <2>q. QED
    BY <2>1, <2>2, <2>4, <2>5 DEF Ordered, Learning
<1>q. QED
  BY <1>1, <1>2 DEF KnownInv

(* The parts of a line still to be written.                                *)
LEMMA TodoTail ==
    ASSUME NEW s \in Seq(Fragments), s # <<>>
    PROVE  /\ Head(s) \in Fragments /\ Head(s) = s[1] /\ Tail(s) \in Seq(Fragments)
           /\ Len(s) \in Nat /\ Len(s) >= 1 /\ Len(Tail(s)) = Len(s) - 1
           /\ \A x \in 1..(Len(s) - 1) : Tail(s)[x] = s[x + 1]
           /\ Len(s) = 1 => Tail(s) = <<>>
           /\ Len(s) # 1 => Tail(s) # <<>>
<1>1. Len(s) \in Nat /\ Len(s) >= 1 /\ Head(s) = s[1]
  BY LenProperties, EmptySeq
<1>2. PICK t : t = Tail(s)
  OBVIOUS
<1>3. /\ Head(s) \in Fragments /\ t \in Seq(Fragments) /\ Len(t) = Len(s) - 1
      /\ \A x \in 1..Len(t) : t[x] = s[x + 1]
  BY <1>2, HeadTailProperties
<1>4. (Len(s) = 1 => t = <<>>) /\ (Len(s) # 1 => t # <<>>)
  BY <1>1, <1>3, EmptySeq
<1>q. QED
  BY <1>1, <1>2, <1>3, <1>4

(* The state is always one the code knows.                                 *)
LEMMA BaseStep == Base /\ [Next]_vars => Base'
<1> SUFFICES ASSUME Base, [Next]_vars PROVE Base'
  OBVIOUS
<1>0. TypeOK
  BY DEF Base
<1>1. ASSUME NEW c \in Conn, NEW h \in Host, Connect(c, h) PROVE Base'
  BY <1>0, <1>1 DEF Connect, Goto, Base, TypeOK
<1>2. ASSUME NEW c \in Conn, AcceptAny(c) PROVE Base'
  BY <1>0, <1>2 DEF AcceptAny, Goto, Base, TypeOK
<1>3. ASSUME NEW c \in Conn, Check(c) PROVE Base'
  <2>1. mixed' \in BOOLEAN
    <3>1. mixed \in BOOLEAN
      BY <1>0 DEF TypeOK
    <3>q. QED
      BY <1>3, <3>1, ZenonT(30) DEF Check, ToLearn
  <2>2. PICK l \in {"accepted", "refused", "learn"} : Goto(c, l)
    BY <1>3 DEF Check, ToLearn
  <2>3. /\ pc[c] = "check" /\ unread' \subseteq Conn
        /\ UNCHANGED <<key, rekeyed, rekeys, file, host, seen, todo, broken>>
    BY <1>0, <1>3 DEF Check, TypeOK
  <2>q. QED
    BY <1>0, <2>1, <2>2, <2>3 DEF Goto, Base, TypeOK
<1>4. ASSUME NEW c \in Conn, Open(c) PROVE Base'
  <2>1. host[c] \in Host /\ seen[c] \in Key
    BY <1>4 DEF Open, Base
  <2>2. PICK line : line = <<Id(host[c]), Space, KeyText(seen[c]), NewLine>>
    OBVIOUS
  <2>3. line \in Seq(Fragments) /\ line # <<>>
    <3>1. /\ Id(host[c]) \in Fragments /\ Space \in Fragments
          /\ KeyText(seen[c]) \in Fragments /\ NewLine \in Fragments
      BY <2>1 DEF Fragments
    <3>q. QED
      BY <2>2, <3>1
  <2>q. QED
    BY <1>0, <1>4, <2>2, <2>3 DEF Open, Goto, Base, TypeOK
<1>5. ASSUME NEW c \in Conn, Write(c) PROVE Base'
  <2>1. todo[c] \in Seq(Fragments) /\ todo[c] # <<>> /\ pc[c] = "write"
    BY <1>0, <1>5 DEF Write, Base, TypeOK
  <2>2. PICK s \in Seq(Fragments) : s = todo[c]
    BY <2>1
  <2>3. /\ Head(s) \in Fragments /\ Tail(s) \in Seq(Fragments)
        /\ Len(s) = 1 => Tail(s) = <<>>
        /\ Len(s) # 1 => Tail(s) # <<>>
    BY <2>1, <2>2, TodoTail
  <2>4. file' \in Seq(Fragments)
    <3>1. file \in Seq(Fragments) /\ file' = Append(file, Head(s))
      BY <1>0, <1>5, <2>2 DEF TypeOK, Write
    <3>q. QED
      BY <2>3, <3>1, AppendProperties
  <2>5. PICK r \in Seq(Fragments), l \in {"accepted", "write"} :
            /\ todo' = [todo EXCEPT ![c] = r] /\ Goto(c, l)
            /\ (l = "accepted" => r = <<>>) /\ (l = "write" => r # <<>>)
    <3>1. todo' = [todo EXCEPT ![c] = Tail(s)]
      BY <1>5, <2>2 DEF Write
    <3>2. Goto(c, IF Len(s) = 1 THEN "accepted" ELSE "write")
      BY <1>5, <2>2 DEF Write
    <3>q. QED
      BY <2>3, <3>1, <3>2
  <2>6. UNCHANGED <<key, rekeyed, rekeys, host, seen, mixed, unread, broken>>
    BY <1>5 DEF Write
  <2>q. QED
    BY <1>0, <2>1, <2>4, <2>5, <2>6 DEF Goto, Base, TypeOK
<1>6. ASSUME NEW c \in Conn, LearnFails(c) \/ Crash(c) PROVE Base'
  <2>1. PICK l \in {"accepted", "dead"} : Goto(c, l)
    BY <1>6 DEF LearnFails, Crash
  <2>2. /\ pc[c] \in {"learn", "write"} /\ <<>> \in Seq(Fragments)
        /\ todo' = [todo EXCEPT ![c] = <<>>] /\ broken' = TRUE
        /\ UNCHANGED <<key, rekeyed, rekeys, file, host, seen, mixed, unread>>
    BY <1>6 DEF LearnFails, Crash
  <2>q. QED
    BY <1>0, <2>1, <2>2 DEF Goto, Base, TypeOK
<1>7. ASSUME NEW h \in Host, NEW k \in Key, Rekey(h, k) PROVE Base'
  BY <1>0, <1>7, ConstantsAssumption DEF Rekey, Base, TypeOK
<1>8. CASE UNCHANGED vars
  BY <1>0, <1>8 DEF vars, Base, TypeOK
<1>q. QED
  BY <1>1, <1>2, <1>3, <1>4, <1>5, <1>6, <1>7, <1>8 DEF Next

(* A step of one connection leaves what the others are connected to.       *)
OthersStay(c) ==
    /\ \A d \in Conn \ {c} : host'[d] = host[d] /\ seen'[d] = seen[d]
    /\ unread' \in {unread, unread \cup {c}}

(* A connection that writes nothing goes on, and the book is as before.    *)
LEMMA BookKept ==
    ASSUME Base, NEW n, NEW H, NEW K, Kept(n, H, K),
           NEW c \in Conn, NEW l, NEW h, NEW k,
           pc[c] # "write", l # "write", Goto(c, l), OthersStay(c),
           host'[c] = h, seen'[c] = k, UNCHANGED <<file, todo, key, rekeyed>>,
           l = "learn" => Unlisted(h, n, H) \/ c \in unread',
           l = "accepted" => Listed(h, k, n, H, K),
           l = "refused" => k \in Opaque \/ h \in rekeyed
    PROVE  Kept(n, H, K)'
<1>1. pc'[c] = l /\ \A d \in Conn \ {c} : pc'[d] = pc[d]
  BY DEF Base, TypeOK, Goto
<1>2. /\ Book(n, H, K)' /\ \A j : Readable(j)' <=> Readable(j)
      /\ \A g, i : Listed(g, i, n, H, K)' <=> Listed(g, i, n, H, K)
  BY DEF Kept, Book, Lines, Readable, Listed
<1>3. ASSUME NEW d \in Conn \ unread', pc'[d] = "learn"
      PROVE  Unlisted(host'[d], n, H)
  <2>1. CASE d = c
    BY <1>1, <1>3, <2>1
  <2>2. CASE d # c
    <3>1. pc[d] = "learn" /\ host'[d] = host[d] /\ d \in Conn \ unread
      BY <1>1, <1>3, <2>2 DEF OthersStay
    <3>q. QED
      BY <3>1 DEF Kept
  <2>q. QED
    BY <2>1, <2>2
<1>4. ASSUME NEW d \in Conn, pc'[d] = "write" PROVE Writes(d, n, H, K)'
  <2>1. /\ d # c /\ pc[d] = "write" /\ host'[d] = host[d] /\ seen'[d] = seen[d]
        /\ d \notin unread' => d \notin unread
    BY <1>1, <1>4 DEF OthersStay
  <2>2. Writes(d, n, H, K)
    BY <2>1 DEF Kept
  <2>q. QED
    BY <2>1, <2>2 DEF Writes
<1>5. (\A d \in Conn : pc'[d] # "write") => Len(file') = 4 * n
  BY <1>1 DEF Kept
<1>6. ASSUME NEW d \in Conn \ unread', pc'[d] = "accepted"
      PROVE  Listed(host[d], seen[d], n, H, K)'
  <2>1. CASE d = c
    BY <1>1, <1>2, <1>6, <2>1
  <2>2. CASE d # c
    <3>1. /\ pc[d] = "accepted" /\ host'[d] = host[d] /\ seen'[d] = seen[d]
          /\ d \in Conn \ unread
      BY <1>1, <1>6, <2>2 DEF OthersStay
    <3>2. Listed(host[d], seen[d], n, H, K)
      BY <3>1 DEF Kept
    <3>q. QED
      BY <1>2, <3>1, <3>2
  <2>q. QED
    BY <2>1, <2>2
<1>7. ASSUME NEW d \in Conn, pc'[d] = "refused"
      PROVE  seen'[d] \in Opaque \/ host'[d] \in rekeyed'
  BY <1>1, <1>7 DEF Kept, OthersStay
<1>8. \A j \in 1..n : H[j] \notin rekeyed' => K[j] = key'[H[j]]
  BY DEF Kept
<1>q. QED
  BY <1>2, <1>3, <1>4, <1>5, <1>6, <1>7, <1>8 DEF Kept

(* A check finds the key on the host's first line, or no line, or cannot   *)
(* read the file.                                                          *)
LEMMA CheckStep ==
    ASSUME Base, Ordered, Orderly', NEW c \in Conn, Check(c)
    PROVE  Ordered'
<1>0. /\ pc[c] = "check" /\ host[c] \in Host /\ seen[c] \in Key
      /\ host[c] \notin rekeyed => seen[c] = key[host[c]]
      /\ file \in Seq(Fragments) /\ None \notin Key
      /\ UNCHANGED <<key, rekeyed, rekeys, file, host, seen, todo, broken>>
      /\ unread' \in {unread, unread \cup {c}}
  BY ConstantsAssumption DEF Check, Base, TypeOK
<1>a. PICK n \in Nat : \E H \in [1..n -> Host], K \in [1..n -> Key] : Kept(n, H, K)
  BY DEF Ordered
<1>1. PICK H \in [1..n -> Host], K \in [1..n -> Key] : Kept(n, H, K)
  BY <1>a
<1>2. /\ Pin(host[c]) # None => Listed(host[c], Pin(host[c]), n, H, K)
      /\ Pin(host[c]) = None => \A j \in 1..n : ~(H[j] = host[c] /\ Readable(j))
  BY SMTT(60), <1>0, <1>1, PinSays DEF Kept
<1>3. PICK l : Goto(c, l) /\ l \in {"accepted", "refused", "learn"}
  BY DEF Check, ToLearn
<1>4. /\ pc' = [pc EXCEPT ![c] = l] /\ pc'[c] = l
      /\ \A d \in Conn \ {c} : pc'[d] = pc[d]
  BY <1>3 DEF Goto, Base, TypeOK
<1>5. ASSUME l = "refused" PROVE seen[c] \in Opaque \/ host[c] \in rekeyed
  <2>1. seen[c] \in Opaque \/ Pin(host[c]) \notin {None, seen[c]}
    BY <1>4, <1>5 DEF Check, ToLearn, Goto, Base, TypeOK
  <2>2. ASSUME Pin(host[c]) \notin {None, seen[c]} PROVE host[c] \in rekeyed
    <3>1. PICK j \in 1..n : H[j] = host[c] /\ K[j] = Pin(host[c])
      BY <1>2, <2>2 DEF Listed, FirstLine
    <3>q. QED
      BY <1>0, <1>1, <2>2, <3>1 DEF Kept
  <2>q. QED
    BY <2>1, <2>2
<1>6. ASSUME l = "accepted" PROVE Listed(host[c], seen[c], n, H, K)
  <2>1. Pin(host[c]) = seen[c]
    BY <1>4, <1>6 DEF Check, ToLearn, Goto, Base, TypeOK
  <2>q. QED
    BY <1>0, <1>2, <2>1
<1>7. ASSUME l = "learn" PROVE \A d \in Conn : ~Learning(d)
  <2>1. mixed' = (mixed \/ \E d \in Conn : pc[d] \in {"learn", "write"})
    BY <1>4, <1>7 DEF Check, ToLearn, Goto, Base, TypeOK
  <2>2. ~mixed'
    BY DEF Orderly
  <2>q. QED
    BY <2>1, <2>2 DEF Learning
<1>8. ASSUME l = "learn", c \notin unread' PROVE Unlisted(host[c], n, H)
  <2>1. Pin(host[c]) = None
    BY <1>4, <1>8 DEF Check, ToLearn, Goto, Base, TypeOK
  <2>2. \A j \in 1..n : Readable(j)
    <3>1. Len(file) = 4 * n
      BY <1>1, <1>7, <1>8 DEF Kept, Learning
    <3>q. QED
      BY <3>1 DEF Readable
  <2>q. QED
    BY <1>2, <2>1, <2>2 DEF Unlisted
<1>9. Kept(n, H, K)'
  <2>1. /\ pc[c] # "write" /\ l # "write" /\ Goto(c, l) /\ OthersStay(c)
        /\ host'[c] = host[c] /\ seen'[c] = seen[c]
        /\ UNCHANGED <<file, todo, key, rekeyed>>
    BY <1>0, <1>3 DEF OthersStay
  <2>q. QED
    BY <1>1, <1>5, <1>6, <1>8, <2>1, BookKept
<1>10. \A d, e \in Conn : Learning(d)' /\ Learning(e)' => d = e
  <2>1. \A d \in Conn : Learning(d)' => Learning(d) \/ (d = c /\ l = "learn")
    BY <1>3, <1>4 DEF Learning
  <2>2. \A d, e \in Conn : Learning(d) /\ Learning(e) => d = e
    BY DEF Ordered
  <2>q. QED
    BY <1>7, <2>1, <2>2
<1>q. QED
  BY <1>9, <1>10 DEF Ordered

(* The learner begins a new line of the book.                              *)
LEMMA OpenStep ==
    ASSUME Base, Ordered, NEW c \in Conn, Open(c)
    PROVE  Ordered'
<1>0. /\ pc[c] = "learn" /\ host[c] \in Host /\ seen[c] \in Key
      /\ host[c] \notin rekeyed => seen[c] = key[host[c]]
      /\ UNCHANGED <<key, rekeyed, rekeys, file, host, seen, mixed, unread, broken>>
      /\ pc' = [pc EXCEPT ![c] = "write"] /\ pc'[c] = "write"
      /\ \A d \in Conn \ {c} : pc'[d] = pc[d] /\ todo'[d] = todo[d]
  BY DEF Open, Base, TypeOK, Goto
<1>a. PICK n \in Nat : \E H \in [1..n -> Host], K \in [1..n -> Key] : Kept(n, H, K)
  BY DEF Ordered
<1>1. PICK H \in [1..n -> Host], K \in [1..n -> Key] : Kept(n, H, K)
  BY <1>a
<1>2. /\ \A d \in Conn : Learning(d) => d = c
      /\ \A d \in Conn : Learning(d)' => d = c
  BY <1>0 DEF Ordered, Learning
<1>3. /\ Len(file) = 4 * n /\ (c \notin unread => Unlisted(host[c], n, H))
      /\ \A d \in Conn : pc[d] # "write"
  BY <1>0, <1>1, <1>2 DEF Kept, Learning
<1> DEFINE G == [j \in 1..(n + 1) |-> IF j <= n THEN H[j] ELSE host[c]]
           M == [j \in 1..(n + 1) |-> IF j <= n THEN K[j] ELSE seen[c]]
<1>4. PICK H2 \in [1..(n + 1) -> Host], K2 \in [1..(n + 1) -> Key] :
          /\ \A j \in 1..n : H2[j] = H[j] /\ K2[j] = K[j]
          /\ H2[n + 1] = host[c] /\ K2[n + 1] = seen[c]
  <2>1. /\ G \in [1..(n + 1) -> Host] /\ M \in [1..(n + 1) -> Key]
        /\ \A j \in 1..n : G[j] = H[j] /\ M[j] = K[j]
        /\ G[n + 1] = host[c] /\ M[n + 1] = seen[c]
    BY <1>0
  <2> HIDE DEF G, M
  <2>q. QED
    BY <2>1
<1>5. \A j \in 1..(n + 1) : j \in 1..n \/ j = n + 1
  OBVIOUS
<1>f. /\ \A i, h : FirstLine(i, h, n, H) => FirstLine(i, h, n + 1, H2)
      /\ Unlisted(host[c], n, H) => FirstLine(n + 1, host[c], n + 1, H2)
      /\ 1..n \subseteq 1..(n + 1) /\ n + 1 \in 1..(n + 1)
  BY <1>4, FirstExtends
<1>6. Book(n + 1, H2, K2)'
  <2>1. ASSUME NEW j \in 1..(n + 1) PROVE HasFirst(H2[j], n + 1, H2)
    <3>1. ASSUME NEW i \in 1..n PROVE HasFirst(H2[i], n + 1, H2)
      BY <1>1, <1>4, <1>f DEF Kept, Book, HasFirst
    <3>2. ASSUME Unlisted(host[c], n, H) PROVE HasFirst(H2[n + 1], n + 1, H2)
      BY <1>4, <1>f, <3>2 DEF HasFirst
    <3>3. ASSUME ~Unlisted(host[c], n, H) PROVE HasFirst(H2[n + 1], n + 1, H2)
      BY <1>4, <3>1, <3>3 DEF Unlisted
    <3>q. QED
      BY <1>5, <3>1, <3>2, <3>3
  <2>2. ASSUME NEW j \in 1..(n + 1)
        PROVE  /\ 4 * j - 3 <= Len(file) => file[4 * j - 3] = Id(H2[j])
               /\ 4 * j - 2 <= Len(file) => file[4 * j - 2] = Space
               /\ 4 * j - 1 <= Len(file) => file[4 * j - 1] = KeyText(K2[j])
               /\ 4 * j     <= Len(file) => file[4 * j] = NewLine
    <3>1. CASE j \in 1..n
      BY <1>1, <1>4, <3>1 DEF Kept, Book, Lines
    <3>2. CASE j = n + 1
      BY <1>3, <3>2
    <3>q. QED
      BY <1>5, <3>1, <3>2
  <2>3. Lines(n + 1, H2, K2)'
    BY <1>0, <1>3, <2>2 DEF Lines
  <2>q. QED
    BY <2>1, <2>3 DEF Book
<1>7. Writes(c, n + 1, H2, K2)'
  <2>1. PICK s : s = todo'[c]
    OBVIOUS
  <2>2. s = <<Id(host[c]), Space, KeyText(seen[c]), NewLine>>
    BY <2>1 DEF Open, Base, TypeOK
  <2>3. /\ Len(s) = 4 /\ s[1] = Id(host[c]) /\ s[2] = Space
        /\ s[3] = KeyText(seen[c]) /\ s[4] = NewLine
    BY <2>2
  <2>4. Len(file) = 4 * (n + 1) - 4 /\ n + 1 # 0
    BY <1>3
  <2>5. c \notin unread => FirstLine(n + 1, host[c], n + 1, H2)
    BY <1>3, <1>f
  <2>q. QED
    BY <1>0, <1>4, <2>1, <2>3, <2>4, <2>5 DEF Writes
<1>8. ASSUME NEW d \in Conn \ unread, pc'[d] = "accepted"
      PROVE  Listed(host[d], seen[d], n + 1, H2, K2)'
  <2>1. pc[d] = "accepted" /\ host'[d] = host[d] /\ seen'[d] = seen[d]
    BY <1>0, <1>8
  <2>2. PICK j \in 1..n : FirstLine(j, host[d], n, H) /\ K[j] = seen[d] /\ Readable(j)
    BY <1>1, <1>8, <2>1 DEF Kept, Listed
  <2>3. j \in 1..(n + 1) /\ Readable(j)' /\ FirstLine(j, host[d], n + 1, H2)
    BY <1>0, <1>f, <2>2 DEF Readable
  <2>q. QED
    BY <1>4, <2>1, <2>2, <2>3 DEF Listed
<1>9. Kept(n + 1, H2, K2)'
  <2>1. \A d \in Conn : pc'[d] = "learn" => FALSE
    BY <1>0, <1>2 DEF Learning
  <2>2. \A d \in Conn : pc'[d] = "write" => Writes(d, n + 1, H2, K2)'
    BY <1>2, <1>7 DEF Learning
  <2>3. \A d \in Conn : pc'[d] = "refused" => seen'[d] \in Opaque \/ host'[d] \in rekeyed'
    BY <1>0, <1>1 DEF Kept
  <2>4. \A j \in 1..(n + 1) : H2[j] \notin rekeyed' => K2[j] = key'[H2[j]]
    BY <1>0, <1>1, <1>4, <1>5 DEF Kept
  <2>q. QED
    BY <1>0, <1>6, <1>8, <2>1, <2>2, <2>3, <2>4 DEF Kept
<1>10. n + 1 \in Nat
  OBVIOUS
<1>q. QED
  BY <1>2, <1>9, <1>10 DEF Ordered

(* One more piece of the line goes to the end of the book.                 *)
LEMMA WriteStep ==
    ASSUME Base, Ordered, NEW c \in Conn, Write(c)
    PROVE  Ordered'
<1>0. /\ pc[c] = "write" /\ host[c] \in Host /\ seen[c] \in Key
      /\ file \in Seq(Fragments)
      /\ UNCHANGED <<key, rekeyed, rekeys, host, seen, mixed, unread, broken>>
      /\ \A d \in Conn \ {c} : pc'[d] = pc[d] /\ todo'[d] = todo[d]
  BY DEF Write, Base, TypeOK, Goto
<1>a. PICK n \in Nat : \E H \in [1..n -> Host], K \in [1..n -> Key] : Kept(n, H, K)
  BY DEF Ordered
<1>1. PICK H \in [1..n -> Host], K \in [1..n -> Key] : Kept(n, H, K)
  BY <1>a
<1>2. PICK s \in Seq(Fragments) : s = todo[c] /\ s # <<>>
  BY <1>0 DEF Base, TypeOK
<1>3. PICK r : r = Tail(s)
  OBVIOUS
<1>4. PICK t \in 1..4 : t = Len(s)
  BY <1>0, <1>1, <1>2 DEF Kept, Writes
<1>5. /\ n # 0 /\ H[n] = host[c] /\ K[n] = seen[c] /\ Len(file) = 4 * n - t
      /\ s[t] = NewLine
      /\ t >= 2 => s[t - 1] = KeyText(seen[c])
      /\ t >= 3 => s[t - 2] = Space
      /\ t = 4  => s[t - 3] = Id(host[c])
      /\ c \notin unread => FirstLine(n, host[c], n, H)
  BY <1>0, <1>1, <1>2, <1>4 DEF Kept, Writes
<1>6. /\ Head(s) = s[1] /\ s[1] \in Fragments
      /\ Len(r) = t - 1 /\ \A x \in 1..(t - 1) : r[x] = s[x + 1]
  BY <1>2, <1>3, <1>4, TodoTail
<1>7. /\ file' = Append(file, s[1]) /\ todo'[c] = r
      /\ pc'[c] = IF t = 1 THEN "accepted" ELSE "write"
  BY <1>2, <1>3, <1>4, <1>6 DEF Write, Goto, Base, TypeOK
<1>8. /\ \A d \in Conn : Learning(d) => d = c
      /\ \A d \in Conn : Learning(d)' => d = c
  <2>1. \A d \in Conn : Learning(d) => d = c
    BY <1>0 DEF Ordered, Learning
  <2>q. QED
    BY <1>0, <2>1 DEF Learning
<1>9. PICK g : g = Append(file, s[1])
  OBVIOUS
<1>10. /\ Len(g) = 4 * n - t + 1 /\ g[4 * n - t + 1] = s[1]
       /\ \A x \in 1..(4 * n - t) : g[x] = file[x]
  BY <1>0, <1>5, <1>6, <1>9, AppendProperties
<1>11. file' = g
  BY <1>7, <1>9
<1>12. Book(n, H, K)'
  <2>1. Book(n, H, K)
    BY <1>1 DEF Kept
  <2>2. ASSUME NEW j \in 1..n
        PROVE  /\ 4 * j - 3 <= Len(g) => g[4 * j - 3] = Id(H[j])
               /\ 4 * j - 2 <= Len(g) => g[4 * j - 2] = Space
               /\ 4 * j - 1 <= Len(g) => g[4 * j - 1] = KeyText(K[j])
               /\ 4 * j     <= Len(g) => g[4 * j] = NewLine
    <3>1. /\ 4 * j - 3 <= Len(file) => file[4 * j - 3] = Id(H[j])
          /\ 4 * j - 2 <= Len(file) => file[4 * j - 2] = Space
          /\ 4 * j - 1 <= Len(file) => file[4 * j - 1] = KeyText(K[j])
          /\ 4 * j     <= Len(file) => file[4 * j] = NewLine
      BY <2>1 DEF Book, Lines
    <3>2. ASSUME 4 * j - 3 <= Len(g) PROVE g[4 * j - 3] = Id(H[j])
      <4>1. 4 * j - 3 <= 4 * n - t \/ (j = n /\ t = 4 /\ 4 * j - 3 = 4 * n - t + 1)
        BY <1>10, <3>2
      <4>2. CASE 4 * j - 3 <= 4 * n - t
        BY <1>5, <1>10, <3>1, <4>2
      <4>3. CASE j = n /\ t = 4 /\ 4 * j - 3 = 4 * n - t + 1
        BY <1>5, <1>10, <4>3
      <4>q. QED
        BY <4>1, <4>2, <4>3
    <3>3. ASSUME 4 * j - 2 <= Len(g) PROVE g[4 * j - 2] = Space
      <4>1. 4 * j - 2 <= 4 * n - t \/ (j = n /\ t = 3 /\ 4 * j - 2 = 4 * n - t + 1)
        BY <1>10, <3>3
      <4>2. CASE 4 * j - 2 <= 4 * n - t
        BY SMTT(60), <1>5, <1>10, <3>1, <4>2
      <4>3. CASE j = n /\ t = 3 /\ 4 * j - 2 = 4 * n - t + 1
        BY <1>5, <1>10, <4>3
      <4>q. QED
        BY <4>1, <4>2, <4>3
    <3>4. ASSUME 4 * j - 1 <= Len(g) PROVE g[4 * j - 1] = KeyText(K[j])
      <4>1. 4 * j - 1 <= 4 * n - t \/ (j = n /\ t = 2 /\ 4 * j - 1 = 4 * n - t + 1)
        BY <1>10, <3>4
      <4>2. CASE 4 * j - 1 <= 4 * n - t
        BY <1>5, <1>10, <3>1, <4>2
      <4>3. CASE j = n /\ t = 2 /\ 4 * j - 1 = 4 * n - t + 1
        BY <1>5, <1>10, <4>3
      <4>q. QED
        BY <4>1, <4>2, <4>3
    <3>5. ASSUME 4 * j <= Len(g) PROVE g[4 * j] = NewLine
      <4>1. 4 * j <= 4 * n - t \/ (j = n /\ t = 1 /\ 4 * j = 4 * n - t + 1)
        BY <1>10, <3>5
      <4>2. CASE 4 * j <= 4 * n - t
        BY <1>5, <1>10, <3>1, <4>2
      <4>3. CASE j = n /\ t = 1 /\ 4 * j = 4 * n - t + 1
        BY <1>5, <1>10, <4>3
      <4>q. QED
        BY <4>1, <4>2, <4>3
    <3>q. QED
      BY <3>2, <3>3, <3>4, <3>5
  <2>3. Len(g) <= 4 * n
    BY <1>10
  <2>q. QED
    BY <1>11, <2>1, <2>2, <2>3 DEF Book, Lines
<1>13. ASSUME NEW h, NEW k, Listed(h, k, n, H, K) PROVE Listed(h, k, n, H, K)'
  <2>1. PICK j \in 1..n : FirstLine(j, h, n, H) /\ K[j] = k /\ Readable(j)
    BY <1>13 DEF Listed
  <2>2. Readable(j)'
    BY <1>5, <1>10, <1>11, <2>1 DEF Readable
  <2>q. QED
    BY <2>1, <2>2 DEF Listed
<1>14. ASSUME NEW d \in Conn \ unread, pc'[d] = "accepted"
       PROVE  Listed(host[d], seen[d], n, H, K)'
  <2>1. CASE d # c
    <3>1. pc[d] = "accepted" /\ host'[d] = host[d] /\ seen'[d] = seen[d]
      BY <1>0, <1>14, <2>1
    <3>2. Listed(host[d], seen[d], n, H, K)
      BY <1>1, <1>14, <3>1 DEF Kept
    <3>q. QED
      BY <1>13, <3>1, <3>2
  <2>2. CASE d = c
    <3>1. /\ t = 1 /\ n \in 1..n /\ host'[d] = host[c] /\ seen'[d] = seen[c]
          /\ FirstLine(n, host[c], n, H)
      BY <1>0, <1>5, <1>7, <1>14, <2>2
    <3>2. Readable(n)'
      BY <1>10, <1>11, <3>1 DEF Readable
    <3>q. QED
      BY <1>5, <3>1, <3>2 DEF Listed
  <2>q. QED
    BY <2>1, <2>2
<1>15. ASSUME NEW d \in Conn, pc'[d] = "write" PROVE Writes(d, n, H, K)'
  <2>1. d = c /\ t # 1
    BY <1>7, <1>8, <1>15 DEF Learning
  <2>2. PICK u \in 1..3 : t = u + 1
    <3>1. t - 1 \in 1..3 /\ t = (t - 1) + 1
      BY <2>1
    <3>q. QED
      BY <3>1
  <2>3. Len(r) = u /\ Len(g) = 4 * n - u
    BY <1>5, <1>6, <1>10, <2>2
  <2>4. /\ r[u] = s[u + 1]
        /\ u >= 2 => r[u - 1] = s[u]
        /\ u >= 3 => r[u - 2] = s[u - 1]
    <3>1. \A x \in 1..u : r[x] = s[x + 1]
      BY <1>6, <2>2
    <3>2. u \in 1..u /\ (u >= 2 => u - 1 \in 1..u) /\ (u >= 3 => u - 2 \in 1..u)
      OBVIOUS
    <3>3. (u - 1) + 1 = u /\ (u - 2) + 1 = u - 1
      OBVIOUS
    <3>q. QED
      BY <3>1, <3>2, <3>3
  <2>5. /\ s[u + 1] = NewLine /\ s[u] = KeyText(seen[c])
        /\ u >= 2 => s[u - 1] = Space
    <3>1. t - 1 = u /\ t >= 2 /\ t - 2 = u - 1 /\ (u >= 2 => t >= 3)
      BY <2>2
    <3>q. QED
      BY <1>5, <2>2, <3>1
  <2>6. todo'[d] = r /\ file' = g /\ host'[d] = host[c] /\ seen'[d] = seen[c]
    BY <1>0, <1>7, <1>11, <2>1
  <2>7. d \notin unread' => FirstLine(n, host'[d], n, H)
    BY <1>0, <1>5, <2>1
  <2>8. /\ r[u] = NewLine
        /\ u >= 2 => r[u - 1] = KeyText(seen[c])
        /\ u >= 3 => r[u - 2] = Space
    BY <2>4, <2>5
  <2>9. n # 0 /\ H[n] = host'[d] /\ K[n] = seen'[d]
    BY <1>5, <2>6
  <2>10. /\ Len(todo'[d]) = u /\ Len(file') = 4 * n - u /\ todo'[d][u] = NewLine
         /\ u >= 2 => todo'[d][u - 1] = KeyText(seen'[d])
         /\ u >= 3 => todo'[d][u - 2] = Space
    BY <2>3, <2>6, <2>8
  <2>q. QED
    BY <2>7, <2>9, <2>10 DEF Writes
<1>16. (\A d \in Conn : pc'[d] # "write") => Len(file') = 4 * n
  <2>1. pc'[c] # "write" => t = 1
    BY <1>7
  <2>q. QED
    BY <1>10, <1>11, <2>1
<1>17. Kept(n, H, K)'
  <2>1. \A d \in Conn : pc'[d] = "learn" => FALSE
    BY <1>7, <1>8 DEF Learning
  <2>2. \A d \in Conn : pc'[d] = "refused" =>
            seen'[d] \in Opaque \/ host'[d] \in rekeyed'
    BY <1>0, <1>1, <1>7 DEF Kept
  <2>3. \A j \in 1..n : H[j] \notin rekeyed' => K[j] = key'[H[j]]
    BY <1>0, <1>1 DEF Kept
  <2>q. QED
    BY <1>0, <1>12, <1>14, <1>15, <1>16, <2>1, <2>2, <2>3 DEF Kept
<1>q. QED
  BY <1>8, <1>17 DEF Ordered

(* A host that gets another key is one that may be refused.                *)
LEMMA RekeyStep ==
    ASSUME Base, Ordered, NEW g \in Host, NEW k \in Key, Rekey(g, k)
    PROVE  Ordered'
<1>0. /\ UNCHANGED <<file, pc, host, seen, todo, mixed, unread, broken>>
      /\ rekeyed' = rekeyed \cup {g}
      /\ \A h \in Host : h # g => key'[h] = key[h]
  BY DEF Rekey, Base, TypeOK
<1>a. PICK n \in Nat : \E H \in [1..n -> Host], K \in [1..n -> Key] : Kept(n, H, K)
  BY DEF Ordered
<1>1. PICK H \in [1..n -> Host], K \in [1..n -> Key] : Kept(n, H, K)
  BY <1>a
<1>2. /\ Book(n, H, K)' /\ \A h, i : Listed(h, i, n, H, K)' <=> Listed(h, i, n, H, K)
      /\ \A d \in Conn : Writes(d, n, H, K)' <=> Writes(d, n, H, K)
  BY <1>0, <1>1 DEF Kept, Book, Lines, Listed, Readable, Writes
<1>3. \A j \in 1..n : H[j] \notin rekeyed' => K[j] = key'[H[j]]
  BY <1>0, <1>1 DEF Kept
<1>4. \A d \in Conn \ unread' :
          pc'[d] = "accepted" => Listed(host[d], seen[d], n, H, K)'
  BY <1>0, <1>1, <1>2 DEF Kept
<1>5. Kept(n, H, K)'
  BY <1>0, <1>1, <1>2, <1>3, <1>4 DEF Kept
<1>q. QED
  BY <1>0, <1>5 DEF Ordered, Learning

(* The book is kept as long as nothing breaks the order.                   *)
LEMMA OrderedStep ==
    ASSUME Base, Ordered, Orderly', [Next]_vars
    PROVE  Ordered'
<1>a. PICK n \in Nat : \E H \in [1..n -> Host], K \in [1..n -> Key] : Kept(n, H, K)
  BY DEF Ordered
<1>b. PICK H \in [1..n -> Host], K \in [1..n -> Key] : Kept(n, H, K)
  BY <1>a
<1>1. ASSUME NEW c \in Conn, NEW h \in Host, Connect(c, h) PROVE Ordered'
  <2>1. /\ pc[c] # "write" /\ Goto(c, "check") /\ OthersStay(c)
        /\ host'[c] = h /\ seen'[c] = key[h]
        /\ UNCHANGED <<file, todo, key, rekeyed>>
    BY <1>1 DEF Connect, OthersStay, Base, TypeOK
  <2>2. Kept(n, H, K)'
    BY <1>b, <2>1, BookKept
  <2>3. \A d \in Conn : Learning(d)' => Learning(d)
    BY <1>1 DEF Connect, Goto, Learning, Base, TypeOK
  <2>q. QED
    BY <2>2, <2>3 DEF Ordered
<1>2. ASSUME NEW c \in Conn, AcceptAny(c) PROVE Ordered'
  <2>1. /\ pc[c] # "write" /\ Goto(c, "unchecked") /\ OthersStay(c)
        /\ host'[c] = host[c] /\ seen'[c] = seen[c]
        /\ UNCHANGED <<file, todo, key, rekeyed>>
    BY <1>2 DEF AcceptAny, OthersStay, Base, TypeOK
  <2>2. Kept(n, H, K)'
    BY <1>b, <2>1, BookKept
  <2>3. \A d \in Conn : Learning(d)' => Learning(d)
    BY <1>2 DEF AcceptAny, Goto, Learning, Base, TypeOK
  <2>q. QED
    BY <2>2, <2>3 DEF Ordered
<1>3. ASSUME NEW c \in Conn, LearnFails(c) \/ Crash(c) PROVE Ordered'
  <2>1. broken' = TRUE
    BY <1>3 DEF LearnFails, Crash
  <2>q. QED
    BY <2>1 DEF Orderly
<1>4. CASE UNCHANGED vars
  <2>1. UNCHANGED <<key, rekeyed, file, pc, host, seen, todo, unread>>
    BY <1>4 DEF vars
  <2>2. /\ Book(n, H, K)' /\ \A g, i : Listed(g, i, n, H, K)' <=> Listed(g, i, n, H, K)
        /\ \A d \in Conn : Writes(d, n, H, K)' <=> Writes(d, n, H, K)
    BY <1>b, <2>1 DEF Kept, Book, Lines, Listed, Readable, Writes
  <2>3. Kept(n, H, K)'
    BY <1>b, <2>1, <2>2 DEF Kept
  <2>q. QED
    BY <2>1, <2>3 DEF Ordered, Learning
<1>q. QED
  BY <1>1, <1>2, <1>3, <1>4, CheckStep, OpenStep, WriteStep, RekeyStep DEF Next

(* No order is restored once it is gone.                                   *)
LEMMA OrderlyBefore == Base /\ [Next]_vars /\ Orderly' => Orderly
<1> SUFFICES ASSUME Base, [Next]_vars, Orderly' PROVE Orderly
  OBVIOUS
<1>1. mixed \in BOOLEAN /\ broken \in BOOLEAN /\ ~mixed' /\ ~broken'
  BY DEF Base, TypeOK, Orderly
<1>2. mixed => mixed'
  <2>1. \A c \in Conn : Check(c) => (mixed => mixed')
    BY ZenonT(30) DEF Check, ToLearn
  <2>2. \A c \in Conn : Open(c) \/ Write(c) \/ AcceptAny(c) \/ LearnFails(c) \/ Crash(c)
                        => (mixed => mixed')
    BY ZenonT(30) DEF Open, Write, AcceptAny, LearnFails, Crash
  <2>3. /\ \A c \in Conn, h \in Host : Connect(c, h) => mixed' = mixed
        /\ \A h \in Host, k \in Key : Rekey(h, k) => mixed' = mixed
        /\ vars' = vars => mixed' = mixed
    BY DEF Connect, Rekey, vars
  <2>q. QED
    BY <2>1, <2>2, <2>3 DEF Next
<1>3. broken => broken'
  <2>1. \A c \in Conn : Open(c) \/ Write(c) \/ AcceptAny(c) \/ LearnFails(c) \/ Crash(c)
                        \/ Check(c) => (broken => broken')
    BY ZenonT(30) DEF Open, Write, AcceptAny, LearnFails, Crash, Check
  <2>2. /\ \A c \in Conn, h \in Host : Connect(c, h) => broken' = broken
        /\ \A h \in Host, k \in Key : Rekey(h, k) => broken' = broken
        /\ vars' = vars => broken' = broken
    BY DEF Connect, Rekey, vars
  <2>q. QED
    BY <2>1, <2>2 DEF Next
<1>q. QED
  BY <1>1, <1>2, <1>3 DEF Orderly

(* The inductive invariant.                                                *)
LEMMA KnownStep == KnownInv /\ [Next]_vars => KnownInv'
BY BaseStep, OrderedStep, OrderlyBefore DEF KnownInv

(* It holds throughout.                                                    *)
LEMMA KnownAlways == Spec => []KnownInv
BY KnownInit, KnownStep, PTL DEF Spec

-----------------------------------------------------------------------------
(* The variables of the checks always hold what the code gives them.       *)
THEOREM CheckTypes == Spec => []TypeOK
<1>1. KnownInv => TypeOK
  BY DEF KnownInv, Base
<1>q. QED
  BY <1>1, KnownAlways, PTL

(* However many connections of however many processes are made, to         *)
(* whatever hosts, and however often those get other keys: as long as      *)
(* hosts are learned one at a time and no learning breaks off, a key that  *)
(* was accepted by a connection that could read the file is the pinned one *)
(* and stays it, whatever those that could not read it learn after it      *)
(* (check_server_key).                                                     *)
THEOREM AcceptedStaysPinned == Spec => []AcceptedIsPinned
<1>1. KnownInv => AcceptedIsPinned
  <2> SUFFICES ASSUME Base, Ordered, NEW c \in Conn \ unread, pc[c] = "accepted"
               PROVE  Pin(host[c]) = seen[c]
    BY DEF KnownInv, AcceptedIsPinned
  <2>1. PICK n \in Nat : \E H \in [1..n -> Host], K \in [1..n -> Key] : Kept(n, H, K)
    BY DEF Ordered
  <2>2. PICK H \in [1..n -> Host], K \in [1..n -> Key] : Kept(n, H, K)
    BY <2>1
  <2>3. Listed(host[c], seen[c], n, H, K)
    BY <2>2 DEF Kept
  <2>4. file \in Seq(Fragments) /\ Book(n, H, K)
    BY <2>2 DEF Kept, Base, TypeOK
  <2>q. QED
    BY SMTT(60), <2>3, <2>4, PinRead
<1>q. QED
  BY <1>1, KnownAlways, PTL

(* And a host that has kept its key is not refused.                        *)
THEOREM RefusedForCause == Spec => []NotRefusedInVain
<1>1. KnownInv => NotRefusedInVain
  BY DEF KnownInv, NotRefusedInVain, Ordered, Kept
<1>q. QED
  BY <1>1, KnownAlways, PTL

=============================================================================
