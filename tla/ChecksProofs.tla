---------------------------- MODULE ChecksProofs ---------------------------
(***************************************************************************)
(* Proofs about Checks, for any words, keys, numbers and answers.          *)
(***************************************************************************)
EXTENDS Checks, FiniteSetTheorems, SequenceTheorems, TLAPS

(***************************************************************************)
(* Facts about the operators the model is built from.                      *)
(***************************************************************************)

LEMMA NumberType ==
    ASSUME NEW w, Numeric(w)
    PROVE  Number[w] \in Int
  BY WordsAssumption DEF Numeric

LEMMA TextType ==
    ASSUME TypeOK
    PROVE  /\ Len(text) \in Nat \ {0} /\ DOMAIN text = 1 .. Len(text)
           /\ \A i \in DOMAIN text : /\ text[i] \in Seq(Words) /\ Len(text[i]) \in Nat
                                     /\ \A k \in 1 .. Len(text[i]) : text[i][k] \in Words
<1>1. text \in Seq(Seq(Words)) /\ Len(text) >= 1
  BY DEF TypeOK, Text
<1>2. \A s \in Seq(Words) : Len(s) \in Nat /\ \A k \in 1 .. Len(s) : s[k] \in Words
  OBVIOUS
<1>3. QED
  BY <1>1, <1>2

\* The disk of a line that counts.
LEMMA DiskOfType ==
    ASSUME TypeOK, NEW i \in DOMAIN text, OfDisk(i, text[i]), Numeric(text[i][3])
    PROVE  DiskOf(text[i]) \in Disk
<1>1. text[i][1] \in Words /\ text[i][2] \in RealFS
  BY TextType DEF OfDisk
<1>2. QED
  BY <1>1, NumberType DEF DiskOf, Disk

\* Two neighbours change places.
LEMMA Swapped ==
    ASSUME NEW S, NEW q \in Seq(S), NEW n \in 2 .. Len(q)
    PROVE  /\ Swap(q, n) \in Seq(S) /\ Len(Swap(q, n)) = Len(q) /\ DOMAIN Swap(q, n) = DOMAIN q
           /\ Swap(q, n)[n - 1] = q[n] /\ Swap(q, n)[n] = q[n - 1]
           /\ \A i \in DOMAIN q : i # n /\ i # n - 1 => Swap(q, n)[i] = q[i]
           /\ Range(Swap(q, n)) = Range(q)
<1>1. DOMAIN q = 1 .. Len(q) /\ Len(q) \in Nat /\ n - 1 \in DOMAIN q /\ n \in DOMAIN q
  OBVIOUS
<1>2. q[n] \in S /\ q[n - 1] \in S /\ q \in [1 .. Len(q) -> S]
  BY <1>1
<1>3. Swap(q, n) \in [1 .. Len(q) -> S]
  BY <1>1, <1>2 DEF Swap
<1>4. Swap(q, n) \in Seq(S) /\ Len(Swap(q, n)) = Len(q) /\ DOMAIN Swap(q, n) = DOMAIN q
  BY <1>1, <1>3
<1>5. /\ Swap(q, n)[n - 1] = q[n] /\ Swap(q, n)[n] = q[n - 1]
      /\ \A i \in DOMAIN q : i # n /\ i # n - 1 => Swap(q, n)[i] = q[i]
  BY <1>1, <1>2 DEF Swap
<1>6. Range(Swap(q, n)) = Range(q)
  BY <1>1, <1>4, <1>5, Zenon DEF Range
<1>7. QED
  BY <1>4, <1>5, <1>6

LEMMA RangeAppend ==
    ASSUME NEW S, NEW q \in Seq(S), NEW e \in S
    PROVE  Range(Append(q, e)) = Range(q) \cup {e}
<1>1. /\ DOMAIN Append(q, e) = 1 .. Len(q) + 1
      /\ DOMAIN q = 1 .. Len(q) /\ Len(q) \in Nat
      /\ Append(q, e)[Len(q) + 1] = e
      /\ \A i \in 1 .. Len(q) : Append(q, e)[i] = q[i]
  OBVIOUS
<1>2. \A i \in 1 .. Len(q) + 1 : i \in 1 .. Len(q) \/ i = Len(q) + 1
  BY <1>1
<1>3. \A i \in 1 .. Len(q) : i \in 1 .. Len(q) + 1
  BY <1>1
<1>4. Len(q) + 1 \in 1 .. Len(q) + 1
  BY <1>1
<1>5. QED
  BY <1>1, <1>2, <1>3, <1>4, Zenon DEF Range

(***************************************************************************)
(* Types.                                                                  *)
(***************************************************************************)

\* Sift is within the disks.
HoleInv == pc = "sort" => hole <= at

LEMMA InitTypeOK ==
    Init => TypeOK /\ HoleInv
<1> SUFFICES ASSUME Init
             PROVE  TypeOK /\ HoleInv
  OBVIOUS
<1>1. text \in Text /\ Len(text) >= 1
  BY AnswersAssumption DEF Init
<1>2. QED
  BY <1>1 DEF Init, TypeOK, HoleInv

LEMMA NextTypeOK ==
    TypeOK /\ HoleInv /\ [Next]_vars => TypeOK' /\ HoleInv'
<1> SUFFICES ASSUME TypeOK, HoleInv, [Next]_vars
             PROVE  TypeOK' /\ HoleInv'
  OBVIOUS
<1>1. CASE ParseNumbers
  <2>1. CASE Readable(check, text[1])
    <3>1. 1 \in DOMAIN text /\ text[1] \in Seq(Words) /\ Needed(check) \in 1 .. Len(text[1])
      BY <2>1, TextType DEF Readable, Needed
    <3>2. SubSeq(text[1], 1, Needed(check)) \in Seq(Floats)
      <4>1. /\ SubSeq(text[1], 1, Needed(check)) \in Seq(Words)
            /\ Len(SubSeq(text[1], 1, Needed(check))) = Needed(check)
            /\ \A k \in 1 .. Needed(check) : SubSeq(text[1], 1, Needed(check))[k] = text[1][k]
        BY <3>1
      <4>2. \A k \in 1 .. Needed(check) : text[1][k] \in Floats
        BY <2>1 DEF Readable
      <4>3. QED
        BY <3>1, <4>1, <4>2
    <3>3. read' \in Seq(Floats)
      BY <1>1, <2>1, <3>2 DEF ParseNumbers
    <3>4. QED
      BY <1>1, <3>3 DEF ParseNumbers, TypeOK, HoleInv
  <2>2. CASE ~Readable(check, text[1])
    BY <1>1, <2>2 DEF ParseNumbers, TypeOK, HoleInv
  <2>3. QED
    BY <2>1, <2>2
<1>2. CASE ScanMem
  <2>1. at \in DOMAIN text
    BY <1>2, TextType DEF ScanMem, TypeOK
  <2>2. Take(mem, text[at]) \in [total : SUBSET Int, avail : SUBSET Int]
    BY <2>1, NumberType DEF Take, Says, TypeOK
  <2>3. QED
    BY <1>2, <2>2 DEF ScanMem, TypeOK, HoleInv
<1>3. CASE EndScanMem \/ EndSearchFree \/ NextDisk \/ EndSort \/ EndScanDisk
  <2>1. CASE EndScanMem
    BY <2>1 DEF EndScanMem, TypeOK, HoleInv
  <2>2. CASE EndSearchFree
    BY <2>2 DEF EndSearchFree, TypeOK, HoleInv
  <2>3. CASE NextDisk
    BY <2>3 DEF NextDisk, TypeOK, HoleInv
  <2>4. CASE EndSort
    BY <2>4 DEF EndSort, TypeOK, HoleInv
  <2>5. CASE EndScanDisk
    BY <2>5 DEF EndScanDisk, TypeOK, HoleInv
  <2>6. QED
    BY <1>3, <2>1, <2>2, <2>3, <2>4, <2>5
<1>4. CASE SearchFree
  <2>1. /\ at' = at + 1 /\ at' \in Nat \ {0}
        /\ UNCHANGED <<check, text, hole, disks, read>>
        /\ pc' \in {"free", "done", "failed"}
    BY <1>4 DEF SearchFree, TypeOK
  <2>2. mem' = mem \/ \E w : Numeric(w) /\ mem' = [mem EXCEPT !.avail = {Number[w]}]
    BY <1>4 DEF SearchFree
  <2>3. mem' \in [total : SUBSET Int, avail : SUBSET Int]
    BY <2>2, NumberType DEF TypeOK
  <2>4. QED
    BY <1>4, <2>1, <2>3 DEF SearchFree, TypeOK, HoleInv
<1>5. CASE ScanDisk
  <2>1. at \in DOMAIN text
    BY <1>5, TextType DEF ScanDisk, TypeOK
  <2>2. CASE OfDisk(at, text[at]) /\ Numeric(text[at][3])
    <3>1. disks' = Append(disks, DiskOf(text[at])) /\ DiskOf(text[at]) \in Disk
      BY <1>5, <2>1, <2>2, DiskOfType DEF ScanDisk
    <3>2. disks' \in Seq(Disk)
      BY <3>1 DEF TypeOK
    <3>3. QED
      BY <1>5, <2>2, <3>2 DEF ScanDisk, TypeOK, HoleInv
  <2>3. CASE ~(OfDisk(at, text[at]) /\ Numeric(text[at][3]))
    BY <1>5, <2>3 DEF ScanDisk, TypeOK, HoleInv
  <2>4. QED
    BY <2>2, <2>3
<1>6. CASE Sift
  <2>1. hole \in 2 .. Len(disks) /\ disks \in Seq(Disk)
    BY <1>6 DEF Sift, Unordered, TypeOK, HoleInv
  <2>2. disks' \in Seq(Disk)
    BY <1>6, <2>1, Swapped DEF Sift
  <2>3. QED
    BY <1>6, <2>1, <2>2 DEF Sift, TypeOK, HoleInv
<1>7. CASE UNCHANGED vars
  BY <1>7 DEF vars, TypeOK, HoleInv
<1>8. QED
  BY <1>1, <1>2, <1>3, <1>4, <1>5, <1>6, <1>7 DEF Next

\* Whatever a host answers, the parsers stay within the answer and what they found.
THEOREM TypeCorrect == Spec => []TypeOK
<1>1. Spec => [](TypeOK /\ HoleInv)
  BY InitTypeOK, NextTypeOK, PTL DEF Spec
<1>2. QED
  BY <1>1, PTL

\* The share of the memory that is shown is a percentage, whatever the total is and
\* however it compares with what is available.
THEOREM PercentIsSane == Spec => []PercentSane
<1>1. TypeOK => PercentSane
  <2>1. SUFFICES ASSUME NEW t \in Int, NEW a \in Int, a >= 0
                 PROVE  UsedPercent(t, a) \in 0 .. 100
    BY DEF TypeOK, PercentSane
  <2> DEFINE used == IF t - a > 0 THEN t - a ELSE 0
  <2>2. CASE t > 0
    <3>1. used \in Int /\ 0 <= used /\ used <= t
      BY <2>1, <2>2
    <3> HIDE DEF used
    <3>2. (used * 100) \div t >= 0 /\ (used * 100) \div t <= 100
      BY <2>2, <3>1
    <3>3. QED
      BY <2>2, <3>1, <3>2 DEF UsedPercent, used
  <2>3. CASE ~(t > 0)
    BY <2>3 DEF UsedPercent
  <2>4. QED
    BY <2>2, <2>3
<1>2. QED
  BY <1>1, TypeCorrect, PTL

(***************************************************************************)
(* The loops.                                                              *)
(***************************************************************************)

Inv == FailsWhenUnreadable /\ MemCorrect /\ DisksCorrect /\ MemInv /\ DiskInv

\* The lines do not change.
LEMMA SameLines ==
    ASSUME UNCHANGED <<check, text>>
    PROVE  /\ TotalLines' = TotalLines /\ AvailableLines' = AvailableLines
           /\ FreeLines' = FreeLines /\ FirstFree' = FirstFree /\ DiskLines' = DiskLines
           /\ \A n : Value(n)' = Value(n) /\ DisksBefore(n)' = DisksBefore(n)
           /\ Unreadable' <=> Unreadable
  BY DEF TotalLines, AvailableLines, FreeLines, FirstFree, DiskLines, Value, DisksBefore,
         Unreadable

\* The lines are numbered.
LEMMA LinesType ==
    ASSUME TypeOK
    PROVE  /\ DOMAIN text \subseteq Nat /\ at \in Nat \ {0}
           /\ \A i \in DOMAIN text : i <= Len(text) /\ Len(text) \in Nat
           /\ TotalLines \subseteq DOMAIN text /\ AvailableLines \subseteq DOMAIN text
           /\ FreeLines \subseteq DOMAIN text /\ DiskLines \subseteq DOMAIN text
           /\ at <= Len(text) => at \in DOMAIN text
<1>1. DOMAIN text = 1 .. Len(text) /\ Len(text) \in Nat /\ at \in Nat \ {0}
  BY TextType DEF TypeOK
<1>2. QED
  BY <1>1 DEF TotalLines, AvailableLines, FreeLines, DiskLines

LEMMA ParseNumbersInv ==
    TypeOK /\ ParseNumbers => Inv'
<1> SUFFICES ASSUME TypeOK, ParseNumbers
             PROVE  Inv'
  OBVIOUS
<1>1. check' = check /\ text' = text /\ check \in {"uptime", "load"}
  BY DEF ParseNumbers
<1>2. pc' = IF Readable(check, text[1]) THEN "done" ELSE "failed"
  BY DEF ParseNumbers
<1>3. Unreadable' <=> ~Readable(check, text[1])
  BY <1>1 DEF Unreadable
<1>4. QED
  BY <1>1, <1>2, <1>3 DEF Inv, FailsWhenUnreadable, MemCorrect, DisksCorrect, MemInv, DiskInv

LEMMA ScanMemInv ==
    TypeOK /\ Inv /\ ScanMem => Inv'
<1> SUFFICES ASSUME TypeOK, Inv, ScanMem
             PROVE  Inv'
  OBVIOUS
<1>1. /\ check = "memory" /\ pc = "scan" /\ UNCHANGED <<check, text>> /\ at' = at + 1
      /\ mem' = Take(mem, text[at]) /\ mem \in [total : SUBSET Int, avail : SUBSET Int]
      /\ pc' = IF mem'.total # {} /\ mem'.avail # {} THEN "done" ELSE "scan"
      /\ at \in DOMAIN text
  BY LinesType DEF ScanMem, TypeOK
<1>2. Known(mem.total, TotalLines) /\ Known(mem.avail, AvailableLines)
  BY <1>1 DEF Inv, MemInv
<1>3. Known(mem.total, TotalLines)'
  <2>1. CASE Says(text[at], MemTotal)
    <3>1. mem'.total = {Value(at)} /\ at \in TotalLines
      BY <1>1, <2>1 DEF Take, TotalLines, Value
    <3>2. QED
      BY <1>1, <3>1, SameLines DEF Known
  <2>2. CASE ~Says(text[at], MemTotal)
    <3>1. mem'.total = mem.total /\ at \notin TotalLines
      BY <1>1, <2>2 DEF Take, TotalLines
    <3>2. QED
      BY <1>1, <1>2, <3>1, LinesType, SameLines DEF Known
  <2>3. QED
    BY <2>1, <2>2
<1>4. Known(mem.avail, AvailableLines)'
  <2>1. CASE Says(text[at], MemAvailable)
    <3>1. ~Says(text[at], MemTotal)
      BY <2>1, KeysAssumption DEF Says
    <3>2. mem'.avail = {Value(at)} /\ at \in AvailableLines
      BY <1>1, <2>1, <3>1 DEF Take, AvailableLines, Value
    <3>3. QED
      BY <1>1, <3>2, SameLines DEF Known
  <2>2. CASE ~Says(text[at], MemAvailable)
    <3>1. mem'.avail = mem.avail /\ at \notin AvailableLines
      BY <1>1, <2>2 DEF Take, AvailableLines
    <3>2. QED
      BY <1>1, <1>2, <3>1, LinesType, SameLines DEF Known
  <2>3. QED
    BY <2>1, <2>2
<1>5. CASE mem'.total # {} /\ mem'.avail # {}
  <2>1. /\ \E i \in TotalLines : mem'.total = {Value(i)}
        /\ \E i \in AvailableLines : mem'.avail = {Value(i)}
    BY <1>1, <1>3, <1>4, <1>5, SameLines DEF Known
  <2>2. ~Unreadable
    BY <1>1, <2>1 DEF Unreadable
  <2>3. MemCorrect'
    BY <1>1, <2>1, SameLines DEF MemCorrect
  <2>4. QED
    BY <1>1, <1>5, <2>2, <2>3, SameLines
       DEF Inv, FailsWhenUnreadable, DisksCorrect, MemInv, DiskInv
<1>6. CASE mem'.total = {} \/ mem'.avail = {}
  BY <1>1, <1>3, <1>4, <1>6 DEF Inv, FailsWhenUnreadable, MemCorrect, DisksCorrect, MemInv,
                                DiskInv
<1>7. QED
  BY <1>5, <1>6

LEMMA EndScanMemInv ==
    TypeOK /\ Inv /\ EndScanMem => Inv'
<1> SUFFICES ASSUME TypeOK, Inv, EndScanMem
             PROVE  Inv'
  OBVIOUS
<1>1. /\ check = "memory" /\ pc = "scan" /\ UNCHANGED <<check, text, mem>> /\ at' = 1
      /\ pc' = IF mem.total = {} THEN "failed" ELSE "free"
      /\ at > Len(text)
  BY DEF EndScanMem
<1>2. /\ Known(mem.total, TotalLines) /\ Known(mem.avail, AvailableLines)
      /\ mem.total = {} \/ mem.avail = {}
  BY <1>1 DEF Inv, MemInv
<1>3. \A i \in DOMAIN text : ~(i >= at) /\ i >= 1
  BY <1>1, LinesType, TextType
<1>4. CASE mem.total = {}
  <2>1. TotalLines = {}
    BY <1>2, <1>3, <1>4, LinesType DEF Known
  <2>2. Unreadable
    BY <1>1, <2>1 DEF Unreadable
  <2>3. QED
    BY <1>1, <1>4, <2>2, SameLines
       DEF Inv, FailsWhenUnreadable, MemCorrect, DisksCorrect, MemInv, DiskInv
<1>5. CASE mem.total # {}
  <2>1. \E i \in TotalLines : mem.total = {Value(i)}
    BY <1>2, <1>5 DEF Known
  <2>2. AvailableLines = {}
    BY <1>2, <1>3, <1>5, LinesType DEF Known
  <2>3. \A i \in FreeLines : i >= 1
    BY <1>3, LinesType
  <2>4. QED
    BY <1>1, <1>5, <2>1, <2>2, <2>3, SameLines
       DEF Inv, FailsWhenUnreadable, MemCorrect, DisksCorrect, MemInv, DiskInv
<1>6. QED
  BY <1>4, <1>5

LEMMA SearchFreeInv ==
    TypeOK /\ Inv /\ SearchFree => Inv'
<1> SUFFICES ASSUME TypeOK, Inv, SearchFree
             PROVE  Inv'
  OBVIOUS
<1>1. /\ pc = "free" /\ UNCHANGED <<check, text>> /\ at' = at + 1 /\ at \in DOMAIN text
      /\ mem \in [total : SUBSET Int, avail : SUBSET Int]
  BY LinesType DEF SearchFree, TypeOK
<1>2. check = "memory"
  BY <1>1 DEF Inv, MemInv
<1>3. /\ \E i \in TotalLines : mem.total = {Value(i)}
      /\ AvailableLines = {} /\ \A i \in FreeLines : i >= at
  BY <1>1, <1>2 DEF Inv, MemInv
<1>4. CASE IsFree(text[at])
  <2>1. FirstFree = {at}
    BY <1>1, <1>3, <1>4, LinesType DEF FirstFree, FreeLines
  <2>2. CASE Numeric(text[at][2])
    <3>1. pc' = "done" /\ mem' = [mem EXCEPT !.avail = {Value(at)}]
      BY <1>4, <2>2 DEF SearchFree, Value
    <3>2. mem'.total = mem.total /\ mem'.avail = {Value(at)}
      BY <1>1, <3>1
    <3>3. ~Unreadable
      BY <1>2, <1>3, <2>1, <2>2 DEF Unreadable
    <3>4. MemCorrect'
      BY <1>1, <1>3, <2>1, <3>2, SameLines DEF MemCorrect
    <3>5. QED
      BY <1>1, <1>2, <3>1, <3>3, <3>4, SameLines
         DEF Inv, FailsWhenUnreadable, DisksCorrect, MemInv, DiskInv
  <2>3. CASE ~Numeric(text[at][2])
    <3>1. pc' = "failed"
      BY <1>4, <2>3 DEF SearchFree
    <3>2. Unreadable
      BY <1>2, <1>3, <2>1, <2>3 DEF Unreadable
    <3>3. QED
      BY <1>1, <1>2, <3>1, <3>2, SameLines
         DEF Inv, FailsWhenUnreadable, MemCorrect, DisksCorrect, MemInv, DiskInv
  <2>4. QED
    BY <2>2, <2>3
<1>5. CASE ~IsFree(text[at])
  <2>1. pc' = "free" /\ mem' = mem
    BY <1>1, <1>5 DEF SearchFree
  <2>2. \A i \in FreeLines : i >= at + 1
    BY <1>1, <1>3, <1>5, LinesType DEF FreeLines
  <2>3. QED
    BY <1>1, <1>2, <1>3, <2>1, <2>2, SameLines
       DEF Inv, FailsWhenUnreadable, MemCorrect, DisksCorrect, MemInv, DiskInv
<1>6. QED
  BY <1>4, <1>5

LEMMA EndSearchFreeInv ==
    TypeOK /\ Inv /\ EndSearchFree => Inv'
<1> SUFFICES ASSUME TypeOK, Inv, EndSearchFree
             PROVE  Inv'
  OBVIOUS
<1>1. pc = "free" /\ UNCHANGED <<check, text>> /\ pc' = "failed" /\ at > Len(text)
  BY DEF EndSearchFree
<1>2. check = "memory"
  BY <1>1 DEF Inv, MemInv
<1>3. AvailableLines = {} /\ \A i \in FreeLines : i >= at
  BY <1>1, <1>2 DEF Inv, MemInv
<1>4. FreeLines = {}
  BY <1>1, <1>3, LinesType
<1>5. Unreadable
  BY <1>2, <1>3, <1>4 DEF Unreadable, FirstFree
<1>6. QED
  BY <1>1, <1>2, <1>5, SameLines
     DEF Inv, FailsWhenUnreadable, MemCorrect, DisksCorrect, MemInv, DiskInv

LEMMA ScanDiskInv ==
    TypeOK /\ Inv /\ ScanDisk => Inv'
<1> SUFFICES ASSUME TypeOK, Inv, ScanDisk
             PROVE  Inv'
  OBVIOUS
<1>1. /\ check = "disk" /\ pc = "scan" /\ UNCHANGED <<check, text>> /\ at' = at + 1
      /\ at \in DOMAIN text /\ disks \in Seq(Disk)
  BY LinesType DEF ScanDisk, TypeOK
<1>2. /\ Range(disks) = {DiskOf(text[i]) : i \in DisksBefore(at)}
      /\ Len(disks) = Cardinality(DisksBefore(at))
      /\ \A i \in DisksBefore(at) : Numeric(text[i][3])
  BY <1>1 DEF Inv, DiskInv
<1>3. CASE ~OfDisk(at, text[at])
  <2>1. pc' = pc /\ disks' = disks
    BY <1>3 DEF ScanDisk
  <2>2. DisksBefore(at + 1) = DisksBefore(at)
    BY <1>1, <1>3, LinesType DEF DisksBefore, DiskLines
  <2>3. QED
    BY <1>1, <1>2, <2>1, <2>2, SameLines
       DEF Inv, FailsWhenUnreadable, MemCorrect, DisksCorrect, MemInv, DiskInv
<1>4. CASE OfDisk(at, text[at]) /\ Numeric(text[at][3])
  <2>1. pc' = pc /\ disks' = Append(disks, DiskOf(text[at])) /\ DiskOf(text[at]) \in Disk
    BY <1>1, <1>4, DiskOfType DEF ScanDisk
  <2>2. DisksBefore(at + 1) = DisksBefore(at) \cup {at} /\ at \notin DisksBefore(at)
    BY <1>1, <1>4, LinesType DEF DisksBefore, DiskLines
  <2>3. Cardinality(DisksBefore(at + 1)) = Cardinality(DisksBefore(at)) + 1
    <3>1. IsFiniteSet(DisksBefore(at))
      <4>1. IsFiniteSet(1 .. Len(text)) /\ DisksBefore(at) \in SUBSET (1 .. Len(text))
        BY TextType, FS_Interval DEF DisksBefore, DiskLines
      <4>2. QED
        BY <4>1, FS_Subset
    <3>2. QED
      BY <2>2, <3>1, FS_AddElement
  <2>4. Len(disks') = Cardinality(DisksBefore(at + 1))
    BY <1>1, <1>2, <2>1, <2>3
  <2>5. Range(disks') = {DiskOf(text[i]) : i \in DisksBefore(at + 1)}
    BY <1>1, <1>2, <2>1, <2>2, RangeAppend
  <2>6. \A i \in DisksBefore(at + 1) : Numeric(text[i][3])
    BY <1>2, <1>4, <2>2
  <2>7. QED
    BY <1>1, <2>1, <2>4, <2>5, <2>6, SameLines
       DEF Inv, FailsWhenUnreadable, MemCorrect, DisksCorrect, MemInv, DiskInv
<1>5. CASE OfDisk(at, text[at]) /\ ~Numeric(text[at][3])
  <2>1. pc' = "failed"
    BY <1>5 DEF ScanDisk
  <2>2. Unreadable
    BY <1>1, <1>5 DEF Unreadable, DiskLines
  <2>3. QED
    BY <1>1, <2>1, <2>2, SameLines
       DEF Inv, FailsWhenUnreadable, MemCorrect, DisksCorrect, MemInv, DiskInv
<1>6. QED
  BY <1>3, <1>4, <1>5

LEMMA EndScanDiskInv ==
    TypeOK /\ Inv /\ EndScanDisk => Inv'
<1> SUFFICES ASSUME TypeOK, Inv, EndScanDisk
             PROVE  Inv'
  OBVIOUS
<1>1. /\ check = "disk" /\ pc = "scan" /\ UNCHANGED <<check, text, disks>>
      /\ at > Len(text) /\ pc' = "sort" /\ at' = 2 /\ hole' = 2
  BY DEF EndScanDisk
<1>2. DisksBefore(at) = DiskLines
  BY <1>1, LinesType DEF DisksBefore
<1>3. \A i \in DOMAIN disks : i \in Nat \ {0}
  BY DEF TypeOK
<1>4. Sifting'
  BY <1>1, <1>3 DEF Sifting
<1>5. QED
  BY <1>1, <1>2, <1>4, SameLines
     DEF Inv, FailsWhenUnreadable, MemCorrect, DisksCorrect, MemInv, DiskInv

\* Sorting leaves what was found as it is.
LEMMA SortInv ==
    ASSUME TypeOK, Inv, UNCHANGED <<check, text>>, pc = "sort",
           Range(disks') = Range(disks), Len(disks') = Len(disks),
           pc' = "sort" => Sifting', pc' \in {"sort", "done"},
           pc' = "done" => \A i, k \in DOMAIN disks : i < k => disks[i].mount <= disks[k].mount,
           pc' = "done" => disks' = disks
    PROVE  Inv'
<1>1. check = "disk"
  BY DEF Inv, DiskInv
<1>2. /\ Range(disks) = {DiskOf(text[i]) : i \in DiskLines}
      /\ Len(disks) = Cardinality(DiskLines)
      /\ \A i \in DiskLines : Numeric(text[i][3])
  BY <1>1 DEF Inv, DiskInv
<1>3. ~Unreadable
  BY <1>1, <1>2 DEF Unreadable
<1>4. QED
  BY <1>1, <1>2, <1>3, SameLines
     DEF Inv, FailsWhenUnreadable, MemCorrect, DisksCorrect, MemInv, DiskInv

\* One insertion: the disk moves below one that is greater.
LEMMA SiftInv ==
    TypeOK /\ HoleInv /\ Inv /\ Sift => Inv'
<1> SUFFICES ASSUME TypeOK, HoleInv, Inv, Sift
             PROVE  Inv'
  OBVIOUS
<1>1. /\ pc = "sort" /\ pc' = "sort" /\ UNCHANGED <<check, text, at>> /\ hole' = hole - 1
      /\ hole \in 2 .. Len(disks) /\ disks \in Seq(Disk) /\ hole \in Nat /\ at \in Nat
      /\ disks[hole - 1].mount > disks[hole].mount /\ at <= Len(disks)
      /\ disks' = Swap(disks, hole)
  BY DEF Sift, Unordered, TypeOK, HoleInv
<1>2. /\ Len(disks') = Len(disks) /\ DOMAIN disks' = DOMAIN disks
      /\ disks'[hole - 1] = disks[hole] /\ disks'[hole] = disks[hole - 1]
      /\ \A i \in DOMAIN disks : i # hole /\ i # hole - 1 => disks'[i] = disks[i]
      /\ Range(disks') = Range(disks)
  BY <1>1, Swapped
<1>3. Sifting
  BY <1>1 DEF Inv, DiskInv
<1>4. \A i \in DOMAIN disks : i \in Nat /\ disks[i].mount \in Nat
  <2>1. \A i \in DOMAIN disks : i \in Nat /\ disks[i] \in Disk
    BY <1>1
  <2>2. QED
    BY <2>1, WordsAssumption DEF Disk
<1>5. hole - 1 \in DOMAIN disks /\ hole \in DOMAIN disks
  BY <1>1
<1>6. ASSUME NEW i \in DOMAIN disks, NEW k \in DOMAIN disks, i < k, k <= at, k # hole - 1
      PROVE  disks'[i].mount <= disks'[k].mount
  <2>0. hole <= at
    BY <1>1 DEF HoleInv
  <2>1. CASE i # hole - 1 /\ i # hole /\ k # hole
    BY <1>2, <1>3, <1>6, <2>1 DEF Sifting
  <2>2. CASE i = hole
    <3>1. k # hole /\ hole - 1 < k /\ hole - 1 # hole
      BY ONLY <1>1, <1>4, <1>6, <2>2
    <3>2. disks[hole - 1].mount <= disks[k].mount
      BY <1>3, <1>5, <1>6, <3>1 DEF Sifting
    <3>3. QED
      BY ONLY <1>2, <1>6, <2>2, <3>1, <3>2
  <2>3. CASE i # hole - 1 /\ k = hole
    <3>1. i # hole /\ i < hole - 1 /\ hole - 1 <= at /\ hole - 1 # hole
      BY ONLY <1>1, <1>4, <1>6, <2>0, <2>3
    <3>2. disks[i].mount <= disks[hole - 1].mount
      BY <1>3, <1>5, <1>6, <3>1 DEF Sifting
    <3>3. QED
      BY ONLY <1>2, <1>6, <2>3, <3>1, <3>2
  <2>4. CASE i = hole - 1 /\ k = hole
    BY <1>1, <1>2, <1>4, <1>5, <2>4
  <2>5. CASE i = hole - 1 /\ k # hole
    <3>1. k > hole
      BY <1>1, <1>4, <1>6, <2>5
    <3>2. disks[hole].mount <= disks[k].mount
      BY <1>3, <1>5, <1>6, <3>1 DEF Sifting
    <3>3. QED
      BY <1>2, <1>6, <2>5, <3>2
  <2>6. QED
    BY <2>1, <2>2, <2>3, <2>4, <2>5
<1>7. Sifting'
  BY <1>1, <1>2, <1>3, <1>4, <1>6 DEF Sifting, HoleInv
<1>8. QED
  BY <1>1, <1>2, <1>7, SortInv

LEMMA NextDiskInv ==
    TypeOK /\ HoleInv /\ Inv /\ NextDisk => Inv'
<1> SUFFICES ASSUME TypeOK, HoleInv, Inv, NextDisk
             PROVE  Inv'
  OBVIOUS
<1>1. /\ pc = "sort" /\ pc' = "sort" /\ UNCHANGED <<check, text, disks>>
      /\ at' = at + 1 /\ hole' = at + 1 /\ ~Unordered /\ at <= Len(disks)
      /\ at \in Nat /\ hole \in Nat \ {0} /\ disks \in Seq(Disk)
  BY DEF NextDisk, TypeOK
<1>2. Sifting
  BY <1>1 DEF Inv, DiskInv
<1>3. \A i \in DOMAIN disks : i \in Nat /\ disks[i].mount \in Nat
  <2>1. \A i \in DOMAIN disks : i \in Nat /\ disks[i] \in Disk
    BY <1>1
  <2>2. QED
    BY <2>1, WordsAssumption DEF Disk
<1>4. ASSUME NEW i \in DOMAIN disks, NEW k \in DOMAIN disks, i < k, k <= at
      PROVE  disks[i].mount <= disks[k].mount
  <2>1. CASE k # hole
    BY <1>2, <1>4, <2>1 DEF Sifting
  <2>2. CASE k = hole
    <3>1. hole > 1 /\ hole - 1 \in DOMAIN disks
      BY <1>1, <1>3, <1>4, <2>2
    <3>2. disks[hole - 1].mount <= disks[hole].mount
      BY <1>1, <1>3, <1>4, <2>2, <3>1 DEF Unordered
    <3>3. i = hole - 1 \/ disks[i].mount <= disks[hole - 1].mount
      <4>1. i # hole - 1 => i < hole - 1 /\ hole - 1 <= at /\ i # hole /\ hole - 1 # hole
        BY ONLY <1>1, <1>3, <1>4, <2>2
      <4>2. QED
        BY <1>2, <1>4, <3>1, <4>1 DEF Sifting
    <3>4. QED
      BY <1>3, <1>4, <2>2, <3>1, <3>2, <3>3
  <2>3. QED
    BY <2>1, <2>2
<1>5. Sifting'
  BY <1>1, <1>3, <1>4 DEF Sifting
<1>6. QED
  BY <1>1, <1>5, SortInv

LEMMA EndSortInv ==
    TypeOK /\ Inv /\ EndSort => Inv'
<1> SUFFICES ASSUME TypeOK, Inv, EndSort
             PROVE  Inv'
  OBVIOUS
<1>1. /\ pc = "sort" /\ pc' = "done" /\ UNCHANGED <<check, text, disks>>
      /\ at > Len(disks) /\ at \in Nat /\ disks \in Seq(Disk) /\ hole \in Nat
  BY DEF EndSort, TypeOK
<1>2. Sifting
  BY <1>1 DEF Inv, DiskInv
<1>3. hole = at
  BY <1>1, <1>2 DEF Sifting
<1>4. ASSUME NEW i \in DOMAIN disks, NEW k \in DOMAIN disks, i < k
      PROVE  disks[i].mount <= disks[k].mount
  <2>1. i # hole /\ k # hole /\ k <= at
    BY <1>1, <1>3
  <2>2. QED
    BY <1>2, <1>4, <2>1 DEF Sifting
<1>5. QED
  BY <1>1, <1>4, SortInv

LEMMA NextInvariant ==
    TypeOK /\ HoleInv /\ Inv /\ [Next]_vars => Inv'
<1> SUFFICES ASSUME TypeOK, HoleInv, Inv, [Next]_vars
             PROVE  Inv'
  OBVIOUS
<1>1. CASE UNCHANGED vars
  <2>1. UNCHANGED <<check, text, pc, at, hole, mem, disks>>
    BY <1>1 DEF vars
  <2>2. MemInv' /\ DiskInv'
    BY <2>1, SameLines DEF Inv, MemInv, DiskInv, Known, Sifting
  <2>3. QED
    BY <2>1, <2>2, SameLines DEF Inv, FailsWhenUnreadable, MemCorrect, DisksCorrect
<1>2. CASE Next
  BY <1>2, ParseNumbersInv, ScanMemInv, EndScanMemInv, SearchFreeInv, EndSearchFreeInv,
     ScanDiskInv, EndScanDiskInv, SiftInv, NextDiskInv, EndSortInv DEF Next
<1>3. QED
  BY <1>1, <1>2

LEMMA InvCorrect ==
    Spec => []Inv
<1>1. Init => Inv
  <2>1. SUFFICES ASSUME Init, TypeOK
                 PROVE  Inv
    BY InitTypeOK
  <2>2. pc = "scan" /\ at = 1 /\ mem = [total |-> {}, avail |-> {}] /\ disks = <<>>
    BY <2>1 DEF Init
  <2>3. \A i \in DOMAIN text : i >= 1
    BY <2>1, TextType
  <2>4. DisksBefore(at) = {}
    <3>1. DiskLines \subseteq DOMAIN text /\ DOMAIN text \subseteq Nat
      BY <2>1, LinesType
    <3>2. QED
      BY <2>2, <2>3, <3>1 DEF DisksBefore
  <2>5. Range(disks) = {} /\ Len(disks) = Cardinality(DisksBefore(at))
    BY <2>2, <2>4, FS_EmptySet DEF Range
  <2>6. QED
    BY <2>1, <2>2, <2>3, <2>4, <2>5, LinesType
       DEF Inv, FailsWhenUnreadable, MemCorrect, DisksCorrect, MemInv, DiskInv, Known
<1>2. QED
  BY <1>1, InitTypeOK, NextTypeOK, NextInvariant, PTL DEF Spec

\* A check fails if and only if the answer has no result, for any answer.
THEOREM FailureCorrect == Spec => []FailsWhenUnreadable
  BY InvCorrect, PTL DEF Inv

\* The total and the available memory are those of the lines that say them.
THEOREM MemIsCorrect == Spec => []MemCorrect
  BY InvCorrect, PTL DEF Inv

\* The disks are those of the answer, each once, and sorted.
THEOREM DisksAreCorrect == Spec => []DisksCorrect
  BY InvCorrect, PTL DEF Inv

============================================================================
