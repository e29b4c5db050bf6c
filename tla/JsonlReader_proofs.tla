--------------------------- MODULE JsonlReader_proofs ---------------------------
(***************************************************************************)
(* What holds of JsonlReader for every set of consumers and of threads,    *)
(* every length of the file and every read that is cancelled:              *)
(*   ReaderTypesHold      ReadSpec => []ReaderTypeOK                       *)
(*   ReaderFeedsInOrder   ReadSpec => FeedsInOrder, that is, the reader    *)
(*                        implements JournalFeed                           *)
(* First what the helpers compute on bytes, then the inductive invariant   *)
(* ReadInv with one lemma per action, then the two theorems.               *)
(***************************************************************************)
EXTENDS JsonlReader, SequenceTheorems, WellFoundedInduction, TLAPS

(* A nonempty set of positions has a last one. *)
LEMMA LastExists ==
  ASSUME NEW n \in Nat, NEW S \in SUBSET (1 .. n), S # {}
  PROVE  \E i \in S : \A j \in S : j <= i
<1> DEFINE T == {n - i : i \in S}
<1>1. T \subseteq Nat /\ T # {}
  <2>1. \A i \in S : n - i \in Nat
    OBVIOUS
  <2>2. PICK i \in S : TRUE
    OBVIOUS
  <2>3. n - i \in T
    BY <2>2
  <2> QED BY <2>1, <2>3
<1>2. PICK x \in T : \A y \in T : ~(<<y, x>> \in OpToRel(<, Nat))
  BY <1>1, NatLessThanWellFounded, WFMin
<1>3. \A y \in T : ~(y < x)
  BY <1>1, <1>2 DEF OpToRel
<1>4. PICK i \in S : x = n - i
  OBVIOUS
<1>5. \A j \in S : j <= i
  BY <1>3, <1>4
<1> QED BY <1>5
--------------------------------------------------------------------------------
(* A stretch of the file as a sequence. *)
LEMMA BytesAre ==
  ASSUME NEW lo \in Nat, NEW hi \in Nat, lo <= hi
  PROVE  /\ Bytes(lo, hi) \in Seq((lo + 1) .. hi)
         /\ Bytes(lo, hi) \in Seq(Nat)
         /\ Len(Bytes(lo, hi)) = hi - lo
         /\ \A i \in 1 .. hi - lo : Bytes(lo, hi)[i] = lo + i
<1>1. Bytes(lo, hi) \in [1 .. hi - lo -> (lo + 1) .. hi]
  BY DEF Bytes
<1>2. Bytes(lo, hi) \in Seq((lo + 1) .. hi)
  BY <1>1
<1>3. Len(Bytes(lo, hi)) = hi - lo
  BY <1>1, <1>2
<1>4. Bytes(lo, hi) \in Seq(Nat)
  <2>1. (lo + 1) .. hi \subseteq Nat
    OBVIOUS
  <2> QED BY <1>2, <2>1, SeqMonotonic
<1> QED BY <1>2, <1>3, <1>4 DEF Bytes

(* Two stretches that follow each other. *)
LEMMA BytesJoin ==
  ASSUME NEW a \in Nat, NEW b \in Nat, NEW c \in Nat, a <= b, b <= c
  PROVE  Bytes(a, b) \o Bytes(b, c) = Bytes(a, c)
<1> DEFINE x == Bytes(a, b)
           y == Bytes(b, c)
           z == Bytes(a, c)
<1>1. x \in Seq(Nat) /\ Len(x) = b - a /\ \A i \in 1 .. b - a : x[i] = a + i
  BY BytesAre
<1>2. y \in Seq(Nat) /\ Len(y) = c - b /\ \A i \in 1 .. c - b : y[i] = b + i
  BY BytesAre
<1>3. z \in Seq(Nat) /\ Len(z) = c - a /\ \A i \in 1 .. c - a : z[i] = a + i
  <2>1. a <= c
    OBVIOUS
  <2> QED BY <2>1, BytesAre
<1> HIDE DEF x, y, z
<1>4. /\ x \o y \in Seq(Nat) /\ Len(x \o y) = Len(x) + Len(y)
      /\ \A i \in 1 .. Len(x) + Len(y) :
           (x \o y)[i] = IF i <= Len(x) THEN x[i] ELSE y[i - Len(x)]
  BY <1>1, <1>2, ConcatProperties
<1>5. Len(x \o y) = Len(z) /\ Len(z) = c - a
  BY <1>1, <1>2, <1>3, <1>4
<1>6. ASSUME NEW i \in 1 .. Len(z) PROVE (x \o y)[i] = z[i]
  <2>1. CASE i <= b - a
    BY <1>1, <1>2, <1>3, <1>4, <1>5, <2>1
  <2>2. CASE ~(i <= b - a)
    <3>1. i - (b - a) \in 1 .. c - b /\ (x \o y)[i] = y[i - (b - a)]
      BY <1>1, <1>2, <1>4, <1>5, <2>2
    <3> QED BY <1>2, <1>3, <1>5, <3>1
  <2> QED BY <2>1, <2>2
<1>7. x \o y = z
  BY <1>3, <1>4, <1>5, <1>6, SeqEqual
<1> QED BY <1>7 DEF x, y, z

(* LastBreak is the position of the last newline, 0 if there is none. *)
LEMMA LastBreakIs ==
  ASSUME NEW s \in Seq(Nat)
  PROVE  /\ LastBreak(s) \in 0 .. Len(s)
         /\ LastBreak(s) = 0 => Breaks(s) = {}
         /\ LastBreak(s) # 0 => Newline(s[LastBreak(s)])
         /\ \A j \in Breaks(s) : j <= LastBreak(s)
<1>1. Breaks(s) \in SUBSET (1 .. Len(s)) /\ Len(s) \in Nat
  BY DEF Breaks
<1>2. CASE Breaks(s) = {}
  BY <1>1, <1>2 DEF LastBreak
<1>3. CASE Breaks(s) # {}
  <2>1. \E i \in Breaks(s) : \A j \in Breaks(s) : j <= i
    BY <1>1, <1>3, LastExists
  <2>2. LastBreak(s) \in Breaks(s) /\ \A j \in Breaks(s) : j <= LastBreak(s)
    BY <1>3, <2>1 DEF LastBreak
  <2> QED BY <1>1, <1>3, <2>2 DEF Breaks
<1> QED BY <1>2, <1>3

(* What is kept in the buffer is a piece of a line. *)
LEMMA RestIs ==
  ASSUME NEW S \in SUBSET Nat, NEW s \in Seq(S)
  PROVE  Rest(s) \in Seq(S) /\ Breaks(Rest(s)) = {}
<1>0. s \in Seq(Nat)
  BY SeqMonotonic
<1>1. LastBreak(s) \in 0 .. Len(s) /\ Len(s) \in Nat
  BY <1>0, LastBreakIs
<1> DEFINE k == LastBreak(s)
<1> HIDE DEF k
<1>2. k \in Nat /\ k <= Len(s)
  BY <1>1 DEF k
<1>3. /\ SubSeq(s, k + 1, Len(s)) \in Seq(S)
      /\ Len(SubSeq(s, k + 1, Len(s))) = Len(s) - k
      /\ \A i \in 1 .. Len(s) - k : SubSeq(s, k + 1, Len(s))[i] = s[k + i]
  BY <1>2
<1>4. \A i \in 1 .. Len(s) - k : ~Newline(s[k + i])
  BY <1>0, <1>2, LastBreakIs DEF Breaks, k
<1>5. Rest(s) = SubSeq(s, k + 1, Len(s))
  BY DEF Rest, k
<1>6. ASSUME NEW i \in Breaks(Rest(s)) PROVE FALSE
  <2>1. DOMAIN Rest(s) = 1 .. Len(s) - k
    BY <1>2, <1>3, <1>5
  <2>2. i \in 1 .. Len(s) - k /\ Newline(s[k + i])
    BY <2>1, <1>3, <1>5 DEF Breaks
  <2> QED BY <1>4, <2>2
<1> QED BY <1>3, <1>5, <1>6

(* Records are lines of the file. *)
LEMMA RecordsTyped ==
  ASSUME NEW n \in Nat, NEW m \in Nat, n <= 3 * m, NEW s \in Seq(1 .. n)
  PROVE  Records(s) \subseteq 1 .. m
<1>1. ASSUME NEW j \in Breaks(s) PROVE s[j] \div 3 \in 1 .. m
  <2>1. s[j] \in 1 .. n /\ Newline(s[j])
    BY DEF Breaks
  <2> QED BY <2>1 DEF Newline
<1> QED BY <1>1 DEF Records

(* Whatever piece of a line is in the buffer, the records that a read completes
   lie in what it has read. *)
LEMMA RecordsAreNew ==
  ASSUME NEW s \in Seq(Nat), Breaks(s) = {},
         NEW lo \in Nat, NEW hi \in Nat, lo <= hi
  PROVE  Records(s \o Bytes(lo, hi)) \subseteq (Lines(lo) + 1) .. Lines(hi)
<1> DEFINE c == s \o Bytes(lo, hi)
<1>1. Bytes(lo, hi) \in Seq(Nat) /\ Len(Bytes(lo, hi)) = hi - lo
  BY BytesAre
<1>2. /\ c \in Seq(Nat) /\ Len(c) = Len(s) + (hi - lo) /\ Len(s) \in Nat
      /\ \A i \in 1 .. Len(s) : c[i] = s[i]
      /\ \A i \in (Len(s) + 1) .. Len(c) : c[i] = lo + (i - Len(s))
  <2>1. /\ c \in Seq(Nat) /\ Len(c) = Len(s) + (hi - lo) /\ Len(s) \in Nat
        /\ \A i \in 1 .. Len(c) : c[i] = IF i <= Len(s) THEN s[i]
                                         ELSE Bytes(lo, hi)[i - Len(s)]
    <3>1. /\ c \in Seq(Nat) /\ Len(c) = Len(s) + Len(Bytes(lo, hi))
          /\ \A i \in 1 .. Len(s) + Len(Bytes(lo, hi)) :
               c[i] = IF i <= Len(s) THEN s[i] ELSE Bytes(lo, hi)[i - Len(s)]
      BY <1>1, ConcatProperties
    <3> QED BY <1>1, <3>1
  <2>2. ASSUME NEW i \in (Len(s) + 1) .. Len(c) PROVE c[i] = lo + (i - Len(s))
    <3>1. i - Len(s) \in 1 .. hi - lo /\ c[i] = Bytes(lo, hi)[i - Len(s)]
      BY <2>1
    <3> QED BY <3>1, BytesAre
  <2> QED BY <2>1, <2>2
<1> HIDE DEF c
<1>3. ASSUME NEW i \in Breaks(c)
      PROVE  c[i] \div 3 \in (Lines(lo) + 1) .. Lines(hi)
  <2>1. i \in 1 .. Len(c) /\ Newline(c[i])
    BY <1>2 DEF Breaks
  <2>2. ~(i <= Len(s))
    BY <1>2, <2>1 DEF Breaks
  <2>3. c[i] = lo + (i - Len(s)) /\ i - Len(s) \in 1 .. hi - lo
    BY <1>2, <2>1, <2>2
  <2> QED BY <2>1, <2>3 DEF Newline, Lines
<1>4. Records(c) \subseteq (Lines(lo) + 1) .. Lines(hi)
  BY <1>3 DEF Records
<1> QED BY <1>4 DEF c

(* A stretch that starts with a line is split into its complete lines and the
   one that was begun. *)
LEMMA WholeLines ==
  ASSUME NEW k \in Nat, NEW h \in Nat, 3 * k <= h
  PROVE  /\ Records(Bytes(3 * k, h)) = (k + 1) .. Lines(h)
         /\ Rest(Bytes(3 * k, h)) = Bytes(3 * Lines(h), h)
<1> DEFINE s == Bytes(3 * k, h)
           l == Lines(h)
           last == 3 * l - 3 * k
<1>1. /\ s \in Seq(Nat) /\ Len(s) = h - 3 * k
      /\ \A i \in 1 .. h - 3 * k : s[i] = 3 * k + i
  BY BytesAre
<1>2. l \in Nat /\ k <= l /\ 3 * l <= h /\ h < 3 * l + 3
  BY DEF Lines
<1> HIDE DEF s, l
<1>3. Breaks(s) = {i \in 1 .. h - 3 * k : i % 3 = 0}
  <2>1. DOMAIN s = 1 .. h - 3 * k
    BY <1>1
  <2>2. \A i \in 1 .. h - 3 * k : Newline(s[i]) <=> i % 3 = 0
    BY <1>1 DEF Newline
  <2> QED BY <2>1, <2>2 DEF Breaks
<1>4. LastBreak(s) = last
  <2>1. CASE l = k
    <3>1. h - 3 * k < 3
      BY <1>2, <2>1
    <3>2. Breaks(s) = {}
      BY <1>3, <3>1
    <3> QED BY <2>1, <3>2 DEF LastBreak
  <2>2. CASE l # k
    <3>1. last \in 1 .. h - 3 * k /\ last % 3 = 0
      BY <1>2, <2>2
    <3>2. last \in Breaks(s)
      BY <1>3, <3>1
    <3>3. \A j \in Breaks(s) : j <= last
      BY <1>2, <1>3
    <3>4. \A i \in Breaks(s) : (\A j \in Breaks(s) : j <= i) => i = last
      <4>1. \A i \in Breaks(s) : i \in Int
        BY <1>3
      <4>2. last \in Int
        BY <3>1
      <4> HIDE DEF last
      <4> QED BY <3>2, <3>3, <4>1, <4>2
    <3> HIDE DEF last
    <3> QED BY <3>2, <3>3, <3>4 DEF LastBreak
  <2> QED BY <2>1, <2>2
<1>5. Rest(s) = Bytes(3 * l, h)
  <2> DEFINE r == SubSeq(s, last + 1, Len(s))
             b == Bytes(3 * l, h)
  <2>1. /\ b \in Seq(Nat) /\ Len(b) = h - 3 * l
        /\ \A i \in 1 .. h - 3 * l : b[i] = 3 * l + i
    <3>1. 3 * l \in Nat /\ 3 * l <= h
      BY <1>2
    <3> QED BY <3>1, BytesAre
  <2>2. \A i \in last + 1 .. Len(s) : s[i] \in Nat
    BY <1>1, <1>2
  <2>3. /\ r \in Seq(Nat) /\ Len(r) = h - 3 * l
        /\ \A i \in 1 .. h - 3 * l : r[i] = 3 * l + i
    <3>1. last + 1 \in Int /\ Len(s) \in Int
      BY <1>1, <1>2
    <3>2. /\ r \in Seq(Nat)
          /\ Len(r) = IF last + 1 <= Len(s) THEN Len(s) - (last + 1) + 1 ELSE 0
          /\ \A i \in 1 .. Len(s) - (last + 1) + 1 : r[i] = s[(last + 1) + i - 1]
      BY <2>2, <3>1, SubSeqProperties
    <3> QED BY <1>1, <1>2, <3>2
  <2>4. r = b
    <3> HIDE DEF r, b
    <3> QED BY <2>1, <2>3, SeqEqual
  <2> QED BY <1>4, <2>4 DEF Rest
<1>6. Records(s) = (k + 1) .. l
  <2>1. ASSUME NEW i \in Breaks(s) PROVE s[i] \div 3 \in (k + 1) .. l
    <3>1. i \in 1 .. h - 3 * k /\ i % 3 = 0 /\ s[i] = 3 * k + i
      BY <1>1, <1>3
    <3> QED BY <1>2, <3>1
  <2>2. ASSUME NEW n \in (k + 1) .. l PROVE n \in Records(s)
    <3> DEFINE i == 3 * n - 3 * k
    <3>1. i \in 3 .. h - 3 * k /\ i % 3 = 0
      BY <1>2
    <3>2. i \in Breaks(s) /\ s[i] = 3 * n
      BY <1>1, <1>3, <3>1
    <3>3. s[i - 1] = s[i] - 1 /\ s[i - 2] = s[i] - 2
      BY <1>1, <3>1
    <3>4. i = 3 \/ Newline(s[i - 3])
      BY <1>1, <3>1 DEF Newline
    <3>5. s[i] \div 3 = n
      BY <3>2
    <3> HIDE DEF i
    <3>6. i >= 3
      BY <3>1
    <3> QED BY <3>2, <3>3, <3>4, <3>5, <3>6 DEF Records
  <2>3. Records(s) \subseteq (k + 1) .. l
    BY <2>1 DEF Records
  <2> QED BY <2>2, <2>3
<1> QED BY <1>5, <1>6 DEF s, l
--------------------------------------------------------------------------------
(* The holder of the lock is the one owner of a thread. *)
OwnerInv ==
    /\ \A t \in Threads : thread[t].owner # None =>
          thread[t].pc # "idle" /\ lock = thread[t].owner
    /\ \A t, u \in Threads :
          thread[t].owner # None /\ thread[u].owner # None => t = u

(* A read lies behind the position in the file as soon as it is counted, and
   what it found lies in it; what an owner reads is new. *)
ThreadInv(t) ==
    LET th == thread[t] IN
    /\ th.pc \in {"idle", "open", "failed"} => th.lo = 0 /\ th.hi = 0
    /\ th.pc \in {"read", "split"} => th.lo < th.hi
    /\ th.pc = "done" => th.lo <= th.hi
    /\ th.pc = "read" => th.lo <= offset
    /\ th.pc = "split" => th.hi <= offset
    /\ th.pc = "done" => th.hi <= offset
    /\ th.got \subseteq (Lines(th.lo) + 1) .. Lines(th.hi)
    /\ th.pc # "done" => th.got = {}
    /\ th.owner # None /\ th.lo < th.hi => 3 * taken <= th.lo
    /\ th.owner # None => th.pre \subseteq (handed + 1) .. taken
    /\ th.owner \in Consumers => prefetched = {}
    /\ th.owner = Preflight => th.pre = {}

OrderInv ==
    /\ handed <= taken /\ 3 * taken <= offset /\ taken <= Lines(size)
    /\ Breaks(buffer) = {}
    /\ prefetched \subseteq (handed + 1) .. taken

(* As long as no read was cut: nobody reads but the holder of the lock, the
   buffer is the line that was begun, and what the consumers did not get yet is
   prefetched or with the one who reads. *)
Waiting(t) ==
    /\ thread[t].pc # "split"
    /\ ~(thread[t].pc = "done" /\ thread[t].lo < thread[t].hi)
WholeInv ==
    /\ offset <= size
    /\ \A t \in Threads : thread[t].pc # "idle" => thread[t].owner # None
    /\ (\A t \in Threads : thread[t].owner \notin Consumers) =>
          prefetched = (handed + 1) .. taken
    /\ (\A t \in Threads : Waiting(t)) => taken = Lines(offset)
    /\ (\A t \in Threads : thread[t].pc # "split") =>
          buffer = Bytes(3 * Lines(offset), offset)
    /\ \A t \in Threads :
          /\ thread[t].owner \in Consumers =>
               thread[t].pre = (handed + 1) .. taken
          /\ thread[t].pc = "read" => thread[t].lo = offset
          /\ thread[t].pc = "split" =>
               /\ thread[t].hi = offset /\ taken = Lines(thread[t].lo)
               /\ buffer = Bytes(3 * taken, thread[t].lo)
          /\ thread[t].pc = "done" /\ thread[t].lo < thread[t].hi =>
               /\ thread[t].hi = offset
               /\ thread[t].got = (taken + 1) .. Lines(thread[t].hi)

ReadInv ==
    /\ ReaderTypeOK /\ OwnerInv /\ OrderInv
    /\ \A t \in Threads : ThreadInv(t)
    /\ ~cut => WholeInv
--------------------------------------------------------------------------------
(* One thread is replaced, the others stay. *)
LEMMA Updated ==
  ASSUME thread \in [Threads -> ThreadRec], NEW t \in Threads, NEW x,
         thread' = [thread EXCEPT ![t] = x], x \in ThreadRec'
  PROVE  /\ thread'[t] = x
         /\ \A u \in Threads : u # t => thread'[u] = thread[u]
         /\ size' = size => thread' \in [Threads -> ThreadRec']
<1>1. thread'[t] = x /\ \A u \in Threads : u # t => thread'[u] = thread[u]
  OBVIOUS
<1>2. ASSUME size' = size PROVE thread' \in [Threads -> ThreadRec']
  BY <1>2 DEF ThreadRec
<1> QED BY <1>1, <1>2

(* A free thread. *)
LEMMA IdleTyped ==
  ASSUME size \in Nat
  PROVE  /\ Idle \in ThreadRec /\ Idle.pc = "idle" /\ Idle.owner = None
         /\ Idle.lo = 0 /\ Idle.hi = 0 /\ Idle.pre = {} /\ Idle.got = {}
<1>1. 0 \in 0 .. size
  OBVIOUS
<1> QED BY <1>1 DEF Idle, ThreadRec

(* Before anything was written. *)
LEMMA InitHolds == ReadInit => ReadInv
<1> SUFFICES ASSUME ReadInit PROVE ReadInv
  OBVIOUS
<1>0. size = 0 /\ offset = 0 /\ buffer = <<>> /\ taken = 0 /\ handed = 0
  BY DEF ReadInit
<1>1. ReaderTypeOK
  <2>1. buffer \in Seq(1 .. size)
    BY <1>0, EmptySeq
  <2>2. thread \in [Threads -> ThreadRec]
    BY <1>0, IdleTyped DEF ReadInit
  <2>3. 0 \in 0 .. 3 * MaxLines /\ 0 \in 0 .. MaxLines
    BY ReaderAssumption
  <2>4. /\ lock \in Readers \cup {None} /\ prefetched = {} /\ batch = {}
        /\ cut = FALSE
    BY DEF ReadInit
  <2>5. thread \in [Threads -> ThreadRec] /\ buffer \in Seq(1 .. size)
    BY <2>1, <2>2
  <2>6. cut \in BOOLEAN
    BY DEF ReadInit
  <2>9. offset <= size /\ offset \in Nat
    BY <1>0
  <2>7. /\ size \in 0 .. 3 * MaxLines /\ taken \in 0 .. MaxLines
        /\ handed \in 0 .. MaxLines
    BY <1>0, <2>3
  <2>8. prefetched \subseteq 1 .. MaxLines /\ batch \subseteq 1 .. MaxLines
    BY <2>4
  <2> QED BY <2>4, <2>5, <2>6, <2>7, <2>8, <2>9 DEF ReaderTypeOK, ThreadRec
<1>2. \A t \in Threads : thread[t] = Idle
  BY DEF ReadInit
<1>3. OwnerInv
  BY <1>2 DEF OwnerInv, Idle
<1>4. Breaks(buffer) = {}
  BY <1>0 DEF Breaks
<1>5. OrderInv
  BY <1>4 DEF OrderInv, ReadInit, Lines
<1>6. \A t \in Threads : ThreadInv(t)
  BY <1>2, ReaderAssumption DEF ThreadInv, Idle, ReadInit, Lines
<1>7. WholeInv
  <2>1. Lines(0) = 0 /\ Bytes(0, 0) = <<>>
    BY DEF Lines, Bytes
  <2> QED BY <2>1, <1>2, ReaderAssumption DEF WholeInv, Waiting, Idle, ReadInit
<1> QED BY <1>1, <1>3, <1>5, <1>6, <1>7 DEF ReadInv

(* Claude Code appends a byte. *)
LEMMA WriteKeeps ==
  ASSUME ReadInv, Write
  PROVE  ReadInv'
<1>0. /\ size' = size + 1 /\ size \in Nat /\ size + 1 <= 3 * MaxLines
      /\ UNCHANGED <<offset, buffer, lock, thread, prefetched,
                     taken, handed, batch, cut>>
  BY ReaderAssumption DEF Write, file, output, ReadInv, ReaderTypeOK
<1>1. ReaderTypeOK'
  <2>1. buffer' \in Seq(1 .. size')
    <3>1. 1 .. size \subseteq 1 .. size' /\ buffer \in Seq(1 .. size)
      BY <1>0 DEF ReadInv, ReaderTypeOK
    <3> QED BY <1>0, <3>1, SeqMonotonic
  <2>2. 0 .. size \subseteq 0 .. size'
    BY <1>0
  <2>3. (~cut => offset <= size)'
    BY <1>0 DEF ReadInv, ReaderTypeOK
  <2> QED BY <1>0, <2>1, <2>2, <2>3, ReaderAssumption
         DEF ReadInv, ReaderTypeOK, ThreadRec
<1>2. OwnerInv'
  BY <1>0 DEF ReadInv, OwnerInv
<1>3. OrderInv'
  <2>1. Lines(size) <= Lines(size') /\ Lines(size) \in Nat /\ Lines(size') \in Nat
    BY <1>0 DEF Lines
  <2> QED BY <1>0, <2>1 DEF ReadInv, OrderInv, ReaderTypeOK
<1>4. \A t \in Threads : ThreadInv(t)'
  BY <1>0 DEF ReadInv, ThreadInv
<1>5. (~cut => WholeInv)'
  BY <1>0 DEF ReadInv, WholeInv, Waiting, ReaderTypeOK
<1> QED BY <1>1, <1>2, <1>3, <1>4, <1>5 DEF ReadInv

(* A read begins: the lock is taken, and a consumer takes what is prefetched. *)
LEMMA CallKeeps ==
  ASSUME ReadInv, NEW r \in Readers, NEW t \in Threads, Call(r, t)
  PROVE  ReadInv'
<1> DEFINE x == [Idle EXCEPT !.pc = "open", !.owner = r,
                             !.pre = IF r = Preflight THEN {} ELSE prefetched]
<1>0. /\ lock = None /\ thread[t].pc = "idle" /\ lock' = r
      /\ thread' = [thread EXCEPT ![t] = x]
      /\ prefetched' = IF r = Preflight THEN prefetched ELSE {}
      /\ UNCHANGED <<size, offset, buffer, taken, handed, batch, cut>>
  BY DEF Call, file, output
<1>1. /\ x.pc = "open" /\ x.owner = r /\ x.lo = 0 /\ x.hi = 0 /\ x.got = {}
      /\ x.pre = IF r = Preflight THEN {} ELSE prefetched
  BY DEF Idle
<1>2. x \in ThreadRec' /\ thread \in [Threads -> ThreadRec]
  <2>1. size \in Nat /\ prefetched \subseteq 1 .. MaxLines
    BY DEF ReadInv, ReaderTypeOK
  <2>2. Idle \in ThreadRec
    BY <2>1, IdleTyped
  <2>3. x \in ThreadRec
    BY <2>1, <2>2 DEF ThreadRec
  <2> QED BY <1>0, <2>3 DEF ThreadRec, ReadInv, ReaderTypeOK
<1> HIDE DEF x
<1>3. /\ thread'[t] = x /\ \A u \in Threads : u # t => thread'[u] = thread[u]
      /\ thread' \in [Threads -> ThreadRec']
  BY <1>0, <1>2, Updated
<1>4. \A u \in Threads : thread[u].owner = None
  BY <1>0, ReaderAssumption DEF ReadInv, OwnerInv
<1>5. r # None
  BY ReaderAssumption DEF Readers
<1>6. ReaderTypeOK'
  <2>1. prefetched' \subseteq 1 .. MaxLines /\ lock' \in Readers \cup {None}
    BY <1>0 DEF ReadInv, ReaderTypeOK
  <2> QED BY <1>0, <1>3, <2>1 DEF ReadInv, ReaderTypeOK, ThreadRec
<1>7. OwnerInv'
  BY <1>0, <1>1, <1>3, <1>4 DEF OwnerInv
<1>8. OrderInv'
  BY <1>0 DEF ReadInv, OrderInv
<1>9. ASSUME NEW u \in Threads PROVE ThreadInv(u)'
  <2>1. CASE u = t
    <3>1. prefetched \subseteq (handed + 1) .. taken
      BY DEF ReadInv, OrderInv
    <3>2. r \in Consumers => prefetched' = {} /\ r # Preflight
      BY <1>0, ReaderAssumption
    <3>3. x.pre \subseteq (handed + 1) .. taken /\ (r = Preflight => x.pre = {})
      BY <1>1, <3>1
    <3>4. x.got \subseteq (Lines(x.lo) + 1) .. Lines(x.hi)
      BY <1>1
    <3> QED BY <1>0, <1>1, <1>3, <2>1, <3>2, <3>3, <3>4 DEF ThreadInv
  <2>2. CASE u # t
    BY <1>0, <1>3, <1>4, <2>2, ReaderAssumption DEF ReadInv, ThreadInv
  <2> QED BY <2>1, <2>2
<1>10. ASSUME ~cut' PROVE WholeInv'
  <2>1. WholeInv
    BY <1>0, <1>10 DEF ReadInv
  <2>2. \A u \in Threads : thread[u].pc = "idle"
    BY <1>4, <2>1 DEF WholeInv
  <2>3. /\ prefetched = (handed + 1) .. taken /\ taken = Lines(offset)
        /\ buffer = Bytes(3 * Lines(offset), offset)
    BY <1>4, <2>1, <2>2, ReaderAssumption
         DEF WholeInv, Waiting
  <2>4. r \in Consumers \/ r = Preflight
    BY DEF Readers
  <2> QED BY <1>0, <1>1, <1>3, <1>4, <2>1, <2>2, <2>3, <2>4, ReaderAssumption
         DEF WholeInv, Waiting
<1> QED BY <1>6, <1>7, <1>8, <1>9, <1>10 DEF ReadInv

(* The thread reads up to the end of the file, or fails, or finds nothing. *)
LEMMA ReadFileKeeps ==
  ASSUME ReadInv, NEW t \in Threads, ReadFile(t)
  PROVE  ReadInv'
<1> DEFINE old == thread[t]
           x == IF size <= offset THEN [old EXCEPT !.pc = "done"]
                ELSE IF MidChar(offset) \/ MidChar(size)
                     THEN [old EXCEPT !.pc = "failed"]
                ELSE [old EXCEPT !.pc = "read", !.lo = offset, !.hi = size]
<1>0. /\ old.pc = "open" /\ thread' = [thread EXCEPT ![t] = x]
      /\ UNCHANGED <<size, offset, buffer, lock, prefetched,
                     taken, handed, batch, cut>>
  BY DEF ReadFile, file, output
<1>1. /\ old \in ThreadRec /\ thread \in [Threads -> ThreadRec]
      /\ size \in Nat /\ offset \in Nat /\ taken \in Nat /\ 3 * taken <= offset
  BY ReaderAssumption DEF ReadInv, ReaderTypeOK, ThreadRec, OrderInv
<1>2. old.lo = 0 /\ old.hi = 0 /\ old.got = {} /\ ThreadInv(t)
  BY <1>0 DEF ReadInv, ThreadInv
<1>3. /\ x \in ThreadRec' /\ x.owner = old.owner /\ x.pre = old.pre /\ x.got = {}
      /\ x.pc \in {"done", "failed", "read"}
      /\ x.pc # "read" => x.lo = 0 /\ x.hi = 0
      /\ x.pc = "read" => x.lo = offset /\ x.hi = size /\ offset < size
  <2>1. size' = size /\ old \in ThreadRec
    BY <1>0, <1>1
  <2>2. old.lo = 0 /\ old.hi = 0 /\ old.got = {}
    BY <1>2
  <2> HIDE DEF old
  <2>3. CASE size <= offset
    BY <2>1, <2>2, <2>3 DEF ThreadRec
  <2>4. CASE ~(size <= offset) /\ (MidChar(offset) \/ MidChar(size))
    BY <2>1, <2>2, <2>4 DEF ThreadRec
  <2>5. CASE ~(size <= offset) /\ ~(MidChar(offset) \/ MidChar(size))
    <3>1. offset \in 0 .. size /\ size \in 0 .. size /\ offset < size
      BY <1>1, <2>5
    <3> QED BY <2>1, <2>2, <2>5, <3>1 DEF ThreadRec
  <2> QED BY <2>3, <2>4, <2>5
<1> HIDE DEF x
<1>4. /\ thread'[t] = x /\ \A u \in Threads : u # t => thread'[u] = thread[u]
      /\ thread' \in [Threads -> ThreadRec']
  BY <1>0, <1>1, <1>3, Updated
<1>6. ReaderTypeOK'
  BY <1>0, <1>4 DEF ReadInv, ReaderTypeOK, ThreadRec
<1>7. OwnerInv'
  BY <1>0, <1>3, <1>4 DEF ReadInv, OwnerInv
<1>8. OrderInv'
  BY <1>0 DEF ReadInv, OrderInv
<1>9. ASSUME NEW u \in Threads PROVE ThreadInv(u)'
  <2>1. CASE u = t
    BY <1>0, <1>1, <1>2, <1>3, <1>4, <2>1 DEF ThreadInv
  <2>2. CASE u # t
    BY <1>0, <1>4, <2>2 DEF ReadInv, ThreadInv
  <2> QED BY <2>1, <2>2
<1>10. ASSUME ~cut' PROVE WholeInv'
  <2>1. WholeInv
    BY <1>0, <1>10 DEF ReadInv
  <2>2. Waiting(t) /\ Waiting(t)'
    BY <1>0, <1>3, <1>4 DEF Waiting
  <2>3. (\A u \in Threads : Waiting(u)') => \A u \in Threads : Waiting(u)
    BY <1>4, <2>2 DEF Waiting
  <2> QED BY <1>0, <1>3, <1>4, <2>1, <2>2, <2>3 DEF WholeInv
<1> QED BY <1>6, <1>7, <1>8, <1>9, <1>10 DEF ReadInv

(* The position moves past what was read. *)
LEMMA AdvanceKeeps ==
  ASSUME ReadInv, NEW t \in Threads, Advance(t)
  PROVE  ReadInv'
<1> DEFINE old == thread[t]
           x == [old EXCEPT !.pc = "split"]
<1>0. /\ old.pc = "read" /\ thread' = [thread EXCEPT ![t] = x]
      /\ offset' = offset + (old.hi - old.lo)
      /\ UNCHANGED <<size, buffer, lock, prefetched, taken, handed, batch, cut>>
  BY DEF Advance, output
<1>1. /\ old \in ThreadRec /\ thread \in [Threads -> ThreadRec]
      /\ size \in Nat /\ offset \in Nat /\ taken \in Nat /\ 3 * taken <= offset
  BY ReaderAssumption DEF ReadInv, ReaderTypeOK, ThreadRec, OrderInv
<1>2. /\ old.lo < old.hi /\ old.lo <= offset /\ old.got = {} /\ ThreadInv(t)
      /\ old.lo \in Nat /\ old.hi \in Nat
  BY <1>0, <1>1 DEF ReadInv, ThreadInv, ThreadRec
<1>3. /\ x \in ThreadRec' /\ x.owner = old.owner /\ x.pre = old.pre /\ x.got = {}
      /\ x.pc = "split" /\ x.lo = old.lo /\ x.hi = old.hi
  BY <1>0, <1>1, <1>2 DEF ThreadRec
<1> HIDE DEF x
<1>4. /\ thread'[t] = x /\ \A u \in Threads : u # t => thread'[u] = thread[u]
      /\ thread' \in [Threads -> ThreadRec']
  BY <1>0, <1>1, <1>3, Updated
<1>5. offset' \in Nat /\ offset < offset' /\ old.hi <= offset'
  BY <1>0, <1>1, <1>2
<1>10. ASSUME ~cut' PROVE WholeInv'
  <2>1. WholeInv
    BY <1>0, <1>10 DEF ReadInv
  <2>2. old.owner # None /\ old.lo = offset /\ offset' = old.hi
    BY <1>0, <1>2, <2>1 DEF WholeInv
  <2>3. \A u \in Threads : u # t =>
           thread[u].pc = "idle" /\ thread[u].owner = None
    BY <2>1, <2>2 DEF ReadInv, OwnerInv, WholeInv
  <2>4. /\ taken = Lines(offset) /\ buffer = Bytes(3 * Lines(offset), offset)
    BY <1>0, <2>1, <2>3 DEF WholeInv, Waiting
  <2>5. offset' <= size
    BY <1>1, <2>2 DEF ThreadRec
  <2>6. ~Waiting(t)'
    BY <1>3, <1>4 DEF Waiting
  <2> QED BY <1>0, <1>3, <1>4, <2>1, <2>2, <2>3, <2>4, <2>5, <2>6 DEF WholeInv
<1>6. ReaderTypeOK'
  <2>1. (~cut => offset <= size)'
    BY <1>10 DEF WholeInv
  <2> QED BY <1>0, <1>4, <1>5, <2>1 DEF ReadInv, ReaderTypeOK, ThreadRec
<1>7. OwnerInv'
  BY <1>0, <1>3, <1>4 DEF ReadInv, OwnerInv
<1>8. OrderInv'
  BY <1>0, <1>1, <1>5 DEF ReadInv, OrderInv
<1>9. ASSUME NEW u \in Threads PROVE ThreadInv(u)'
  <2>1. CASE u = t
    BY <1>0, <1>1, <1>2, <1>3, <1>4, <1>5, <2>1 DEF ThreadInv
  <2>2. CASE u # t
    <3>1. thread[u].lo \in Nat /\ thread[u].hi \in Nat
      BY <1>1 DEF ThreadRec
    <3> QED BY <1>0, <1>1, <1>4, <1>5, <2>2, <3>1 DEF ReadInv, ThreadInv
  <2> QED BY <2>1, <2>2
<1> QED BY <1>6, <1>7, <1>8, <1>9, <1>10 DEF ReadInv

(* What was read is split into records and a rest. *)
LEMMA SplitKeeps ==
  ASSUME ReadInv, NEW t \in Threads, Split(t)
  PROVE  ReadInv'
<1> DEFINE old == thread[t]
           combined == buffer \o Bytes(old.lo, old.hi)
           x == [old EXCEPT !.pc = "done", !.got = Records(combined)]
<1>0. /\ old.pc = "split" /\ thread' = [thread EXCEPT ![t] = x]
      /\ buffer' = Rest(combined)
      /\ UNCHANGED <<size, offset, lock, prefetched, taken, handed, batch, cut>>
  BY DEF Split, output
<1>1. /\ old \in ThreadRec /\ thread \in [Threads -> ThreadRec]
      /\ size \in Nat /\ offset \in Nat /\ taken \in Nat /\ size <= 3 * MaxLines
      /\ MaxLines \in Nat
  BY ReaderAssumption DEF ReadInv, ReaderTypeOK, ThreadRec
<1>2. /\ old.lo < old.hi /\ old.hi <= offset /\ ThreadInv(t)
      /\ old.lo \in Nat /\ old.hi \in Nat /\ old.hi <= size
  BY <1>0, <1>1 DEF ReadInv, ThreadInv, ThreadRec
<1>20. combined \in Seq(1 .. size)
  <2>1. (old.lo + 1) .. old.hi \subseteq 1 .. size
    BY <1>1, <1>2
  <2>2. Bytes(old.lo, old.hi) \in Seq((old.lo + 1) .. old.hi)
    <3>1. old.lo <= old.hi
      BY <1>2
    <3> QED BY <1>2, <3>1, BytesAre
  <2>3. Bytes(old.lo, old.hi) \in Seq(1 .. size)
    BY <2>1, <2>2, SeqMonotonic
  <2>4. buffer \in Seq(1 .. size)
    BY DEF ReadInv, ReaderTypeOK
  <2> QED BY <2>3, <2>4, ConcatProperties
<1>21. Records(combined) \subseteq 1 .. MaxLines
  BY <1>1, <1>20, RecordsTyped
<1>22. Records(combined) \subseteq (Lines(old.lo) + 1) .. Lines(old.hi)
  <2>1. buffer \in Seq(Nat) /\ Breaks(buffer) = {}
    <3>1. 1 .. size \subseteq Nat /\ buffer \in Seq(1 .. size)
      BY DEF ReadInv, ReaderTypeOK
    <3> QED BY <3>1, SeqMonotonic DEF ReadInv, OrderInv
  <2>2. old.lo <= old.hi
    BY <1>2
  <2> QED BY <1>2, <2>1, <2>2, RecordsAreNew
<1>23. Rest(combined) \in Seq(1 .. size) /\ Breaks(Rest(combined)) = {}
  <2>1. 1 .. size \in SUBSET Nat
    OBVIOUS
  <2> QED BY <1>20, <2>1, RestIs
<1> HIDE DEF combined
<1>3. /\ x \in ThreadRec' /\ x.owner = old.owner /\ x.pre = old.pre
      /\ x.got = Records(combined)
      /\ x.pc = "done" /\ x.lo = old.lo /\ x.hi = old.hi
  BY <1>0, <1>1, <1>21 DEF ThreadRec
<1> HIDE DEF x
<1>4. /\ thread'[t] = x /\ \A u \in Threads : u # t => thread'[u] = thread[u]
      /\ thread' \in [Threads -> ThreadRec']
  BY <1>0, <1>1, <1>3, Updated
<1>6. ReaderTypeOK'
  BY <1>0, <1>4, <1>23 DEF ReadInv, ReaderTypeOK, ThreadRec
<1>7. OwnerInv'
  BY <1>0, <1>3, <1>4 DEF ReadInv, OwnerInv
<1>8. OrderInv'
  BY <1>0, <1>23 DEF ReadInv, OrderInv
<1>9. ASSUME NEW u \in Threads PROVE ThreadInv(u)'
  <2>1. CASE u = t
    BY <1>0, <1>2, <1>3, <1>4, <1>22, <2>1 DEF ThreadInv
  <2>2. CASE u # t
    BY <1>0, <1>4, <2>2 DEF ReadInv, ThreadInv
  <2> QED BY <2>1, <2>2
<1>10. ASSUME ~cut' PROVE WholeInv'
  <2>1. WholeInv
    BY <1>0, <1>10 DEF ReadInv
  <2>2. /\ old.owner # None /\ old.hi = offset /\ taken = Lines(old.lo)
        /\ buffer = Bytes(3 * taken, old.lo)
    BY <1>0, <2>1 DEF WholeInv
  <2>3. \A u \in Threads : u # t =>
           thread[u].pc = "idle" /\ thread[u].owner = None
    BY <2>1, <2>2 DEF ReadInv, OwnerInv, WholeInv
  <2>4. 3 * taken \in Nat /\ 3 * taken <= old.lo
    BY <1>2, <2>2 DEF Lines
  <2>5. combined = Bytes(3 * taken, old.hi)
    <3>1. old.lo <= old.hi
      BY <1>2
    <3> QED BY <1>2, <2>2, <2>4, <3>1, BytesJoin DEF combined
  <2>6. /\ Records(combined) = (taken + 1) .. Lines(old.hi)
        /\ Rest(combined) = Bytes(3 * Lines(old.hi), old.hi)
    <3>1. 3 * taken <= old.hi
      BY <1>2, <2>4
    <3> QED BY <1>1, <1>2, <2>5, <3>1, WholeLines
  <2>7. ~Waiting(t)'
    BY <1>2, <1>3, <1>4 DEF Waiting
  <2> QED BY <1>0, <1>3, <1>4, <2>1, <2>2, <2>3, <2>6, <2>7 DEF WholeInv
<1> QED BY <1>6, <1>7, <1>8, <1>9, <1>10 DEF ReadInv

(* The records of a read that ended follow those that were taken before. *)
LEMMA ReturnIs ==
  ASSUME ReadInv, NEW t \in Threads, thread[t].pc = "done", thread[t].owner # None
  PROVE  /\ Position(t) \in taken .. Lines(size) /\ Position(t) <= MaxLines
         /\ 3 * Position(t) <= offset
         /\ thread[t].got \subseteq (taken + 1) .. Position(t)
         /\ ~cut => thread[t].got = (taken + 1) .. Position(t)
         /\ ~cut => Position(t) = Lines(offset)
<1> DEFINE old == thread[t]
           n == Position(t)
<1>1. /\ old \in ThreadRec /\ size \in Nat /\ offset \in Nat /\ taken \in Nat
      /\ size <= 3 * MaxLines /\ MaxLines \in Nat /\ ThreadInv(t)
      /\ taken <= Lines(size) /\ 3 * taken <= offset /\ taken <= MaxLines
  BY ReaderAssumption DEF ReadInv, ReaderTypeOK, ThreadRec, OrderInv
<1>2. /\ old.lo \in Nat /\ old.hi \in Nat /\ old.hi <= size /\ old.lo <= old.hi
      /\ old.hi <= offset
      /\ old.got \subseteq (Lines(old.lo) + 1) .. Lines(old.hi)
  BY <1>1 DEF ThreadInv, ThreadRec
<1>3. ASSUME ~cut PROVE WholeInv
  BY <1>3 DEF ReadInv
<1>4. CASE old.lo < old.hi
  <2>1. n = Lines(old.hi)
    BY <1>4 DEF Position
  <2>2. 3 * taken <= old.lo
    BY <1>1, <1>4 DEF ThreadInv
  <2>3. taken <= Lines(old.lo) /\ Lines(old.lo) \in Nat /\ Lines(old.lo) <= n
    BY <1>1, <1>2, <2>1, <2>2 DEF Lines
  <2>4. n \in Nat /\ 3 * n <= offset /\ n <= MaxLines /\ n <= Lines(size)
    BY <1>1, <1>2, <2>1 DEF Lines
  <2>5. ~cut => old.got = (taken + 1) .. n /\ n = Lines(offset)
    BY <1>3, <1>4, <2>1 DEF WholeInv
  <2>6. Lines(size) \in Nat
    BY <1>1 DEF Lines
  <2>7. old.got \subseteq (taken + 1) .. n
    BY <1>1, <1>2, <2>1, <2>3, <2>4
  <2> QED BY <1>1, <2>3, <2>4, <2>5, <2>6, <2>7
<1>5. CASE ~(old.lo < old.hi)
  <2>1. n = taken
    BY <1>5 DEF Position
  <2>2. old.lo = old.hi
    BY <1>2, <1>5
  <2>3. Lines(old.hi) \in Nat /\ Lines(size) \in Nat
    BY <1>1, <1>2 DEF Lines
  <2>4. old.got = {} /\ (taken + 1) .. taken = {}
    BY <1>1, <1>2, <2>2, <2>3
  <2>5. ASSUME ~cut PROVE taken = Lines(offset)
    <3>1. \A u \in Threads : u # t => thread[u].pc = "idle"
      BY <1>3, <2>5 DEF WholeInv, ReadInv, OwnerInv
    <3> QED BY <1>3, <1>5, <2>5, <3>1 DEF WholeInv, Waiting
  <2> QED BY <1>1, <2>1, <2>3, <2>4, <2>5
<1> QED BY <1>4, <1>5

(* A read ends: its records are handed out, or kept for a consumer. *)
LEMMA ReturnKeeps ==
  ASSUME ReadInv, NEW r \in Readers, NEW t \in Threads, Return(r, t)
  PROVE  ReadInv'
<1> DEFINE old == thread[t]
           n == Position(t)
<1>0. /\ old.owner = r /\ old.pc = "done" /\ lock' = None /\ taken' = n
      /\ thread' = [thread EXCEPT ![t] = Idle]
      /\ r = Preflight => /\ prefetched' = prefetched \cup old.got
                          /\ handed' = handed /\ batch' = batch
      /\ r # Preflight => /\ handed' = n /\ batch' = old.pre \cup old.got
                          /\ prefetched' = prefetched
      /\ UNCHANGED <<size, offset, buffer, cut>>
  BY DEF Return, file
<1>1. /\ old \in ThreadRec /\ thread \in [Threads -> ThreadRec] /\ size \in Nat
      /\ taken \in Nat /\ handed \in Nat /\ handed <= taken /\ ThreadInv(t)
      /\ MaxLines \in Nat
  BY ReaderAssumption DEF ReadInv, ReaderTypeOK, ThreadRec, OrderInv
<1>2. r # None /\ (r # Preflight => r \in Consumers)
  BY ReaderAssumption DEF Readers
<1>3. /\ n \in taken .. Lines(size) /\ n <= MaxLines /\ 3 * n <= offset
      /\ old.got \subseteq (taken + 1) .. n
      /\ ~cut => old.got = (taken + 1) .. n /\ n = Lines(offset)
  BY <1>0, <1>2, ReturnIs
<1> HIDE DEF n
<1>4. Idle \in ThreadRec' /\ Idle \in ThreadRec
  BY <1>0, <1>1, IdleTyped DEF ThreadRec
<1>5. /\ thread'[t] = Idle /\ \A u \in Threads : u # t => thread'[u] = thread[u]
      /\ thread' \in [Threads -> ThreadRec']
  BY <1>0, <1>1, <1>4, Updated
<1>6. \A u \in Threads : u # t => thread[u].owner = None
  BY <1>0, <1>2 DEF ReadInv, OwnerInv
<1>11. Idle.pc = "idle" /\ Idle.owner = None /\ Idle.lo = 0 /\ Idle.hi = 0
       /\ Idle.pre = {} /\ Idle.got = {}
  BY DEF Idle
<1>12. \A u \in Threads : thread'[u].owner = None
  BY <1>5, <1>6, <1>11
<1>13. /\ n \in Nat /\ n \in 0 .. MaxLines /\ taken <= n
       /\ n <= Lines(size) /\ handed <= n
  BY <1>1, <1>3 DEF Lines
<1>14. old.pre \subseteq 1 .. MaxLines /\ old.got \subseteq 1 .. MaxLines
  BY <1>1 DEF ThreadRec
<1>15. r # Preflight => prefetched = {}
  BY <1>0, <1>1, <1>2 DEF ThreadInv
<1>7. ReaderTypeOK'
  <2>1. handed' \in 0 .. MaxLines /\ taken' \in 0 .. MaxLines
    BY <1>0, <1>13 DEF ReadInv, ReaderTypeOK
  <2>2. prefetched' \subseteq 1 .. MaxLines /\ batch' \subseteq 1 .. MaxLines
    BY <1>0, <1>14 DEF ReadInv, ReaderTypeOK
  <2> QED BY <1>0, <1>5, <2>1, <2>2 DEF ReadInv, ReaderTypeOK, ThreadRec
<1>8. OwnerInv'
  BY <1>12 DEF OwnerInv
<1>9. OrderInv'
  <2>1. prefetched \subseteq (handed + 1) .. taken
    BY DEF ReadInv, OrderInv
  <2>2. CASE r = Preflight
    <3>1. prefetched' \subseteq (handed + 1) .. n
      <4>1. (handed + 1) .. taken \subseteq (handed + 1) .. n
        BY <1>1, <1>13
      <4>2. (taken + 1) .. n \subseteq (handed + 1) .. n
        BY <1>1, <1>13
      <4> QED BY <1>0, <1>3, <2>1, <2>2, <4>1, <4>2
    <3> QED BY <1>0, <1>3, <1>13, <2>2, <3>1 DEF ReadInv, OrderInv
  <2>3. CASE r # Preflight
    <3>1. prefetched' = {} /\ handed' = n /\ taken' = n
      BY <1>0, <1>15, <2>3
    <3> QED BY <1>0, <1>3, <1>13, <3>1 DEF ReadInv, OrderInv
  <2> QED BY <2>2, <2>3
<1>16. ASSUME NEW u \in Threads PROVE ThreadInv(u)'
  <2>1. CASE u = t
    BY <1>5, <1>11, <2>1, ReaderAssumption DEF ThreadInv
  <2>2. CASE u # t
    BY <1>0, <1>5, <1>6, <2>2, ReaderAssumption DEF ReadInv, ThreadInv
  <2> QED BY <2>1, <2>2
<1>10. ASSUME ~cut' PROVE WholeInv'
  <2>1. WholeInv /\ ~cut
    BY <1>0, <1>10 DEF ReadInv
  <2>2. \A u \in Threads : u # t => thread[u].pc = "idle"
    BY <1>6, <2>1 DEF WholeInv
  <2>3. \A u \in Threads : thread'[u].pc = "idle"
    BY <1>5, <1>11, <2>2
  <2>4. buffer = Bytes(3 * Lines(offset), offset)
    BY <1>0, <2>1, <2>2 DEF WholeInv
  <2>5. prefetched' = (handed' + 1) .. taken'
    <3>1. CASE r = Preflight
      <4>1. prefetched = (handed + 1) .. taken
        BY <1>0, <1>6, <2>1, <3>1, ReaderAssumption DEF WholeInv
      <4>2. prefetched' = ((handed + 1) .. taken) \cup ((taken + 1) .. n)
        BY <1>0, <1>3, <2>1, <3>1, <4>1
      <4>3. ((handed + 1) .. taken) \cup ((taken + 1) .. n) = (handed + 1) .. n
        BY <1>1, <1>13
      <4> QED BY <1>0, <3>1, <4>2, <4>3
    <3>2. CASE r # Preflight
      <4>1. prefetched' = {} /\ handed' = n /\ taken' = n
        BY <1>0, <1>15, <3>2
      <4>2. (n + 1) .. n = {}
        BY <1>13
      <4> QED BY <4>1, <4>2
    <3> QED BY <3>1, <3>2
  <2>6. taken' = Lines(offset')
    BY <1>0, <1>3, <2>1
  <2> QED BY <1>0, <1>12, <2>1, <2>3, <2>4, <2>5, <2>6, ReaderAssumption
         DEF WholeInv, Waiting
<1> QED BY <1>7, <1>8, <1>9, <1>10, <1>16 DEF ReadInv

(* A read raised; without prefetched records nothing is lost. *)
LEMMA FailKeeps ==
  ASSUME ReadInv, NEW r \in Readers, NEW t \in Threads, Fail(r, t)
  PROVE  ReadInv'
<1> DEFINE old == thread[t]
<1>0. /\ old.owner = r /\ old.pc = "failed" /\ lock' = None
      /\ thread' = [thread EXCEPT ![t] = Idle]
      /\ cut' = (cut \/ old.pre # {})
      /\ UNCHANGED <<size, offset, buffer, prefetched, taken, handed, batch>>
  BY DEF Fail, file, output
<1>1. /\ old \in ThreadRec /\ thread \in [Threads -> ThreadRec] /\ size \in Nat
      /\ taken \in Nat /\ handed \in Nat /\ handed <= taken
  BY DEF ReadInv, ReaderTypeOK, ThreadRec, OrderInv
<1>2. r # None /\ (r # Preflight => r \in Consumers)
  BY ReaderAssumption DEF Readers
<1>4. Idle \in ThreadRec' /\ Idle \in ThreadRec
  BY <1>0, <1>1, IdleTyped DEF ThreadRec
<1>5. /\ thread'[t] = Idle /\ \A u \in Threads : u # t => thread'[u] = thread[u]
      /\ thread' \in [Threads -> ThreadRec']
  BY <1>0, <1>1, <1>4, Updated
<1>6. \A u \in Threads : u # t => thread[u].owner = None
  BY <1>0, <1>2 DEF ReadInv, OwnerInv
<1>11. Idle.pc = "idle" /\ Idle.owner = None /\ Idle.lo = 0 /\ Idle.hi = 0
       /\ Idle.pre = {} /\ Idle.got = {}
  BY DEF Idle
<1>12. \A u \in Threads : thread'[u].owner = None
  BY <1>5, <1>6, <1>11
<1>7. ReaderTypeOK'
  BY <1>0, <1>5 DEF ReadInv, ReaderTypeOK, ThreadRec
<1>8. OwnerInv'
  BY <1>12 DEF OwnerInv
<1>9. OrderInv'
  BY <1>0 DEF ReadInv, OrderInv
<1>16. ASSUME NEW u \in Threads PROVE ThreadInv(u)'
  <2>1. CASE u = t
    BY <1>5, <1>11, <2>1, ReaderAssumption DEF ThreadInv
  <2>2. CASE u # t
    BY <1>0, <1>5, <2>2 DEF ReadInv, ThreadInv
  <2> QED BY <2>1, <2>2
<1>10. ASSUME ~cut' PROVE WholeInv'
  <2>1. WholeInv /\ old.pre = {}
    BY <1>0, <1>10 DEF ReadInv
  <2>2. \A u \in Threads : u # t => thread[u].pc = "idle"
    BY <1>6, <2>1 DEF WholeInv
  <2>3. \A u \in Threads : thread'[u].pc = "idle"
    BY <1>5, <1>11, <2>2
  <2>4. buffer = Bytes(3 * Lines(offset), offset) /\ taken = Lines(offset)
    BY <1>0, <2>1, <2>2 DEF WholeInv, Waiting
  <2>5. prefetched = (handed + 1) .. taken
    <3>1. CASE r = Preflight
      BY <1>0, <1>6, <2>1, <3>1, ReaderAssumption DEF WholeInv
    <3>2. CASE r # Preflight
      BY <1>0, <1>2, <2>1, <3>2 DEF WholeInv, ReadInv, ThreadInv
    <3> QED BY <3>1, <3>2
  <2> QED BY <1>0, <1>12, <2>1, <2>3, <2>4, <2>5, ReaderAssumption
         DEF WholeInv, Waiting
<1> QED BY <1>7, <1>8, <1>9, <1>10, <1>16 DEF ReadInv

(* A consumer is cancelled and leaves its thread behind. *)
LEMMA CancelKeeps ==
  ASSUME ReadInv, NEW r \in Readers, NEW t \in Threads, Cancel(r, t)
  PROVE  ReadInv'
<1> DEFINE old == thread[t]
           x == [old EXCEPT !.owner = None]
<1>0. /\ old.owner = r /\ lock' = None /\ cut' = TRUE
      /\ thread' = [thread EXCEPT ![t] = x]
      /\ UNCHANGED <<size, offset, buffer, prefetched, taken, handed, batch>>
  BY DEF Cancel, file, output
<1>1. /\ old \in ThreadRec /\ thread \in [Threads -> ThreadRec] /\ ThreadInv(t)
  BY DEF ReadInv, ReaderTypeOK, ThreadRec
<1>2. r # None
  BY ReaderAssumption DEF Readers
<1>3. /\ x \in ThreadRec' /\ x.owner = None /\ x.pc = old.pc /\ x.pre = old.pre
      /\ x.got = old.got /\ x.lo = old.lo /\ x.hi = old.hi
  BY <1>0, <1>1 DEF ThreadRec
<1> HIDE DEF x
<1>5. /\ thread'[t] = x /\ \A u \in Threads : u # t => thread'[u] = thread[u]
      /\ thread' \in [Threads -> ThreadRec']
  BY <1>0, <1>1, <1>3, Updated
<1>6. \A u \in Threads : thread'[u].owner = None
  BY <1>0, <1>2, <1>3, <1>5 DEF ReadInv, OwnerInv
<1>7. ReaderTypeOK'
  BY <1>0, <1>5 DEF ReadInv, ReaderTypeOK, ThreadRec
<1>8. OwnerInv'
  BY <1>6 DEF OwnerInv
<1>9. OrderInv'
  BY <1>0 DEF ReadInv, OrderInv
<1>10. ASSUME NEW u \in Threads PROVE ThreadInv(u)'
  <2>1. CASE u = t
    BY <1>0, <1>1, <1>3, <1>5, <2>1, ReaderAssumption DEF ThreadInv
  <2>2. CASE u # t
    BY <1>0, <1>5, <2>2 DEF ReadInv, ThreadInv
  <2> QED BY <2>1, <2>2
<1> QED BY <1>0, <1>7, <1>8, <1>9, <1>10 DEF ReadInv

(* A thread that was left behind finishes, which takes a cut. *)
LEMMA VanishKeeps ==
  ASSUME ReadInv, NEW t \in Threads, Vanish(t)
  PROVE  ReadInv'
<1> DEFINE old == thread[t]
<1>0. /\ old.owner = None /\ old.pc \in {"done", "failed"}
      /\ thread' = [thread EXCEPT ![t] = Idle]
      /\ UNCHANGED <<size, offset, buffer, lock, prefetched,
                     taken, handed, batch, cut>>
  BY DEF Vanish, file, output
<1>1. /\ thread \in [Threads -> ThreadRec] /\ size \in Nat
  BY DEF ReadInv, ReaderTypeOK, ThreadRec
<1>4. Idle \in ThreadRec' /\ Idle \in ThreadRec
  BY <1>0, <1>1, IdleTyped DEF ThreadRec
<1>5. /\ thread'[t] = Idle /\ \A u \in Threads : u # t => thread'[u] = thread[u]
      /\ thread' \in [Threads -> ThreadRec']
  BY <1>0, <1>1, <1>4, Updated
<1>11. Idle.pc = "idle" /\ Idle.owner = None /\ Idle.lo = 0 /\ Idle.hi = 0
       /\ Idle.pre = {} /\ Idle.got = {}
  BY DEF Idle
<1>7. ReaderTypeOK'
  BY <1>0, <1>5 DEF ReadInv, ReaderTypeOK, ThreadRec
<1>8. OwnerInv'
  BY <1>0, <1>5, <1>11 DEF ReadInv, OwnerInv
<1>9. OrderInv'
  BY <1>0 DEF ReadInv, OrderInv
<1>10. ASSUME NEW u \in Threads PROVE ThreadInv(u)'
  <2>1. CASE u = t
    BY <1>5, <1>11, <2>1, ReaderAssumption DEF ThreadInv
  <2>2. CASE u # t
    BY <1>0, <1>5, <2>2 DEF ReadInv, ThreadInv
  <2> QED BY <2>1, <2>2
<1>12. cut
  BY <1>0 DEF ReadInv, WholeInv
<1> QED BY <1>0, <1>7, <1>8, <1>9, <1>10, <1>12 DEF ReadInv
--------------------------------------------------------------------------------
(* Every step of the reader keeps ReadInv. *)
LEMMA StepHolds == ReadInv /\ [ReadNext]_readVars => ReadInv'
<1> SUFFICES ASSUME ReadInv, [ReadNext]_readVars PROVE ReadInv'
  OBVIOUS
<1>1. CASE Write
  BY <1>1, WriteKeeps
<1>2. ASSUME NEW r \in Readers, NEW t \in Threads, Call(r, t) \/ Cancel(r, t)
      PROVE  ReadInv'
  BY <1>2, CallKeeps, CancelKeeps
<1>3. ASSUME NEW t \in Threads, Run(t) PROVE ReadInv'
  BY <1>3, ReadFileKeeps, AdvanceKeeps, SplitKeeps, VanishKeeps DEF Run
<1>4. ASSUME NEW r \in Readers, Resume(r) PROVE ReadInv'
  BY <1>4, ReturnKeeps, FailKeeps DEF Resume
<1>5. CASE UNCHANGED readVars
  <2>1. UNCHANGED <<size, offset, buffer, lock, thread, prefetched,
                     taken, handed, batch, cut>>
    BY <1>5 DEF readVars, file, output
  <2> QED BY <2>1 DEF ReadInv, ReaderTypeOK, ThreadRec, OwnerInv, OrderInv,
                      ThreadInv, WholeInv, Waiting
<1> QED BY <1>1, <1>2, <1>3, <1>4, <1>5 DEF ReadNext

(* ReadInv holds of every reachable state. *)
THEOREM ReaderInvariant == ReadSpec => []ReadInv
  BY InitHolds, StepHolds, PTL DEF ReadSpec

(* The state keeps its types, and the position in the file stays inside it as
   long as no two reads overlap. *)
THEOREM ReaderTypesHold == ReadSpec => []ReaderTypeOK
<1>1. ReadInv => ReaderTypeOK
  BY DEF ReadInv
<1> QED BY <1>1, ReaderInvariant, PTL

(* The initial state of the reader is one of the feed. *)
LEMMA FeedInit == ReadInit => Feed!Init
  BY DEF ReadInit, Feed!Init, Lines

(* A step of the reader is one step of the feed, or none. *)
LEMMA FeedStep == ReadInv /\ [ReadNext]_readVars => [Feed!Next]_Feed!vars
<1> SUFFICES ASSUME ReadInv, [ReadNext]_readVars PROVE [Feed!Next]_Feed!vars
  OBVIOUS
<1> USE DEF Feed!vars
<1>1. CASE Write
  <2>1. size' = size + 1 /\ size \in Nat /\ UNCHANGED <<handed, batch, cut>>
    BY <1>1 DEF Write, output, ReadInv, ReaderTypeOK
  <2>2. Lines(size') \in {Lines(size), Lines(size) + 1}
    BY <2>1 DEF Lines
  <2> QED BY <2>1, <2>2 DEF Feed!Next, Feed!Complete
<1>2. ASSUME NEW r \in Readers, NEW t \in Threads, Call(r, t)
      PROVE  UNCHANGED Feed!vars
  BY <1>2 DEF Call, output
<1>3. ASSUME NEW r \in Readers, NEW t \in Threads, Cancel(r, t)
      PROVE  Feed!Next
  <2>1. cut' = TRUE /\ UNCHANGED <<size, handed, batch>>
    BY <1>3 DEF Cancel, output
  <2> QED BY <2>1 DEF Feed!Next, Feed!Cut
<1>4. ASSUME NEW t \in Threads, Run(t) PROVE UNCHANGED Feed!vars
  BY <1>4 DEF Run, ReadFile, Advance, Split, Vanish, output
<1>5. ASSUME NEW r \in Readers, NEW t \in Threads, Fail(r, t)
      PROVE  [Feed!Next]_Feed!vars
  <2>1. cut' = (cut \/ thread[t].pre # {}) /\ UNCHANGED <<size, handed, batch>>
    BY <1>5 DEF Fail, output
  <2>2. cut \in BOOLEAN
    BY DEF ReadInv, ReaderTypeOK
  <2>3. cut' = TRUE \/ cut' = cut
    BY <2>1, <2>2
  <2> QED BY <2>1, <2>3 DEF Feed!Next, Feed!Cut
<1>6. ASSUME NEW r \in Readers, NEW t \in Threads, Return(r, t)
      PROVE  [Feed!Next]_Feed!vars
  <2>1. CASE r = Preflight
    BY <1>6, <2>1 DEF Return
  <2>2. CASE r # Preflight
    <3> DEFINE n == Position(t)
    <3>1. /\ thread[t].owner = r /\ thread[t].pc = "done"
          /\ handed' = n /\ batch' = thread[t].pre \cup thread[t].got
          /\ UNCHANGED <<size, cut>>
      BY <1>6, <2>2 DEF Return
    <3>2. r \in Consumers /\ r # None
      BY <2>2, ReaderAssumption DEF Readers
    <3>3. /\ n \in taken .. Lines(size)
          /\ thread[t].got \subseteq (taken + 1) .. n
          /\ ~cut => thread[t].got = (taken + 1) .. n
      BY <3>1, <3>2, ReturnIs
    <3>4. /\ thread[t].pre \subseteq (handed + 1) .. taken
          /\ ~cut => thread[t].pre = (handed + 1) .. taken
      BY <3>1, <3>2 DEF ReadInv, ThreadInv, WholeInv
    <3>5. handed \in Nat /\ taken \in Nat /\ handed <= taken /\ size \in Nat
      BY DEF ReadInv, ReaderTypeOK, OrderInv
    <3> HIDE DEF n
    <3>6. /\ n \in Nat /\ Lines(size) \in Nat /\ taken <= n
          /\ n \in handed .. Lines(size)
      BY <3>3, <3>5 DEF Lines
    <3>7. batch' \subseteq (handed + 1) .. n
      BY <3>1, <3>3, <3>4, <3>5, <3>6
    <3>8. ((handed + 1) .. taken) \cup ((taken + 1) .. n) = (handed + 1) .. n
      BY <3>5, <3>6
    <3>9. ~cut => batch' = (handed + 1) .. n
      BY <3>1, <3>3, <3>4, <3>8
    <3> QED BY <3>1, <3>6, <3>7, <3>9 DEF Feed!Next, Feed!HandOut
  <2> QED BY <2>1, <2>2
<1>7. CASE UNCHANGED readVars
  BY <1>7 DEF readVars, output
<1> QED BY <1>1, <1>2, <1>3, <1>4, <1>5, <1>6, <1>7 DEF ReadNext, Resume

(* Consumers get the records in the order of the file and each of them once, and
   all of them unless a read was cut, wherever the end of the file lies when it
   is read (read_new_messages and _read_with_prefetch_locked). *)
THEOREM ReaderFeedsInOrder == ReadSpec => FeedsInOrder
<1>1. ReadInit => Feed!Init
  BY FeedInit
<1>2. ReadInv /\ [ReadNext]_readVars => [Feed!Next]_Feed!vars
  BY FeedStep
<1> QED BY <1>1, <1>2, ReaderInvariant, PTL DEF ReadSpec, FeedsInOrder, Feed!Spec
================================================================================
