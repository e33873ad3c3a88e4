-------------------------- MODULE SliceMem_proofs --------------------------
(***************************************************************************)
(* Theorems about SliceMem, for any clients, arrays, requests and sizes:   *)
(* IInv is inductive; the results of Seal and Open are those of their      *)
(* arguments and stay what they are, and nothing is written outside the    *)
(* footprint of a call.                                                    *)
(***************************************************************************)
EXTENDS SliceMem, TLAPS

-----------------------------------------------------------------------------
(* Sequences. *)

\* A sequence is the function of its elements.
LEMMA SeqIsFunction ==
  ASSUME NEW s, IsSeq(s)
  PROVE  Len(s) \in Nat /\ DOMAIN s = 1..Len(s) /\ s = [i \in 1..Len(s) |-> s[i]]
BY DEF IsSeq

\* Only the empty sequence has no elements.
LEMMA EmptyLen ==
  ASSUME NEW s, IsSeq(s)
  PROVE  s = <<>> <=> Len(s) = 0
<1>1. s \in Seq(Range(s))
  BY DEF IsSeq
<1> QED BY <1>1

\* A function on 1..n is a sequence.
LEMMA FunctionIsSeq ==
  ASSUME NEW n \in Nat, NEW s, s = [i \in 1..n |-> s[i]]
  PROVE  IsSeq(s) /\ Len(s) = n
<1>1. DOMAIN s = 1..n
  OBVIOUS
<1>2. \A i \in 1..n : s[i] \in Range(s)
  BY <1>1 DEF Range
<1>3. s \in [1..n -> Range(s)]
  BY <1>2
<1>4. s \in Seq(Range(s))
  BY <1>3
<1> QED BY <1>1, <1>4 DEF IsSeq

\* A sequence of elements of any set is a sequence of its own elements.
LEMMA TypedIsSeq ==
  ASSUME NEW S, NEW s \in Seq(S)
  PROVE  IsSeq(s)
<1>1. Len(s) \in Nat /\ s \in [1..Len(s) -> S]
  OBVIOUS
<1>2. s = [i \in 1..Len(s) |-> s[i]]
  BY <1>1
<1> QED BY <1>1, <1>2, FunctionIsSeq

\* Sequences of one length with the same elements are the same.
LEMMA SameSeq ==
  ASSUME NEW s, IsSeq(s), NEW t, IsSeq(t), Len(s) = Len(t), \A i \in 1..Len(s) : s[i] = t[i]
  PROVE  s = t
<1>1. s = [i \in 1..Len(s) |-> s[i]] /\ t = [i \in 1..Len(t) |-> t[i]]
  BY SeqIsFunction
<1> QED BY <1>1

\* t is s with x at its end.
Longer(t, s, x) ==
  IsSeq(t) /\ Len(t) = Len(s) + 1 /\ t[Len(s) + 1] = x /\ \A i \in 1..Len(s) : t[i] = s[i]

\* Append puts its element behind the others.
LEMMA AppendFacts ==
  ASSUME NEW s, IsSeq(s), NEW x, NEW t, t = Append(s, x)
  PROVE  Longer(t, s, x)
<1> DEFINE S == Range(s) \union {x}
<1>1. Len(s) \in Nat /\ s \in Seq(S)
  <2>1. Len(s) \in Nat /\ DOMAIN s = 1..Len(s) /\ s = [i \in 1..Len(s) |-> s[i]]
    BY SeqIsFunction
  <2>2. s \in [1..Len(s) -> S]
    BY <2>1 DEF Range
  <2> QED BY <2>1, <2>2
<1>2. t \in Seq(S) /\ Len(t) = Len(s) + 1
  BY <1>1
<1>3. IsSeq(t)
  BY <1>2, TypedIsSeq
<1>4. (\A i \in 1..Len(s) : t[i] = s[i]) /\ t[Len(s) + 1] = x
  BY <1>1
<1> QED BY <1>2, <1>3, <1>4 DEF Longer

\* u is s followed by t.
Joined(u, s, t) ==
  /\ IsSeq(u) /\ Len(u) = Len(s) + Len(t)
  /\ \A i \in 1..Len(s) : u[i] = s[i]
  /\ \A i \in 1..Len(t) : u[Len(s) + i] = t[i]

\* \o puts one sequence behind the other.
LEMMA ConcatFacts ==
  ASSUME NEW s, IsSeq(s), NEW t, IsSeq(t), NEW u, u = s \o t
  PROVE  Joined(u, s, t)
<1> DEFINE S == Range(s) \union Range(t)
<1>1. Len(s) \in Nat /\ s \in Seq(S) /\ Len(t) \in Nat /\ t \in Seq(S)
  <2>1. Len(s) \in Nat /\ s \in Seq(Range(s)) /\ Len(t) \in Nat /\ t \in Seq(Range(t))
    BY DEF IsSeq
  <2> QED BY <2>1
<1>2. u \in Seq(S) /\ Len(u) = Len(s) + Len(t)
  BY <1>1
<1>3. \A i \in 1..(Len(s) + Len(t)) : u[i] = IF i <= Len(s) THEN s[i] ELSE t[i - Len(s)]
  BY <1>1
<1>5. IsSeq(u) /\ Len(u) = Len(s) + Len(t)
  BY <1>2, TypedIsSeq
<1>6. \A i \in 1..Len(s) : u[i] = s[i]
  BY <1>1, <1>3
<1>7. \A i \in 1..Len(t) : u[Len(s) + i] = t[i]
  <2> SUFFICES ASSUME NEW i \in 1..Len(t) PROVE u[Len(s) + i] = t[i]
    OBVIOUS
  <2>1. /\ Len(s) + i \in 1..(Len(s) + Len(t)) /\ ~(Len(s) + i <= Len(s))
        /\ (Len(s) + i) - Len(s) = i
    BY <1>1
  <2> QED BY <1>3, <2>1
<1> QED BY <1>5, <1>6, <1>7 DEF Joined

\* t is s from its element k on.
Rest(t, s, k) ==
  IsSeq(t) /\ Len(t) = Len(s) + 1 - k /\ \A i \in 1..Len(t) : t[i] = s[k + i - 1]

\* The first element and the rest.
LEMMA TailFacts ==
  ASSUME NEW s, IsSeq(s), s # <<>>, NEW t, t = Tail(s)
  PROVE  Len(s) >= 1 /\ Head(s) = s[1] /\ Rest(t, s, 2)
<1>1. s \in Seq(Range(s))
  BY DEF IsSeq
<1> DEFINE S == Range(s)
<1> HIDE DEF S
<1>2. s \in Seq(S)
  BY <1>1 DEF S
<1>3. Len(s) >= 1 /\ Head(s) = s[1]
  BY <1>2
<1>4. t \in Seq(S) /\ Len(t) = Len(s) - 1
  BY <1>2
<1>5. IsSeq(t)
  BY <1>4, TypedIsSeq
<1>6. \A i \in 1..Len(t) : t[i] = s[i + 1]
  BY <1>2
<1>7. Len(s) \in Nat /\ Len(s) - 1 = Len(s) + 1 - 2
  BY <1>2
<1>8. \A i \in 1..Len(t) : i + 1 = 2 + i - 1
  BY <1>4, <1>7
<1> QED BY <1>3, <1>4, <1>5, <1>6, <1>7, <1>8 DEF Rest

\* A subsequence that goes on to the end.
LEMMA SubSeqFacts ==
  ASSUME NEW s, IsSeq(s), NEW k \in 1..(Len(s) + 1), NEW t, t = SubSeq(s, k, Len(s))
  PROVE  Rest(t, s, k)
<1> DEFINE S == Range(s)
<1> HIDE DEF S
<1>1. s \in Seq(S)
  BY DEF IsSeq, S
<1>2. t \in Seq(S)
  BY <1>1
<1>3. Len(t) = Len(s) + 1 - k
  BY <1>1
<1>4. IsSeq(t)
  BY <1>2, TypedIsSeq
<1>5. \A i \in 1..Len(t) : t[i] = s[k + i - 1]
  BY <1>1, <1>3
<1> QED BY <1>3, <1>4, <1>5 DEF Rest

\* Replacing an element.
Replaced(t, s, n, x) ==
  IsSeq(t) /\ Len(t) = Len(s) /\ t[n] = x /\ \A i \in 1..Len(s) : i # n => t[i] = s[i]

\* A sequence with one element replaced.
LEMMA ExceptFacts ==
  ASSUME NEW s, IsSeq(s), NEW n \in 1..Len(s), NEW x, NEW t, t = [s EXCEPT ![n] = x]
  PROVE  Replaced(t, s, n, x)
<1>1. Len(s) \in Nat /\ DOMAIN s = 1..Len(s)
  BY SeqIsFunction
<1>2. t = [i \in 1..Len(s) |-> t[i]]
  BY <1>1
<1>3. t[n] = x /\ \A i \in 1..Len(s) : i # n => t[i] = s[i]
  BY <1>1
<1>4. IsSeq(t) /\ Len(t) = Len(s)
  BY <1>1, <1>2, FunctionIsSeq
<1> QED BY <1>3, <1>4 DEF Replaced

-----------------------------------------------------------------------------
(* Slices. *)

\* Arrays as they are in mem, and what may happen to them: more of them, and
\* other cells in them.
Memory(m) == IsSeq(m) /\ \A a \in DOMAIN m : IsSeq(m[a])
Grows(m, n) ==
  /\ Memory(m) /\ Memory(n)
  /\ \A a \in DOMAIN m : a \in DOMAIN n /\ Len(n[a]) = Len(m[a])

\* The content of a slice, cell by cell.
LEMMA ContentFacts ==
  ASSUME NEW m, NEW s, s.len \in Nat
  PROVE  /\ IsSeq(Content(m, s)) /\ Len(Content(m, s)) = s.len
         /\ \A i \in 1..s.len : Content(m, s)[i] = m[s.arr][s.off + i]
<1> DEFINE t == Content(m, s)
<1>1. t = [i \in 1..s.len |-> t[i]] /\ \A i \in 1..s.len : t[i] = m[s.arr][s.off + i]
  BY DEF Content
<1> HIDE DEF t
<1>2. IsSeq(t) /\ Len(t) = s.len
  BY <1>1, FunctionIsSeq
<1> QED BY <1>1, <1>2 DEF t

\* Cells that are the same make the same content.
LEMMA SameContent ==
  ASSUME NEW m, NEW n, NEW s, NEW t, s.len = t.len,
         \A i \in 1..s.len : n[t.arr][t.off + i] = m[s.arr][s.off + i]
  PROVE  Content(n, t) = Content(m, s)
BY DEF Content

\* Slices of slices.
LEMMA SliceFields ==
  ASSUME NEW s \in Slice, NEW k \in 0..s.len
  PROVE  /\ Upto(s, k) \in Slice /\ Upto(s, k).arr = s.arr /\ Upto(s, k).off = s.off
         /\ Upto(s, k).len = k /\ Upto(s, k).cap = s.cap
         /\ From(s, k).arr = s.arr /\ From(s, k).off = s.off + k
         /\ From(s, k).len = s.len - k /\ From(s, k).cap = s.cap - k
         /\ s.arr \in Nat \ {0} /\ s.off \in Nat /\ s.len \in Nat /\ s.cap \in Nat
BY DEF Slice, Upto, From

\* s[:k], which may be longer than s.
LEMMA UptoFields ==
  ASSUME NEW s \in Slice, NEW k \in Nat
  PROVE  /\ Upto(s, k) \in Slice /\ Upto(s, k).arr = s.arr /\ Upto(s, k).off = s.off
         /\ Upto(s, k).len = k /\ Upto(s, k).cap = s.cap
BY DEF Slice, Upto

\* Slices of a slice of an array are slices of that array.
LEMMA SlicesWithin ==
  ASSUME NEW m, NEW s, Within(m, s)
  PROVE  /\ \A k \in 0..s.cap : Within(m, Upto(s, k))
         /\ \A k \in 0..s.len : Within(m, From(s, k))
<1>1. s \in Slice /\ s.arr \in Nat /\ s.off \in Nat /\ s.len \in Nat /\ s.cap \in Nat /\ s.len <= s.cap
  BY DEF Within, Slice
<1>2. ASSUME NEW k \in 0..s.cap PROVE Within(m, Upto(s, k))
  <2>1. k \in Nat /\ k <= s.cap
    BY <1>1
  <2>2. /\ Upto(s, k) \in Slice /\ Upto(s, k).arr = s.arr /\ Upto(s, k).off = s.off
        /\ Upto(s, k).len = k /\ Upto(s, k).cap = s.cap
    BY <1>1, <2>1, UptoFields
  <2> QED BY <1>1, <2>1, <2>2 DEF Within
<1>3. ASSUME NEW k \in 0..s.len PROVE Within(m, From(s, k))
  <2>1. k \in Nat /\ k <= s.len
    BY <1>1
  <2>2. /\ From(s, k).arr = s.arr /\ From(s, k).off = s.off + k
        /\ From(s, k).len = s.len - k /\ From(s, k).cap = s.cap - k
    BY <1>1, SliceFields
  <2>3. s.off + k \in Nat /\ s.len - k \in Nat /\ s.cap - k \in Nat
    BY <1>1, <2>1
  <2>4. From(s, k) \in Slice
    BY <1>1, <2>3 DEF Slice, From
  <2> QED BY <1>1, <2>1, <2>2, <2>4 DEF Within
<1> QED BY <1>2, <1>3

\* A slice of an array stays one as memory grows.
LEMMA WithinGrows ==
  ASSUME NEW m, NEW n, Grows(m, n), NEW s, Within(m, s)
  PROVE  Within(n, s)
BY DEF Grows, Within

\* The window of a slice is a stretch of its array.
LEMMA InWindow ==
  ASSUME NEW s, NEW a, NEW j, s.off \in Nat, s.len \in Nat, j \in Nat
  PROVE  <<a, j>> \in Window(s) <=> a = s.arr /\ s.off < j /\ j <= s.off + s.len
<1>1. ASSUME a = s.arr, s.off < j, j <= s.off + s.len PROVE <<a, j>> \in Window(s)
  <2>1. j - s.off \in 1..s.len /\ j = s.off + (j - s.off)
    BY <1>1
  <2> QED BY <1>1, <2>1 DEF Window
<1>2. ASSUME <<a, j>> \in Window(s) PROVE a = s.arr /\ s.off < j /\ j <= s.off + s.len
  BY <1>2 DEF Window
<1> QED BY <1>1, <1>2

\* copy changes cells of its slice only, and puts the data there.
LEMMA StoredFacts ==
  ASSUME NEW m, Memory(m), NEW s, Within(m, s), NEW data, IsSeq(data), Len(data) <= s.len,
         NEW n, n = Stored(m, s, data)
  PROVE  /\ Grows(m, n) /\ Len(n) = Len(m)
         /\ \A a \in DOMAIN m : \A j \in 1..Len(m[a]) : n[a][j] # m[a][j] => <<a, j>> \in Window(s)
         /\ \A i \in 1..Len(data) : n[s.arr][s.off + i] = data[i]
         /\ \A a \in DOMAIN m : a # s.arr => n[a] = m[a]
<1> DEFINE old == m[s.arr]
           new == [j \in DOMAIN old |->
                     IF j - s.off \in (1..s.len) \intersect DOMAIN data THEN data[j - s.off] ELSE old[j]]
<1>1. /\ s.arr \in 1..Len(m) /\ s.off \in Nat /\ s.len \in Nat /\ s.cap \in Nat /\ Len(m) \in Nat
      /\ s.len <= s.cap /\ s.off + s.cap <= Len(old) /\ DOMAIN m = 1..Len(m)
  BY SeqIsFunction DEF Memory, Within, Slice
<1>2. Len(old) \in Nat /\ DOMAIN old = 1..Len(old) /\ Len(data) \in Nat /\ DOMAIN data = 1..Len(data)
  BY <1>1, SeqIsFunction DEF Memory
<1>3. n = [m EXCEPT ![s.arr] = new]
  BY DEF Stored
<1>4. IsSeq(new) /\ Len(new) = Len(old)
  <2>1. new = [j \in 1..Len(old) |-> new[j]]
    BY <1>2
  <2> HIDE DEF new, old
  <2> QED BY <1>2, <2>1, FunctionIsSeq
<1>5. /\ \A j \in 1..Len(old) : new[j] # old[j] => s.off < j /\ j <= s.off + s.len
      /\ \A i \in 1..Len(data) : new[s.off + i] = data[i]
  <2>1. ASSUME NEW j \in 1..Len(old), new[j] # old[j] PROVE s.off < j /\ j <= s.off + s.len
    <3>1. j - s.off \in 1..s.len
      BY <1>2, <2>1
    <3> QED BY <1>1, <1>2, <3>1
  <2>2. ASSUME NEW i \in 1..Len(data) PROVE new[s.off + i] = data[i]
    <3>1. s.off + i \in DOMAIN old /\ (s.off + i) - s.off = i /\ i \in (1..s.len) \intersect DOMAIN data
      BY SMTT(20), <1>1, <1>2
    <3> QED BY <3>1
  <2> QED BY <2>1, <2>2
<1> HIDE DEF new
<1>7. IsSeq(n) /\ Len(n) = Len(m) /\ n[s.arr] = new /\ \A a \in DOMAIN m : a # s.arr => n[a] = m[a]
  <2>1. IsSeq(m)
    BY DEF Memory
  <2>2. /\ IsSeq(n) /\ Len(n) = Len(m) /\ n[s.arr] = new
        /\ \A a \in 1..Len(m) : a # s.arr => n[a] = m[a]
    <3>1. Replaced(n, m, s.arr, new)
      BY <1>1, <1>3, <2>1, ExceptFacts
    <3> QED BY <3>1 DEF Replaced
  <2> QED BY <1>1, <2>2
<1>8. DOMAIN n = DOMAIN m
  BY <1>3
<1>9. Grows(m, n)
  BY <1>1, <1>4, <1>7, <1>8 DEF Grows, Memory
<1>10. ASSUME NEW a \in DOMAIN m, NEW j \in 1..Len(m[a]), n[a][j] # m[a][j] PROVE <<a, j>> \in Window(s)
  <2>1. a = s.arr
    BY <1>7, <1>10
  <2>2. j \in Nat /\ s.off < j /\ j <= s.off + s.len
    BY <1>2, <1>5, <1>7, <1>10, <2>1
  <2> QED BY <1>1, <2>1, <2>2, InWindow
<1> QED BY <1>5, <1>7, <1>9, <1>10

\* extendSlice leaves what there is alone, and keeps what is in dst.
LEMMA ExtendFacts ==
  ASSUME NEW m, Memory(m), NEW dst, Within(m, dst), NEW k \in Nat, NEW e, e = extendSlice(m, dst, k)
  PROVE  /\ Grows(m, e.mem) /\ \A a \in DOMAIN m : e.mem[a] = m[a]
         /\ Within(e.mem, e.ret) /\ e.ret.len = dst.len + k
         /\ Content(e.mem, Upto(e.ret, dst.len)) = Content(m, dst)
         /\ Fits(dst, k) => e.mem = m /\ e.ret = Upto(dst, dst.len + k)
         /\ ~Fits(dst, k) => /\ Len(e.mem) = Len(m) + 1 /\ e.ret.arr = Len(m) + 1
                             /\ e.ret.off = 0 /\ e.ret.cap = e.ret.len
<1>1. /\ dst \in Slice /\ dst.arr \in DOMAIN m /\ dst.off \in Nat /\ dst.len \in Nat /\ dst.cap \in Nat
      /\ dst.len <= dst.cap /\ DOMAIN m = 1..Len(m) /\ Len(m) \in Nat /\ IsSeq(m)
  BY SeqIsFunction DEF Memory, Within, Slice
<1>2. CASE Fits(dst, k)
  <2>1. e.mem = m /\ e.ret = Upto(dst, dst.len + k)
    BY <1>2 DEF extendSlice
  <2>2. Grows(m, m)
    BY DEF Grows
  <2>3. dst.len + k \in 0..dst.cap
    BY <1>1, <1>2 DEF Fits
  <2>4. Within(m, Upto(dst, dst.len + k))
    BY <2>3, SlicesWithin
  <2>5. Upto(Upto(dst, dst.len + k), dst.len) = dst
    BY <1>1 DEF Upto, Slice
  <2>6. Upto(dst, dst.len + k).len = dst.len + k
    BY <1>1 DEF Slice, Upto
  <2> QED BY <1>2, <2>1, <2>2, <2>4, <2>5, <2>6
<1>3. CASE ~Fits(dst, k)
  <2> DEFINE zeros == [i \in 1..k |-> Zero]
             new == Content(m, dst) \o zeros
             ret == [arr |-> Len(m) + 1, off |-> 0, len |-> dst.len + k, cap |-> dst.len + k]
  <2>1. e.mem = Append(m, new) /\ e.ret = ret
    BY <1>3 DEF extendSlice
  <2>2. IsSeq(zeros) /\ Len(zeros) = k
    <3>1. zeros = [i \in 1..k |-> zeros[i]]
      OBVIOUS
    <3> HIDE DEF zeros
    <3> QED BY <3>1, FunctionIsSeq
  <2>3. /\ IsSeq(Content(m, dst)) /\ Len(Content(m, dst)) = dst.len
        /\ \A i \in 1..dst.len : Content(m, dst)[i] = m[dst.arr][dst.off + i]
    BY <1>1, ContentFacts
  <2> HIDE DEF zeros
  <2>4. IsSeq(new) /\ Len(new) = dst.len + k /\ \A i \in 1..dst.len : new[i] = Content(m, dst)[i]
    <3> DEFINE old == Content(m, dst)
    <3>1. new = old \o zeros
      OBVIOUS
    <3> HIDE DEF old, new
    <3>2. IsSeq(old) /\ Len(old) = dst.len
      BY <2>3 DEF old
    <3>3. Joined(new, old, zeros)
      BY <2>2, <3>1, <3>2, ConcatFacts
    <3> QED BY <2>2, <3>2, <3>3 DEF Joined, old
  <2> HIDE DEF new
  <2>5. /\ IsSeq(e.mem) /\ Len(e.mem) = Len(m) + 1 /\ e.mem[Len(m) + 1] = new
        /\ \A a \in 1..Len(m) : e.mem[a] = m[a]
    <3>1. Longer(e.mem, m, new)
      BY <1>1, <2>1, AppendFacts
    <3> QED BY <3>1 DEF Longer
  <2>6. DOMAIN e.mem = 1..(Len(m) + 1)
    BY <2>5, SeqIsFunction
  <2>7. Memory(e.mem)
    <3> SUFFICES ASSUME NEW a \in DOMAIN e.mem PROVE IsSeq(e.mem[a])
      BY <2>5 DEF Memory
    <3>1. a = Len(m) + 1 \/ a \in DOMAIN m
      BY <1>1, <2>6
    <3> QED BY <1>1, <2>4, <2>5, <3>1 DEF Memory
  <2>8. Grows(m, e.mem)
    BY <1>1, <2>5, <2>6, <2>7 DEF Grows
  <2>9. /\ ret.arr = Len(m) + 1 /\ ret.off = 0 /\ ret.len = dst.len + k /\ ret.cap = dst.len + k
        /\ ret \in Slice
    BY <1>1 DEF Slice
  <2> HIDE DEF ret
  <2>10. Within(e.mem, ret)
    BY <1>1, <2>4, <2>5, <2>6, <2>9 DEF Within
  <2>11. Content(e.mem, Upto(ret, dst.len)) = Content(m, dst)
    <3>1. /\ Upto(ret, dst.len).arr = Len(m) + 1 /\ Upto(ret, dst.len).off = 0
          /\ Upto(ret, dst.len).len = dst.len
      BY <1>1, <2>9, UptoFields
    <3>2. \A i \in 1..dst.len : e.mem[Len(m) + 1][0 + i] = m[dst.arr][dst.off + i]
      BY <2>3, <2>4, <2>5
    <3> QED BY <3>1, <3>2, SameContent
  <2> QED BY <1>1, <1>3, <2>1, <2>5, <2>8, <2>9, <2>10, <2>11
<1> QED BY <1>2, <1>3

\* append gives the content of the slice and the data, and writes only behind
\* the slice, if at all.
LEMMA AppendedFacts ==
  ASSUME NEW m, Memory(m), NEW s, Within(m, s), NEW data, IsSeq(data), NEW e, e = Appended(m, s, data)
  PROVE  /\ Grows(m, e.mem) /\ Within(e.mem, e.ret) /\ e.ret.len = s.len + Len(data)
         /\ Content(e.mem, e.ret) = Content(m, s) \o data
         /\ \A a \in DOMAIN m : \A j \in 1..Len(m[a]) : e.mem[a][j] # m[a][j] =>
              Fits(s, Len(data)) /\ <<a, j>> \in Window(Behind(s, Len(data)))
         /\ e.ret.arr = s.arr \/ e.ret.arr \notin DOMAIN m
<1> DEFINE x == extendSlice(m, s, Len(data))
           rest == From(x.ret, s.len)
<1>1. /\ s \in Slice /\ s.arr \in DOMAIN m /\ s.off \in Nat /\ s.len \in Nat /\ s.cap \in Nat
      /\ s.len <= s.cap /\ DOMAIN m = 1..Len(m) /\ Len(m) \in Nat /\ Len(data) \in Nat
  BY SeqIsFunction DEF Memory, Within, Slice
<1>2. e.mem = Stored(x.mem, rest, data) /\ e.ret = x.ret
  BY DEF Appended
<1>3. /\ Grows(m, x.mem) /\ \A a \in DOMAIN m : x.mem[a] = m[a]
      /\ Within(x.mem, x.ret) /\ x.ret.len = s.len + Len(data)
      /\ Content(x.mem, Upto(x.ret, s.len)) = Content(m, s)
      /\ Fits(s, Len(data)) => x.mem = m /\ x.ret = Upto(s, s.len + Len(data))
      /\ ~Fits(s, Len(data)) => Len(x.mem) = Len(m) + 1 /\ x.ret.arr = Len(m) + 1
  BY <1>1, ExtendFacts
<1> HIDE DEF x
<1>4. s.len \in 0..x.ret.len /\ x.ret \in Slice
  BY <1>1, <1>3 DEF Within
<1>5. /\ rest.arr = x.ret.arr /\ rest.off = x.ret.off + s.len /\ rest.len = Len(data)
      /\ x.ret.off \in Nat /\ Within(x.mem, rest)
  <2>1. rest.len = x.ret.len - s.len
    BY <1>4, SliceFields
  <2>2. x.ret.len - s.len = Len(data)
    BY <1>1, <1>3
  <2> QED BY <1>3, <1>4, <2>1, <2>2, SliceFields, SlicesWithin
<1> HIDE DEF rest
<1>6. /\ Grows(x.mem, e.mem) /\ Len(e.mem) = Len(x.mem)
      /\ \A a \in DOMAIN x.mem : \A j \in 1..Len(x.mem[a]) : e.mem[a][j] # x.mem[a][j] =>
           <<a, j>> \in Window(rest)
      /\ \A i \in 1..Len(data) : e.mem[rest.arr][rest.off + i] = data[i]
  BY SMTT(20), <1>2, <1>3, <1>5, StoredFacts DEF Grows
<1>7. Grows(m, e.mem)
  BY <1>3, <1>6 DEF Grows
<1>8. Within(e.mem, e.ret)
  BY <1>2, <1>3, <1>6, WithinGrows
<1>9. Content(e.mem, e.ret) = Content(m, s) \o data
  <2> DEFINE all == Content(e.mem, e.ret)
             old == Content(m, s)
  <2>1. /\ IsSeq(all) /\ Len(all) = s.len + Len(data)
        /\ \A i \in 1..(s.len + Len(data)) : all[i] = e.mem[x.ret.arr][x.ret.off + i]
    <3>1. e.ret.len \in Nat /\ e.ret.len = s.len + Len(data)
      BY <1>1, <1>2, <1>3
    <3> QED BY <1>2, <3>1, ContentFacts
  <2>2. IsSeq(old) /\ Len(old) = s.len
    BY <1>1, ContentFacts
  <2>3. \A i \in 1..s.len : old[i] = x.mem[x.ret.arr][x.ret.off + i]
    <3>1. /\ Upto(x.ret, s.len).arr = x.ret.arr /\ Upto(x.ret, s.len).off = x.ret.off
          /\ Upto(x.ret, s.len).len = s.len
      BY <1>1, <1>4, UptoFields
    <3>2. \A i \in 1..s.len : Content(x.mem, Upto(x.ret, s.len))[i] = x.mem[x.ret.arr][x.ret.off + i]
      BY <1>1, <3>1, ContentFacts
    <3> QED BY <1>3, <3>2
  <2>4. ASSUME NEW i \in 1..s.len PROVE all[i] = old[i]
    <3>1. /\ x.ret.arr \in DOMAIN x.mem /\ x.ret.off + i \in 1..Len(x.mem[x.ret.arr])
          /\ x.ret.off + i \in Nat /\ ~(rest.off < x.ret.off + i)
      <4>1. x.ret.len <= x.ret.cap /\ x.ret.off + x.ret.cap <= Len(x.mem[x.ret.arr])
            /\ x.ret.arr \in DOMAIN x.mem /\ x.ret.cap \in Nat /\ x.ret.len \in Nat
        BY <1>3, <1>4 DEF Within, Slice
      <4>2. Len(x.mem[x.ret.arr]) \in Nat
        BY <1>3, <4>1, SeqIsFunction DEF Grows, Memory
      <4>3. x.ret.off + i \in Nat /\ 1 <= x.ret.off + i /\ i <= s.len
        BY <1>1, <1>5
      <4>4. x.ret.off + i <= Len(x.mem[x.ret.arr])
        <5>1. s.len <= x.ret.len
          BY <1>4, <4>1
        <5>2. i \in Nat /\ x.ret.off \in Nat /\ s.len \in Nat /\ i <= x.ret.cap
          BY <1>1, <1>5, <4>1, <5>1
        <5> QED BY <4>1, <4>2, <5>2
      <4>5. ~(rest.off < x.ret.off + i)
        BY <1>1, <1>5, <4>3
      <4> QED BY <4>1, <4>2, <4>3, <4>4, <4>5
    <3>2. <<x.ret.arr, x.ret.off + i>> \notin Window(rest)
      BY SMTT(20), <1>1, <1>5, <3>1, InWindow
    <3>3. e.mem[x.ret.arr][x.ret.off + i] = x.mem[x.ret.arr][x.ret.off + i]
      BY <1>6, <3>1, <3>2
    <3>4. i \in 1..(s.len + Len(data))
      BY <1>1
    <3> QED BY <2>1, <2>3, <3>3, <3>4
  <2>5. ASSUME NEW i \in 1..Len(data) PROVE all[s.len + i] = data[i]
    <3>1. s.len + i \in 1..(s.len + Len(data)) /\ x.ret.off + (s.len + i) = rest.off + i
      BY SMTT(20), <1>1, <1>5
    <3> QED BY <1>5, <1>6, <2>1, <3>1
  <2> DEFINE both == old \o data
  <2> HIDE DEF all, old
  <2>6. /\ IsSeq(both) /\ Len(both) = Len(old) + Len(data)
        /\ \A i \in 1..Len(old) : both[i] = old[i]
        /\ \A i \in 1..Len(data) : both[Len(old) + i] = data[i]
    <3> HIDE DEF both
    <3>1. both = old \o data
      BY DEF both
    <3>2. Joined(both, old, data)
      BY <2>2, <3>1, ConcatFacts
    <3> QED BY <3>2 DEF Joined
  <2> HIDE DEF both
  <2>7. ASSUME NEW i \in 1..Len(all) PROVE all[i] = both[i]
    <3>1. i \in 1..s.len \/ (i - s.len \in 1..Len(data) /\ i = s.len + (i - s.len))
      BY <1>1, <2>1
    <3> QED BY <2>2, <2>4, <2>5, <2>6, <3>1
  <2>8. all = both
    BY <2>1, <2>2, <2>6, <2>7, SameSeq
  <2> QED BY <2>8 DEF all, both, old
<1>10. ASSUME NEW a \in DOMAIN m, NEW j \in 1..Len(m[a]), e.mem[a][j] # m[a][j]
       PROVE  Fits(s, Len(data)) /\ <<a, j>> \in Window(Behind(s, Len(data)))
  <2>1. a \in DOMAIN x.mem /\ x.mem[a] = m[a] /\ <<a, j>> \in Window(rest)
    BY <1>3, <1>6, <1>10 DEF Grows
  <2>2. a = rest.arr
    BY <2>1 DEF Window
  <2>3. Fits(s, Len(data))
    BY <1>1, <1>3, <1>5, <2>2
  <2>4. rest = Behind(s, Len(data))
    BY <1>3, <2>3 DEF rest, Behind
  <2> QED BY <2>1, <2>3, <2>4
<1>11. e.ret.arr = s.arr \/ e.ret.arr \notin DOMAIN m
  <2>1. CASE Fits(s, Len(data))
    <3>1. e.ret.arr = s.arr
      BY <1>1, <1>2, <1>3, <2>1 DEF Slice, Upto
    <3> QED BY <3>1
  <2>2. CASE ~Fits(s, Len(data))
    BY <1>1, <1>2, <1>3, <2>2
  <2> QED BY <2>1, <2>2
<1> QED BY <1>2, <1>3, <1>7, <1>8, <1>9, <1>10, <1>11

-----------------------------------------------------------------------------
(* Programs. *)

\* The steps of each program by their places.
SealSteps(s, n) ==
  /\ IsSeq(s) /\ Len(s) = n + 6
  /\ s[1] = "Extend" /\ s[2] = "TakeIV" /\ \A i \in 3..(n + 2) : s[i] = "Crypt"
  /\ s[n + 3] = "CopyText" /\ s[n + 4] = "BuildMAC" /\ s[n + 5] = "CopyTag" /\ s[n + 6] = "Return"

OpenSteps(s, n) ==
  /\ IsSeq(s) /\ Len(s) = n + 6
  /\ s[1] = "BuildMAC" /\ s[2] = "Verify" /\ s[3] = "Extend" /\ s[4] = "TakeIV"
  /\ \A i \in 5..(n + 4) : s[i] = "Crypt"
  /\ s[n + 5] = "CopyText" /\ s[n + 6] = "Return"

\* A short sequence, the pieces, and another one.
Framed(s, a, n, b) ==
  /\ IsSeq(s) /\ Len(s) = Len(a) + n + Len(b)
  /\ \A i \in 1..Len(a) : s[i] = a[i]
  /\ \A i \in 1..n : s[Len(a) + i] = "Crypt"
  /\ \A i \in 1..Len(b) : s[Len(a) + n + i] = b[i]

\* A program has its first steps, then the pieces, then its last steps.
LEMMA FramedPieces ==
  ASSUME NEW a, IsSeq(a), NEW n \in Nat, NEW b, IsSeq(b), NEW s, s = (a \o [i \in 1..n |-> "Crypt"]) \o b
  PROVE  Framed(s, a, n, b)
<1> DEFINE pieces == [i \in 1..n |-> "Crypt"]
           first == a \o pieces
<1>1. \A i \in 1..n : pieces[i] = "Crypt"
  OBVIOUS
<1>2. IsSeq(pieces) /\ Len(pieces) = n
  <2>1. pieces = [i \in 1..n |-> pieces[i]]
    OBVIOUS
  <2> HIDE DEF pieces
  <2> QED BY <2>1, FunctionIsSeq
<1> HIDE DEF pieces
<1>3. Joined(first, a, pieces)
  <2>1. first = a \o pieces
    OBVIOUS
  <2> HIDE DEF first
  <2> QED BY <1>2, <2>1, ConcatFacts
<1>4. s = first \o b
  BY DEF pieces
<1> HIDE DEF first
<1>5. Joined(s, first, b)
  <2>1. IsSeq(first)
    BY <1>3 DEF Joined
  <2> QED BY <1>4, <2>1, ConcatFacts
<1>6. Len(a) \in Nat /\ Len(b) \in Nat /\ Len(first) = Len(a) + n
  BY <1>2, <1>3, SeqIsFunction DEF Joined
<1>7. IsSeq(s) /\ Len(s) = Len(a) + n + Len(b)
  BY <1>5, <1>6 DEF Joined
<1>8. ASSUME NEW i \in 1..Len(a) PROVE s[i] = a[i]
  <2>1. i \in 1..Len(first)
    BY <1>6
  <2> QED BY <1>3, <1>5, <2>1 DEF Joined
<1>9. ASSUME NEW i \in 1..n PROVE s[Len(a) + i] = "Crypt"
  <2>1. Len(a) + i \in 1..Len(first)
    BY <1>6
  <2>2. s[Len(a) + i] = first[Len(a) + i]
    BY <1>5, <2>1 DEF Joined
  <2>3. first[Len(a) + i] = pieces[i]
    BY <1>2, <1>3 DEF Joined
  <2> QED BY <1>1, <2>2, <2>3
<1>10. ASSUME NEW i \in 1..Len(b) PROVE s[Len(a) + n + i] = b[i]
  <2>1. s[Len(first) + i] = b[i]
    BY <1>5 DEF Joined
  <2> QED BY <1>6, <2>1
<1> QED BY <1>7, <1>8, <1>9, <1>10 DEF Framed

\* The steps of Seal and Open, place by place.
LEMMA StepsFacts ==
  ASSUME NEW r, NEW n \in Nat, n = Body(r).len
  PROVE  /\ r.op = "Seal" => SealSteps(Steps(r), n)
         /\ r.op # "Seal" => OpenSteps(Steps(r), n)
<1> DEFINE s == Steps(r)
<1>1. CASE r.op = "Seal"
  <2> DEFINE a == <<"Extend", "TakeIV">>
             b == <<"CopyText", "BuildMAC", "CopyTag", "Return">>
  <2>1. IsSeq(a) /\ Len(a) = 2 /\ a[1] = "Extend" /\ a[2] = "TakeIV"
    <3>1. a = [i \in 1..2 |-> a[i]]
      OBVIOUS
    <3>2. IsSeq(a) /\ Len(a) = 2
      <4> HIDE DEF a
      <4> QED BY <3>1, FunctionIsSeq
    <3> QED BY <3>2
  <2>2. IsSeq(b) /\ Len(b) = 4 /\ b[1] = "CopyText" /\ b[2] = "BuildMAC" /\ b[3] = "CopyTag" /\ b[4] = "Return"
    <3>1. b = [i \in 1..4 |-> b[i]]
      OBVIOUS
    <3>2. IsSeq(b) /\ Len(b) = 4
      <4> HIDE DEF b
      <4> QED BY <3>1, FunctionIsSeq
    <3> QED BY <3>2
  <2>3. s = (a \o [i \in 1..n |-> "Crypt"]) \o b
    BY <1>1 DEF Steps
  <2> HIDE DEF a, b, s
  <2>4. Framed(s, a, n, b)
    BY <2>1, <2>2, <2>3, FramedPieces
  <2>5. s[1] = "Extend" /\ s[2] = "TakeIV" /\ Len(s) = n + 6
    BY <2>1, <2>2, <2>4 DEF Framed
  <2>6. ASSUME NEW i \in 3..(n + 2) PROVE s[i] = "Crypt"
    <3>1. i - 2 \in 1..n /\ 2 + (i - 2) = i
      OBVIOUS
    <3> QED BY <2>1, <2>4, <3>1 DEF Framed
  <2>7. \A i \in 1..4 : s[n + 2 + i] = b[i]
    <3>1. ASSUME NEW i \in 1..4 PROVE Len(a) + n + i = n + 2 + i /\ i \in 1..Len(b)
      BY <2>1, <2>2
    <3> QED BY <2>4, <3>1 DEF Framed
  <2>8. s[n + 3] = "CopyText" /\ s[n + 4] = "BuildMAC" /\ s[n + 5] = "CopyTag" /\ s[n + 6] = "Return"
    <3>1. n + 3 = n + 2 + 1 /\ n + 4 = n + 2 + 2 /\ n + 5 = n + 2 + 3 /\ n + 6 = n + 2 + 4
      OBVIOUS
    <3> QED BY <2>2, <2>7, <3>1
  <2> QED BY <1>1, <2>4, <2>5, <2>6, <2>8 DEF Framed, SealSteps, s
<1>2. CASE r.op # "Seal"
  <2> DEFINE a == <<"BuildMAC", "Verify", "Extend", "TakeIV">>
             b == <<"CopyText", "Return">>
  <2>1. IsSeq(a) /\ Len(a) = 4 /\ a[1] = "BuildMAC" /\ a[2] = "Verify" /\ a[3] = "Extend" /\ a[4] = "TakeIV"
    <3>1. a = [i \in 1..4 |-> a[i]]
      OBVIOUS
    <3>2. IsSeq(a) /\ Len(a) = 4
      <4> HIDE DEF a
      <4> QED BY <3>1, FunctionIsSeq
    <3> QED BY <3>2
  <2>2. IsSeq(b) /\ Len(b) = 2 /\ b[1] = "CopyText" /\ b[2] = "Return"
    <3>1. b = [i \in 1..2 |-> b[i]]
      OBVIOUS
    <3>2. IsSeq(b) /\ Len(b) = 2
      <4> HIDE DEF b
      <4> QED BY <3>1, FunctionIsSeq
    <3> QED BY <3>2
  <2>3. s = (a \o [i \in 1..n |-> "Crypt"]) \o b
    BY <1>2 DEF Steps
  <2> HIDE DEF a, b, s
  <2>4. Framed(s, a, n, b)
    BY <2>1, <2>2, <2>3, FramedPieces
  <2>5. s[1] = "BuildMAC" /\ s[2] = "Verify" /\ s[3] = "Extend" /\ s[4] = "TakeIV" /\ Len(s) = n + 6
    BY <2>1, <2>2, <2>4 DEF Framed
  <2>6. ASSUME NEW i \in 5..(n + 4) PROVE s[i] = "Crypt"
    <3>1. i - 4 \in 1..n /\ 4 + (i - 4) = i
      OBVIOUS
    <3> QED BY <2>1, <2>4, <3>1 DEF Framed
  <2>7. \A i \in 1..2 : s[n + 4 + i] = b[i]
    <3>1. ASSUME NEW i \in 1..2 PROVE Len(a) + n + i = n + 4 + i /\ i \in 1..Len(b)
      BY <2>1, <2>2
    <3> QED BY <2>4, <3>1 DEF Framed
  <2>8. s[n + 5] = "CopyText" /\ s[n + 6] = "Return"
    <3>1. n + 5 = n + 4 + 1 /\ n + 6 = n + 4 + 2
      OBVIOUS
    <3> QED BY <2>2, <2>7, <3>1
  <2> QED BY <1>2, <2>4, <2>5, <2>6, <2>8 DEF Framed, OpenSteps, s
<1> QED BY <1>1, <1>2

\* What is left of a program says which step is next and which ones are ahead.
Has(s, step) == \E i \in 1..Len(s) : s[i] = step

\* s is an end of t.
Ending(s, t) ==
  /\ IsSeq(s) /\ s # <<>> /\ Len(s) \in 1..Len(t) /\ Head(s) = s[1]
  /\ \A i \in 1..Len(s) : s[i] = t[Len(t) - Len(s) + i]

\* What is left of a program is the end of it.
LEMMA EndFacts ==
  ASSUME NEW t, IsSeq(t), NEW s, EndOf(s, t)
  PROVE  Ending(s, t)
<1> PICK k \in 1..Len(t) : s = SubSeq(t, k, Len(t))
  BY DEF EndOf
<1>1. Len(t) \in Nat
  BY SeqIsFunction
<1>2. Rest(s, t, k)
  <2>1. k \in 1..(Len(t) + 1)
    BY <1>1
  <2> QED BY <2>1, SubSeqFacts
<1>3. IsSeq(s) /\ Len(s) = Len(t) + 1 - k
  BY <1>2 DEF Rest
<1>4. Len(s) \in 1..Len(t) /\ \A i \in 1..Len(s) : k + i - 1 = Len(t) - Len(s) + i
  BY <1>1, <1>3
<1>5. \A i \in 1..Len(s) : s[i] = t[Len(t) - Len(s) + i]
  BY <1>2, <1>4 DEF Rest
<1>6. s # <<>>
  <2>1. Len(s) # 0
    BY <1>1, <1>4
  <2>2. s = <<>> => Len(s) = 0
    OBVIOUS
  <2> QED BY <2>1, <2>2
<1>7. Head(s) = s[1]
  BY <1>3, <1>6, TailFacts
<1> QED BY <1>3, <1>4, <1>5, <1>6, <1>7 DEF Ending

\* ... and after its first step it is one too.
LEMMA EndTail ==
  ASSUME NEW t, IsSeq(t), NEW s, EndOf(s, t)
  PROVE  /\ Rest(Tail(s), s, 2)
         /\ Len(s) > 1 => EndOf(Tail(s), t)
<1> PICK k \in 1..Len(t) : s = SubSeq(t, k, Len(t))
  BY DEF EndOf
<1> DEFINE u == Tail(s)
<1>1. Len(t) \in Nat
  BY SeqIsFunction
<1>2. Rest(s, t, k)
  <2>1. k \in 1..(Len(t) + 1)
    BY <1>1
  <2> QED BY <2>1, SubSeqFacts
<1>3. IsSeq(s) /\ s # <<>> /\ Len(s) = Len(t) + 1 - k
  <2>1. s # <<>>
    BY EndFacts DEF Ending
  <2> QED BY <1>2, <2>1 DEF Rest
<1>4. u = Tail(s)
  OBVIOUS
<1> HIDE DEF u
<1>5. Rest(u, s, 2)
  BY <1>3, <1>4, TailFacts
<1>6. ASSUME Len(s) > 1 PROVE EndOf(u, t)
  <2> DEFINE v == SubSeq(t, k + 1, Len(t))
  <2>1. k + 1 \in 1..Len(t) /\ k + 1 \in 1..(Len(t) + 1)
    BY <1>1, <1>3, <1>6
  <2>2. v = SubSeq(t, k + 1, Len(t))
    OBVIOUS
  <2> HIDE DEF v
  <2>3. Rest(v, t, k + 1)
    BY <2>1, <2>2, SubSeqFacts
  <2>4. IsSeq(u) /\ IsSeq(v) /\ Len(u) = Len(v)
    <3>1. IsSeq(u) /\ Len(u) = Len(s) + 1 - 2
      BY <1>5 DEF Rest
    <3>2. IsSeq(v) /\ Len(v) = Len(t) + 1 - (k + 1)
      BY <2>3 DEF Rest
    <3> QED BY <1>1, <1>3, <3>1, <3>2
  <2>5. ASSUME NEW i \in 1..Len(u) PROVE u[i] = v[i]
    <3>1. u[i] = s[2 + i - 1]
      BY <1>5 DEF Rest
    <3>2. v[i] = t[(k + 1) + i - 1]
      BY <2>3, <2>4 DEF Rest
    <3>3. 2 + i - 1 \in 1..Len(s) /\ k + (2 + i - 1) - 1 = (k + 1) + i - 1
      <4>1. Len(u) = Len(s) + 1 - 2
        BY <1>5 DEF Rest
      <4> QED BY <1>1, <1>3, <4>1
    <3>4. s[2 + i - 1] = t[k + (2 + i - 1) - 1]
      BY <1>2, <3>3 DEF Rest
    <3> QED BY <3>1, <3>2, <3>3, <3>4
  <2>6. u = v
    BY <2>4, <2>5, SameSeq
  <2> QED BY <2>1, <2>2, <2>6 DEF EndOf
<1> QED BY <1>4, <1>5, <1>6

\* A step that is in a program of n + 6 steps once, at the place j.
Once(t, n, step, j) ==
  j \in 1..(n + 6) /\ t[j] = step /\ \A i \in 1..(n + 6) : t[i] = step => i = j

\* A step that is next when k steps are left, and ahead before that.
LeftAt(s, step, k) == (Head(s) = step <=> Len(s) = k) /\ (Has(s, step) <=> Len(s) >= k)

\* Where in a program a step is says when it is next and when it is ahead.
LEMMA OnePlace ==
  ASSUME NEW t, IsSeq(t), NEW n \in Nat, Len(t) = n + 6, NEW s, EndOf(s, t),
         NEW step, NEW j, Once(t, n, step, j), NEW k, k = n + 7 - j
  PROVE  LeftAt(s, step, k)
<1>1. Ending(s, t) /\ Len(s) \in 1..(n + 6) /\ \A i \in 1..Len(s) : s[i] = t[n + 6 - Len(s) + i]
  BY SMTT(20), EndFacts DEF Ending
<1>2. j \in 1..(n + 6) /\ t[j] = step /\ \A i \in 1..(n + 6) : t[i] = step => i = j
  BY DEF Once
<1>3. Head(s) = t[n + 7 - Len(s)] /\ n + 7 - Len(s) \in 1..(n + 6)
  <2>1. Head(s) = s[1]
    BY <1>1 DEF Ending
  <2>2. 1 \in 1..Len(s) /\ n + 6 - Len(s) + 1 = n + 7 - Len(s) /\ n + 7 - Len(s) \in 1..(n + 6)
    BY <1>1
  <2> QED BY <1>1, <2>1, <2>2
<1>4. Head(s) = step <=> Len(s) = k
  <2>1. n + 7 - Len(s) = j <=> Len(s) = k
    BY <1>1, <1>2
  <2> QED BY <1>2, <1>3, <2>1
<1>5. ASSUME Len(s) >= k PROVE Has(s, step)
  <2>1. j - (n + 6 - Len(s)) \in 1..Len(s) /\ n + 6 - Len(s) + (j - (n + 6 - Len(s))) = j
    BY <1>1, <1>2, <1>5
  <2>2. s[j - (n + 6 - Len(s))] = step
    BY <1>1, <1>2, <2>1
  <2> QED BY <2>1, <2>2 DEF Has
<1>6. ASSUME NEW i \in 1..Len(s), s[i] = step PROVE Len(s) >= k
  <2>1. t[n + 6 - Len(s) + i] = step /\ n + 6 - Len(s) + i \in 1..(n + 6)
    BY <1>1, <1>6
  <2>2. n + 6 - Len(s) + i = j
    BY <1>2, <2>1
  <2> QED BY <1>1, <1>2, <2>2
<1> QED BY <1>4, <1>5, <1>6 DEF Has, LeftAt

SealEnd(s, n) ==
  /\ IsSeq(s) /\ s # <<>> /\ Len(s) \in 1..(n + 6)
  /\ LeftAt(s, "Extend", n + 6) /\ LeftAt(s, "TakeIV", n + 5) /\ LeftAt(s, "CopyText", 4)
  /\ LeftAt(s, "BuildMAC", 3) /\ LeftAt(s, "CopyTag", 2) /\ LeftAt(s, "Return", 1)
  /\ (Head(s) = "Crypt" => Len(s) \in 5..(n + 4)) /\ Head(s) # "Verify"

OpenEnd(s, n) ==
  /\ IsSeq(s) /\ s # <<>> /\ Len(s) \in 1..(n + 6)
  /\ LeftAt(s, "BuildMAC", n + 6) /\ LeftAt(s, "Verify", n + 5) /\ LeftAt(s, "Extend", n + 4)
  /\ LeftAt(s, "TakeIV", n + 3) /\ LeftAt(s, "CopyText", 2) /\ LeftAt(s, "Return", 1)
  /\ (Head(s) = "Crypt" => Len(s) \in 3..(n + 2)) /\ Head(s) # "CopyTag"

\* What may be left of a Seal.
LEMMA SealPlaces ==
  ASSUME NEW n \in Nat, NEW t, SealSteps(t, n), NEW s, EndOf(s, t)
  PROVE  SealEnd(s, n)
<1>1. IsSeq(t) /\ Len(t) = n + 6
  BY DEF SealSteps
<1>2. ASSUME NEW i \in 1..(n + 6)
      PROVE  /\ (t[i] = "Extend" <=> i = 1) /\ (t[i] = "TakeIV" <=> i = 2)
             /\ (t[i] = "CopyText" <=> i = n + 3) /\ (t[i] = "BuildMAC" <=> i = n + 4)
             /\ (t[i] = "CopyTag" <=> i = n + 5) /\ (t[i] = "Return" <=> i = n + 6)
             /\ (t[i] = "Crypt" => i \in 3..(n + 2)) /\ t[i] # "Verify"
  <2>1. i = 1 \/ i = 2 \/ i \in 3..(n + 2) \/ i = n + 3 \/ i = n + 4 \/ i = n + 5 \/ i = n + 6
    OBVIOUS
  <2>2. i \in 3..(n + 2) => t[i] = "Crypt"
    BY DEF SealSteps
  <2> QED BY <2>1, <2>2 DEF SealSteps
<1>3. IsSeq(s) /\ s # <<>> /\ Len(s) \in 1..(n + 6) /\ Len(s) \in Nat
  BY <1>1, EndFacts DEF Ending
<1>4. LeftAt(s, "Extend", n + 6)
  <2>1. Once(t, n, "Extend", 1) /\ n + 6 = n + 7 - 1
    BY <1>2 DEF Once, SealSteps
  <2> QED BY <1>1, <2>1, OnePlace
<1>5. LeftAt(s, "TakeIV", n + 5)
  <2>1. Once(t, n, "TakeIV", 2) /\ n + 5 = n + 7 - 2
    BY <1>2 DEF Once, SealSteps
  <2> QED BY <1>1, <2>1, OnePlace
<1>6. LeftAt(s, "CopyText", 4)
  <2>1. Once(t, n, "CopyText", n + 3) /\ 4 = n + 7 - (n + 3)
    BY <1>2 DEF Once, SealSteps
  <2> QED BY <1>1, <2>1, OnePlace
<1>7. LeftAt(s, "BuildMAC", 3)
  <2>1. Once(t, n, "BuildMAC", n + 4) /\ 3 = n + 7 - (n + 4)
    BY <1>2 DEF Once, SealSteps
  <2> QED BY <1>1, <2>1, OnePlace
<1>8. LeftAt(s, "CopyTag", 2)
  <2>1. Once(t, n, "CopyTag", n + 5) /\ 2 = n + 7 - (n + 5)
    BY <1>2 DEF Once, SealSteps
  <2> QED BY <1>1, <2>1, OnePlace
<1>9. LeftAt(s, "Return", 1)
  <2>1. Once(t, n, "Return", n + 6) /\ 1 = n + 7 - (n + 6)
    BY <1>2 DEF Once, SealSteps
  <2> QED BY <1>1, <2>1, OnePlace
<1>10. Head(s) = t[n + 7 - Len(s)] /\ n + 7 - Len(s) \in 1..(n + 6)
  <2>1. Head(s) = s[1] /\ \A i \in 1..Len(s) : s[i] = t[n + 6 - Len(s) + i]
    <3>1. Ending(s, t)
      BY <1>1, EndFacts
    <3> QED BY <1>1, <3>1 DEF Ending
  <2>2. 1 \in 1..Len(s) /\ n + 6 - Len(s) + 1 = n + 7 - Len(s) /\ n + 7 - Len(s) \in 1..(n + 6)
    BY <1>3
  <2> QED BY <2>1, <2>2
<1>11. (Head(s) = "Crypt" => Len(s) \in 5..(n + 4)) /\ Head(s) # "Verify"
  <2>1. n + 7 - Len(s) \in 3..(n + 2) => Len(s) \in 5..(n + 4)
    BY <1>3
  <2> QED BY <1>2, <1>10, <2>1
<1> QED BY <1>3, <1>4, <1>5, <1>6, <1>7, <1>8, <1>9, <1>11 DEF SealEnd

\* What may be left of an Open.
LEMMA OpenPlaces ==
  ASSUME NEW n \in Nat, NEW t, OpenSteps(t, n), NEW s, EndOf(s, t)
  PROVE  OpenEnd(s, n)
<1>1. IsSeq(t) /\ Len(t) = n + 6
  BY DEF OpenSteps
<1>2. ASSUME NEW i \in 1..(n + 6)
      PROVE  /\ (t[i] = "BuildMAC" <=> i = 1) /\ (t[i] = "Verify" <=> i = 2)
             /\ (t[i] = "Extend" <=> i = 3) /\ (t[i] = "TakeIV" <=> i = 4)
             /\ (t[i] = "CopyText" <=> i = n + 5) /\ (t[i] = "Return" <=> i = n + 6)
             /\ (t[i] = "Crypt" => i \in 5..(n + 4)) /\ t[i] # "CopyTag"
  <2>1. i = 1 \/ i = 2 \/ i = 3 \/ i = 4 \/ i \in 5..(n + 4) \/ i = n + 5 \/ i = n + 6
    OBVIOUS
  <2>2. i \in 5..(n + 4) => t[i] = "Crypt"
    BY DEF OpenSteps
  <2> QED BY <2>1, <2>2 DEF OpenSteps
<1>3. IsSeq(s) /\ s # <<>> /\ Len(s) \in 1..(n + 6) /\ Len(s) \in Nat
  BY <1>1, EndFacts DEF Ending
<1>4. LeftAt(s, "BuildMAC", n + 6)
  <2>1. Once(t, n, "BuildMAC", 1) /\ n + 6 = n + 7 - 1
    BY <1>2 DEF Once, OpenSteps
  <2> QED BY <1>1, <2>1, OnePlace
<1>5. LeftAt(s, "Verify", n + 5)
  <2>1. Once(t, n, "Verify", 2) /\ n + 5 = n + 7 - 2
    BY <1>2 DEF Once, OpenSteps
  <2> QED BY <1>1, <2>1, OnePlace
<1>6. LeftAt(s, "Extend", n + 4)
  <2>1. Once(t, n, "Extend", 3) /\ n + 4 = n + 7 - 3
    BY <1>2 DEF Once, OpenSteps
  <2> QED BY <1>1, <2>1, OnePlace
<1>7. LeftAt(s, "TakeIV", n + 3)
  <2>1. Once(t, n, "TakeIV", 4) /\ n + 3 = n + 7 - 4
    BY <1>2 DEF Once, OpenSteps
  <2> QED BY <1>1, <2>1, OnePlace
<1>8. LeftAt(s, "CopyText", 2)
  <2>1. Once(t, n, "CopyText", n + 5) /\ 2 = n + 7 - (n + 5)
    BY <1>2 DEF Once, OpenSteps
  <2> QED BY <1>1, <2>1, OnePlace
<1>9. LeftAt(s, "Return", 1)
  <2>1. Once(t, n, "Return", n + 6) /\ 1 = n + 7 - (n + 6)
    BY <1>2 DEF Once, OpenSteps
  <2> QED BY <1>1, <2>1, OnePlace
<1>10. Head(s) = t[n + 7 - Len(s)] /\ n + 7 - Len(s) \in 1..(n + 6)
  <2>1. Head(s) = s[1] /\ \A i \in 1..Len(s) : s[i] = t[n + 6 - Len(s) + i]
    <3>1. Ending(s, t)
      BY <1>1, EndFacts
    <3> QED BY <1>1, <3>1 DEF Ending
  <2>2. 1 \in 1..Len(s) /\ n + 6 - Len(s) + 1 = n + 7 - Len(s) /\ n + 7 - Len(s) \in 1..(n + 6)
    BY <1>3
  <2> QED BY <2>1, <2>2
<1>11. (Head(s) = "Crypt" => Len(s) \in 3..(n + 2)) /\ Head(s) # "CopyTag"
  <2>1. n + 7 - Len(s) \in 5..(n + 4) => Len(s) \in 3..(n + 2)
    BY <1>3
  <2> QED BY <1>2, <1>10, <2>1
<1> QED BY <1>3, <1>4, <1>5, <1>6, <1>7, <1>8, <1>9, <1>11 DEF OpenEnd

-----------------------------------------------------------------------------
(* A running call. *)

RunOK(c) ==
  LET r == Req(c)
      k == calls[cur[c]]
  IN /\ cur[c] \in DOMAIN calls /\ cur[c] \in Running
     /\ r.op \in {"Seal", "Open"} /\ LengthsOK(r)
     /\ \A a \in Argument : /\ Within(mem, r[a]) /\ r[a].arr <= k.arrays
                            /\ IsSeq(k.given[a]) /\ Len(k.given[a]) = r[a].len
     /\ k.arrays \in 1..Len(mem)
     /\ Body(r).len \in Nat /\ Room(r) \in Nat
     /\ r.op = "Seal" => Body(r).len = r.text.len /\ Room(r) = r.text.len + tagSize
     /\ r.op = "Open" => Body(r).len = r.text.len - tagSize /\ Room(r) = Body(r).len
     /\ EndOf(todo[c], Steps(r))
     /\ r.op = "Seal" => SealEnd(todo[c], Body(r).len)
     /\ r.op = "Open" => OpenEnd(todo[c], Body(r).len)

\* The constants are positive.
LEMMA Sizes == nonceSize \in Nat \ {0} /\ tagSize \in Nat \ {0} /\ MaxCalls \in Nat \ {0}
BY SizeAssumption

\* How much a call encrypts or decrypts, and how much room it needs.
LEMMA BodyFacts ==
  ASSUME NEW r, r.op \in {"Seal", "Open"}, r.text \in Slice, LengthsOK(r)
  PROVE  /\ Body(r).len \in Nat /\ Room(r) \in Nat
         /\ r.op = "Seal" => Body(r).len = r.text.len /\ Room(r) = r.text.len + tagSize
         /\ r.op = "Open" => Body(r).len = r.text.len - tagSize /\ Room(r) = Body(r).len
<1>1. r.text.len \in Nat
  BY DEF Slice
<1>2. CASE r.op = "Seal"
  BY <1>1, <1>2, Sizes DEF Body, Room
<1>3. CASE r.op = "Open"
  <2>1. r.text.len - tagSize \in Nat
    BY <1>1, <1>3, Sizes DEF LengthsOK
  <2>2. Body(r).len = r.text.len - tagSize
    BY <1>1, <1>3, <2>1, UptoFields DEF Body
  <2> QED BY <1>3, <2>1, <2>2 DEF Room
<1> QED BY <1>2, <1>3

\* What may be left of a call.
LEMMA EndPlaces ==
  ASSUME NEW r, r.op \in {"Seal", "Open"}, Body(r).len \in Nat, NEW s, EndOf(s, Steps(r))
  PROVE  /\ r.op = "Seal" => SealEnd(s, Body(r).len)
         /\ r.op = "Open" => OpenEnd(s, Body(r).len)
BY StepsFacts, SealPlaces, OpenPlaces

\* What is known of a running call.
LEMMA Runs ==
  ASSUME PlacesInv, NEW c \in Client, cur[c] # 0
  PROVE  RunOK(c)
<1> DEFINE r == Req(c)
           k == calls[cur[c]]
<1>1. IsSeq(calls) /\ cur[c] \in 0..Len(calls)
  BY DEF PlacesInv, TypeOK
<1>2. cur[c] \in DOMAIN calls /\ cur[c] \in Running
  <2>1. DOMAIN calls = 1..Len(calls) /\ Len(calls) \in Nat
    BY <1>1, SeqIsFunction
  <2> QED BY <1>1, <2>1 DEF Running
<1>3. CallOK(cur[c]) /\ k.state = "running"
  BY <1>2 DEF PlacesInv, CallsOK
<1>4. r.op \in {"Seal", "Open"} /\ k.arrays \in 1..Len(mem)
  <2>1. Len(Arrays) \in Nat /\ Len(Arrays) # 0
    BY ArraysAssumption, SeqIsFunction, EmptyLen
  <2>2. r.op \in {"Seal", "Open"} /\ k.arrays \in Len(Arrays)..Len(mem) /\ IsSeq(mem)
    BY <1>3 DEF CallOK, Req, PlacesInv, TypeOK
  <2> QED BY <2>1, <2>2
<1>5. LengthsOK(r)
  BY <1>3 DEF CallOK, Req
<1>6. \A a \in Argument : /\ Within(mem, r[a]) /\ r[a].arr <= k.arrays
                          /\ IsSeq(k.given[a]) /\ Len(k.given[a]) = r[a].len
  BY <1>3 DEF CallOK, Req
<1>7. r.text \in Slice /\ r.text.len \in Nat
  <2>1. Within(mem, r.text)
    BY <1>6 DEF Argument
  <2> QED BY <2>1 DEF Within, Slice
<1>8. /\ Body(r).len \in Nat /\ Room(r) \in Nat
      /\ r.op = "Seal" => Body(r).len = r.text.len /\ Room(r) = r.text.len + tagSize
      /\ r.op = "Open" => Body(r).len = r.text.len - tagSize /\ Room(r) = Body(r).len
  BY <1>4, <1>5, <1>7, BodyFacts
<1>9. EndOf(todo[c], Steps(r))
  BY DEF PlacesInv, ProgramOK
<1>10. /\ r.op = "Seal" => SealEnd(todo[c], Body(r).len)
       /\ r.op = "Open" => OpenEnd(todo[c], Body(r).len)
  BY <1>4, <1>8, <1>9, EndPlaces
<1> QED BY <1>2, <1>4, <1>5, <1>6, <1>8, <1>9, <1>10 DEF RunOK

\* Going on to the next step.
LEMMA Goes ==
  ASSUME PlacesInv, NEW c \in Client, NEW step, AtStep(c, step), step # "Return", Proceed(c)
  PROVE  /\ RunOK(c) /\ Head(todo[c]) = step /\ cur[c] # 0
         /\ cur' = cur /\ calls' = calls /\ DOMAIN todo' = Client
         /\ \A d \in Client : d # c => todo'[d] = todo[d]
         /\ EndOf(todo'[c], Steps(Req(c))) /\ IsSeq(todo'[c]) /\ todo'[c] # <<>>
         /\ Len(todo[c]) \in Nat /\ Len(todo'[c]) = Len(todo[c]) - 1 /\ Len(todo'[c]) >= 1
         /\ Req(c).op = "Seal" => SealEnd(todo'[c], Body(Req(c)).len)
         /\ Req(c).op = "Open" => OpenEnd(todo'[c], Body(Req(c)).len)
<1>1. RunOK(c) /\ Head(todo[c]) = step /\ cur[c] # 0
  BY Runs DEF AtStep
<1>2. /\ cur' = cur /\ calls' = calls /\ DOMAIN todo' = Client /\ todo'[c] = Tail(todo[c])
      /\ \A d \in Client : d # c => todo'[d] = todo[d]
  BY DEF Proceed, PlacesInv, TypeOK
<1>3. Len(todo[c]) \in Nat /\ Len(todo[c]) > 1
  <2> DEFINE n == Body(Req(c)).len
  <2>1. n \in Nat /\ Req(c).op \in {"Seal", "Open"}
    BY <1>1 DEF RunOK
  <2>2. Len(todo[c]) \in 1..(n + 6)
    BY <1>1, <2>1 DEF RunOK, SealEnd, OpenEnd
  <2>3. LeftAt(todo[c], "Return", 1)
    BY <1>1, <2>1 DEF RunOK, SealEnd, OpenEnd
  <2>4. Len(todo[c]) # 1
    BY <1>1, <2>3 DEF LeftAt
  <2>5. \A k : k \in 1..(n + 6) /\ k # 1 => k \in Nat /\ k > 1
    <3> HIDE DEF n
    <3> QED BY <2>1
  <2> QED BY <2>2, <2>4, <2>5
<1>4. Rest(Tail(todo[c]), todo[c], 2) /\ EndOf(Tail(todo[c]), Steps(Req(c)))
  <2>1. EndOf(todo[c], Steps(Req(c))) /\ Body(Req(c)).len \in Nat /\ Req(c).op \in {"Seal", "Open"}
    BY <1>1 DEF RunOK
  <2>2. IsSeq(Steps(Req(c)))
    BY <2>1, StepsFacts DEF SealSteps, OpenSteps
  <2> QED BY <1>3, <2>1, <2>2, EndTail
<1>5. IsSeq(todo'[c]) /\ Len(todo'[c]) = Len(todo[c]) - 1 /\ Len(todo'[c]) >= 1
  <2>1. IsSeq(todo'[c]) /\ Len(todo'[c]) = Len(todo[c]) + 1 - 2
    BY <1>2, <1>4 DEF Rest
  <2> QED BY <1>3, <2>1
<1>6. /\ Req(c).op = "Seal" => SealEnd(todo'[c], Body(Req(c)).len)
      /\ Req(c).op = "Open" => OpenEnd(todo'[c], Body(Req(c)).len)
  BY <1>1, <1>2, <1>4, EndPlaces DEF RunOK
<1>7. todo'[c] # <<>>
  BY <1>1, <1>6 DEF SealEnd, OpenEnd, RunOK
<1> QED BY <1>1, <1>2, <1>3, <1>4, <1>5, <1>6, <1>7

\* After a step, what was ahead is still ahead, but for that step.
LEMMA LeftNext ==
  ASSUME NEW s, NEW t, NEW step, NEW k \in Nat, Len(s) \in Nat, Len(t) = Len(s) - 1,
         LeftAt(s, step, k), LeftAt(t, step, k)
  PROVE  Has(t, step) <=> Has(s, step) /\ Head(s) # step
<1>1. Len(t) >= k <=> Len(s) >= k /\ Len(s) # k
  OBVIOUS
<1> QED BY <1>1 DEF LeftAt

\* What is ahead after a step was ahead before and is not that step.
StillAhead(c, step) == Ahead(c, step)' <=> Ahead(c, step) /\ Head(todo[c]) # step

\* ... for the steps of a call.
LEMMA Aheads ==
  ASSUME PlacesInv, NEW c \in Client, NEW step, AtStep(c, step), step # "Return", Proceed(c)
  PROVE  /\ \A s \in {"Extend", "TakeIV", "CopyText", "BuildMAC"} : StillAhead(c, s)
         /\ Req(c).op = "Seal" => StillAhead(c, "CopyTag")
         /\ Req(c).op = "Open" => StillAhead(c, "Verify")
<1> DEFINE n == Body(Req(c)).len
<1>1. /\ RunOK(c) /\ Len(todo[c]) \in Nat /\ Len(todo'[c]) = Len(todo[c]) - 1
      /\ Req(c).op = "Seal" => SealEnd(todo'[c], n)
      /\ Req(c).op = "Open" => OpenEnd(todo'[c], n)
  BY Goes
<1>2. /\ n \in Nat /\ Req(c).op \in {"Seal", "Open"}
      /\ Req(c).op = "Seal" => SealEnd(todo[c], n)
      /\ Req(c).op = "Open" => OpenEnd(todo[c], n)
  BY <1>1 DEF RunOK
<1> HIDE DEF n
<1>3. ASSUME NEW s, NEW k \in Nat, LeftAt(todo[c], s, k), LeftAt(todo'[c], s, k) PROVE StillAhead(c, s)
  <2>1. Has(todo'[c], s) <=> Has(todo[c], s) /\ Head(todo[c]) # s
    BY <1>1, <1>3, LeftNext
  <2> QED BY <2>1 DEF StillAhead, Ahead, Has
<1>4. CASE Req(c).op = "Seal"
  <2>1. n + 6 \in Nat /\ n + 5 \in Nat /\ 4 \in Nat /\ 3 \in Nat /\ 2 \in Nat
    BY <1>2
  <2>2. StillAhead(c, "Extend")
    BY <1>1, <1>2, <1>3, <1>4, <2>1 DEF SealEnd
  <2>3. StillAhead(c, "TakeIV")
    BY <1>1, <1>2, <1>3, <1>4, <2>1 DEF SealEnd
  <2>4. StillAhead(c, "CopyText") /\ StillAhead(c, "BuildMAC") /\ StillAhead(c, "CopyTag")
    BY <1>1, <1>2, <1>3, <1>4, <2>1 DEF SealEnd
  <2> QED BY <1>4, <2>2, <2>3, <2>4
<1>5. CASE Req(c).op = "Open"
  <2>1. n + 6 \in Nat /\ n + 5 \in Nat /\ n + 4 \in Nat /\ n + 3 \in Nat /\ 2 \in Nat
    BY <1>2
  <2>2. StillAhead(c, "BuildMAC")
    BY <1>1, <1>2, <1>3, <1>5, <2>1 DEF OpenEnd
  <2>3. StillAhead(c, "Verify")
    BY <1>1, <1>2, <1>3, <1>5, <2>1 DEF OpenEnd
  <2>4. StillAhead(c, "Extend") /\ StillAhead(c, "TakeIV") /\ StillAhead(c, "CopyText")
    BY <1>1, <1>2, <1>3, <1>5, <2>1 DEF OpenEnd
  <2> QED BY <1>5, <2>2, <2>3, <2>4
<1> QED BY <1>2, <1>4, <1>5

\* Memory gets no smaller.
LEMMA GrowsLen ==
  ASSUME NEW m, NEW n, Grows(m, n)
  PROVE  Len(m) \in Nat /\ Len(n) \in Nat /\ Len(m) <= Len(n)
<1>1. DOMAIN m = 1..Len(m) /\ DOMAIN n = 1..Len(n) /\ Len(m) \in Nat /\ Len(n) \in Nat
  BY SeqIsFunction DEF Grows, Memory
<1>2. \A a \in 1..Len(m) : a \in 1..Len(n)
  BY <1>1 DEF Grows
<1> QED BY <1>1, <1>2

\* What a step does to the calls other than the one that takes it: nothing.
LEMMA ProceedOthers ==
  ASSUME PlacesInv, NEW c \in Client, NEW step, AtStep(c, step), step # "Return", Proceed(c),
         Grows(mem, mem'), DOMAIN work' = Client, \A d \in Client : d # c => work'[d] = work[d],
         work'[c].ret \in Slice, DOMAIN work'[c] = DOMAIN NoWork, IsSeq(work'[c].out)
  PROVE  /\ TypeOK' /\ CallsOK' /\ TogetherOK' /\ \A d \in Client : ProgramOK(d)'
         /\ \A d \in Client : d # c => RetOK(d)' /\ PiecesOK(d)'
<1>1. /\ cur' = cur /\ calls' = calls /\ DOMAIN todo' = Client /\ cur[c] # 0
      /\ \A d \in Client : d # c => todo'[d] = todo[d]
      /\ EndOf(todo'[c], Steps(Req(c))) /\ IsSeq(todo'[c]) /\ todo'[c] # <<>>
  BY Goes
<1>2. Running' = Running
  BY <1>1 DEF Running
<1>3. TypeOK'
  <2>1. IsSeq(mem') /\ \A a \in DOMAIN mem' : IsSeq(mem'[a])
    BY DEF Grows, Memory
  <2>2. /\ IsSeq(calls') /\ \A n \in DOMAIN calls' : DOMAIN calls'[n] = CallFields
        /\ cur' \in [Client -> 0..Len(calls')]
    BY <1>1 DEF PlacesInv, TypeOK
  <2>3. \A d \in Client :
          /\ IsSeq(todo'[d]) /\ (cur'[d] # 0 <=> todo'[d] # <<>>)
          /\ DOMAIN work'[d] = DOMAIN NoWork /\ work'[d].ret \in Slice /\ IsSeq(work'[d].out)
    BY <1>1 DEF PlacesInv, TypeOK
  <2> QED BY <1>1, <2>1, <2>2, <2>3 DEF TypeOK
<1>4. CallsOK'
  <2>1. \A a \in DOMAIN Arrays : a \in DOMAIN mem' /\ Len(mem'[a]) = Len(Arrays[a])
    BY DEF PlacesInv, CallsOK, Grows
  <2>2. Len(mem) \in Nat /\ Len(mem') \in Nat /\ Len(mem) <= Len(mem')
    BY GrowsLen
  <2>3. ASSUME NEW n \in DOMAIN calls, CallOK(n) PROVE CallOK(n)'
    <3>1. \A s : Within(mem, s) => Within(mem', s)
      BY WithinGrows
    <3>2. calls[n].arrays \in Len(Arrays)..Len(mem')
      <4>1. Len(Arrays) \in Nat
        BY ArraysAssumption, SeqIsFunction
      <4>2. calls[n].arrays \in Len(Arrays)..Len(mem)
        BY <2>3 DEF CallOK
      <4> QED BY <2>2, <4>1, <4>2
    <3> QED BY <1>1, <2>3, <3>1, <3>2 DEF CallOK
  <2> QED BY <1>1, <1>2, <2>1, <2>3 DEF PlacesInv, CallsOK
<1>5. TogetherOK'
  BY <1>1, <1>2 DEF PlacesInv, TogetherOK
<1>6. ASSUME NEW d \in Client PROVE ProgramOK(d)'
  BY <1>1 DEF PlacesInv, ProgramOK, Req
<1>7. ASSUME NEW d \in Client, d # c PROVE RetOK(d)' /\ PiecesOK(d)'
  <2>1. /\ work'[d] = work[d] /\ todo'[d] = todo[d] /\ Req(d)' = Req(d) /\ (Owns(d)' <=> Owns(d))
        /\ \A s : Ahead(d, s)' <=> Ahead(d, s)
    BY <1>1, <1>7 DEF Req, Owns, Ahead
  <2>2. \A s : Within(mem, s) => Within(mem', s)
    BY WithinGrows
  <2>3. RetOK(d)'
    BY <1>1, <2>1, <2>2 DEF PlacesInv, RetOK
  <2>4. PiecesOK(d)'
    BY <1>1, <2>1 DEF PlacesInv, PiecesOK
  <2> QED BY <2>3, <2>4
<1> QED BY <1>3, <1>4, <1>5, <1>6, <1>7

\* The order of the steps, for a call that has some of them ahead.
SealAt(s, n, l) ==
  LET h == Head(s)
  IN /\ Has(s, "Extend") => Has(s, "TakeIV")
     /\ Has(s, "TakeIV") => Has(s, "CopyText")
     /\ Has(s, "CopyText") => Has(s, "BuildMAC")
     /\ Has(s, "BuildMAC") => Has(s, "CopyTag")
     /\ h = "Extend" => Has(s, "Extend")
     /\ h = "TakeIV" => Has(s, "TakeIV") /\ ~Has(s, "Extend") /\ l = n + 5
     /\ h = "Crypt" => Has(s, "CopyText") /\ ~Has(s, "TakeIV")
     /\ h = "CopyText" => Has(s, "CopyText") /\ ~Has(s, "TakeIV") /\ l = 4
     /\ h = "BuildMAC" => Has(s, "BuildMAC") /\ ~Has(s, "CopyText")
     /\ h = "CopyTag" => Has(s, "CopyTag") /\ ~Has(s, "BuildMAC")
     /\ h = "Return" => ~Has(s, "CopyTag")
     /\ h # "Verify"

OpenAt(s, n, l) ==
  LET h == Head(s)
  IN /\ Has(s, "BuildMAC") => Has(s, "Verify")
     /\ Has(s, "Verify") => Has(s, "Extend")
     /\ Has(s, "Extend") => Has(s, "TakeIV")
     /\ Has(s, "TakeIV") => Has(s, "CopyText")
     /\ h = "BuildMAC" => Has(s, "BuildMAC")
     /\ h = "Verify" => Has(s, "Verify") /\ ~Has(s, "BuildMAC")
     /\ h = "Extend" => Has(s, "Extend") /\ ~Has(s, "Verify")
     /\ h = "TakeIV" => Has(s, "TakeIV") /\ ~Has(s, "Extend") /\ l = n + 3
     /\ h = "Crypt" => Has(s, "CopyText") /\ ~Has(s, "TakeIV")
     /\ h = "CopyText" => Has(s, "CopyText") /\ ~Has(s, "TakeIV") /\ l = 2
     /\ h = "Return" => ~Has(s, "CopyText")
     /\ h # "CopyTag"

\* The steps of Seal come in their order.
LEMMA SealOrder ==
  ASSUME NEW s, NEW n \in Nat, SealEnd(s, n)
  PROVE  SealAt(s, n, Len(s))
<1> DEFINE k == Len(s)
<1>1. k \in 1..(n + 6)
  BY DEF SealEnd
<1>2. k \in Nat
  BY <1>1
<1> HIDE DEF k
<1>3. /\ Head(s) = "Extend" <=> k = n + 6
      /\ Head(s) = "TakeIV" <=> k = n + 5
      /\ Head(s) = "CopyText" <=> k = 4
      /\ Head(s) = "BuildMAC" <=> k = 3
      /\ Head(s) = "CopyTag" <=> k = 2
      /\ Head(s) = "Return" <=> k = 1
  BY DEF SealEnd, LeftAt, k
<1>4. /\ Has(s, "Extend") <=> k >= n + 6
      /\ Has(s, "TakeIV") <=> k >= n + 5
      /\ Has(s, "CopyText") <=> k >= 4
      /\ Has(s, "BuildMAC") <=> k >= 3
      /\ Has(s, "CopyTag") <=> k >= 2
  BY DEF SealEnd, LeftAt, k
<1>5. (Head(s) = "Crypt" => k \in 5..(n + 4)) /\ Head(s) # "Verify"
  BY DEF SealEnd, k
<1>6. SealAt(s, n, k)
  BY <1>2, <1>3, <1>4, <1>5 DEF SealAt
<1> QED BY <1>6 DEF k

\* The steps of Open come in their order.
LEMMA OpenOrder ==
  ASSUME NEW s, NEW n \in Nat, OpenEnd(s, n)
  PROVE  OpenAt(s, n, Len(s))
<1> DEFINE k == Len(s)
<1>1. k \in 1..(n + 6)
  BY DEF OpenEnd
<1>2. k \in Nat
  BY <1>1
<1> HIDE DEF k
<1>3. /\ Head(s) = "BuildMAC" <=> k = n + 6
      /\ Head(s) = "Verify" <=> k = n + 5
      /\ Head(s) = "Extend" <=> k = n + 4
      /\ Head(s) = "TakeIV" <=> k = n + 3
      /\ Head(s) = "CopyText" <=> k = 2
      /\ Head(s) = "Return" <=> k = 1
  BY DEF OpenEnd, LeftAt, k
<1>4. /\ Has(s, "BuildMAC") <=> k >= n + 6
      /\ Has(s, "Verify") <=> k >= n + 5
      /\ Has(s, "Extend") <=> k >= n + 4
      /\ Has(s, "TakeIV") <=> k >= n + 3
      /\ Has(s, "CopyText") <=> k >= 2
  BY DEF OpenEnd, LeftAt, k
<1>5. (Head(s) = "Crypt" => k \in 3..(n + 2)) /\ Head(s) # "CopyTag"
  BY DEF OpenEnd, k
<1>6. OpenAt(s, n, k)
  BY <1>2, <1>3, <1>4, <1>5 DEF OpenAt
<1> QED BY <1>6 DEF k

\* The steps of a running call come in their order.
LEMMA Order ==
  ASSUME PlacesInv, NEW c \in Client, cur[c] # 0
  PROVE  /\ RunOK(c) /\ Len(todo[c]) \in Nat /\ Body(Req(c)).len \in Nat
         /\ Req(c).op \in {"Seal", "Open"}
         /\ Req(c).op = "Seal" => SealAt(todo[c], Body(Req(c)).len, Len(todo[c]))
         /\ Req(c).op = "Open" => OpenAt(todo[c], Body(Req(c)).len, Len(todo[c]))
         /\ \A s : Ahead(c, s) <=> Has(todo[c], s)
<1>1. /\ RunOK(c) /\ Body(Req(c)).len \in Nat /\ Req(c).op \in {"Seal", "Open"}
      /\ Req(c).op = "Seal" => SealEnd(todo[c], Body(Req(c)).len)
      /\ Req(c).op = "Open" => OpenEnd(todo[c], Body(Req(c)).len)
  BY Runs DEF RunOK
<1>2. \A s : Ahead(c, s) <=> Has(todo[c], s)
  BY DEF Has, Ahead
<1>3. Len(todo[c]) \in Nat
  <2>1. IsSeq(todo[c])
    BY DEF PlacesInv, TypeOK
  <2> QED BY <2>1, SeqIsFunction
<1> QED BY <1>1, <1>2, <1>3, SealOrder, OpenOrder

\* A step that leaves ret alone.
LEMMA ProceedPlaces ==
  ASSUME PlacesInv, NEW c \in Client, NEW step, AtStep(c, step), step # "Return", step # "Extend",
         Proceed(c), Grows(mem, mem'), DOMAIN work' = Client,
         \A d \in Client : d # c => work'[d] = work[d],
         work'[c].ret = work[c].ret, DOMAIN work'[c] = DOMAIN NoWork, IsSeq(work'[c].out), PiecesOK(c)'
  PROVE  PlacesInv'
<1>1. work'[c].ret \in Slice
  BY DEF PlacesInv, TypeOK
<1>2. /\ TypeOK' /\ CallsOK' /\ TogetherOK' /\ \A d \in Client : ProgramOK(d)'
      /\ \A d \in Client : d # c => RetOK(d)' /\ PiecesOK(d)'
  BY <1>1, ProceedOthers
<1>3. cur' = cur /\ calls' = calls /\ cur[c] # 0 /\ Head(todo[c]) = step
  BY Goes
<1>4. RetOK(c)'
  <2>1. Ahead(c, "Extend")' <=> Ahead(c, "Extend")
    BY <1>3, Aheads DEF StillAhead
  <2>2. Req(c)' = Req(c) /\ (Owns(c)' <=> Owns(c))
    BY <1>3 DEF Req, Owns
  <2>3. \A s : Within(mem, s) => Within(mem', s)
    BY WithinGrows
  <2> QED BY <1>3, <2>1, <2>2, <2>3 DEF PlacesInv, RetOK
<1>5. \A d \in Client : work'[d].ret = work[d].ret
  OBVIOUS
<1>6. ASSUME NEW d \in Client PROVE OwnOK(d)'
  BY <1>3, <1>5 DEF PlacesInv, OwnOK, Owns
<1> QED BY <1>2, <1>4, <1>6 DEF PlacesInv

\* So many pieces have been gathered when the steps in s are ahead.
Gathered(op, s, n, l, a, out) ==
  /\ op \in {"Seal", "Open"} /\ n \in Nat /\ l \in Nat /\ out \in Nat
  /\ op = "Seal" => SealAt(s, n, l) /\ a = 4
  /\ op = "Open" => OpenAt(s, n, l) /\ a = 2
  /\ out = IF Has(s, "TakeIV") THEN 0 ELSE IF Has(s, "CopyText") THEN n + a - l ELSE n

\* ... and so many when one more step has been taken.
LEMMA GatheredLeft ==
  ASSUME NEW op, NEW s, NEW n, NEW l, NEW a, NEW out, Gathered(op, s, n, l, a, out),
         Head(s) # "Return", NEW k, k = IF Head(s) = "Crypt" THEN 1 ELSE 0,
         Head(s) \in {"Extend", "TakeIV", "Crypt", "CopyText", "BuildMAC", "CopyTag", "Verify"}
  PROVE  out + k = IF Has(s, "TakeIV") /\ Head(s) # "TakeIV" THEN 0
                   ELSE IF Has(s, "CopyText") /\ Head(s) # "CopyText" THEN n + a - (l - 1) ELSE n
<1> USE DEF Gathered
<1>1. CASE op = "Seal"
  <2>1. SealAt(s, n, l) /\ a = 4
    BY <1>1
  <2>2. CASE Head(s) = "Extend"
    BY <2>1, <2>2 DEF SealAt
  <2>3. CASE Head(s) = "TakeIV"
    BY <2>1, <2>3 DEF SealAt
  <2>4. CASE Head(s) = "Crypt"
    BY <2>1, <2>4 DEF SealAt
  <2>5. CASE Head(s) = "CopyText"
    BY <2>1, <2>5 DEF SealAt
  <2>6. CASE Head(s) \in {"BuildMAC", "CopyTag"}
    BY <2>1, <2>6 DEF SealAt
  <2> QED BY <2>1, <2>2, <2>3, <2>4, <2>5, <2>6 DEF SealAt
<1>2. CASE op = "Open"
  <2>1. OpenAt(s, n, l) /\ a = 2
    BY <1>2
  <2>2. CASE Head(s) = "TakeIV"
    BY <2>1, <2>2 DEF OpenAt
  <2>3. CASE Head(s) = "Crypt"
    BY <2>1, <2>3 DEF OpenAt
  <2>4. CASE Head(s) = "CopyText"
    BY <2>1, <2>4 DEF OpenAt
  <2>5. CASE Head(s) \in {"Extend", "BuildMAC", "Verify"}
    BY <2>1, <2>5 DEF OpenAt
  <2> QED BY <2>1, <2>2, <2>3, <2>4, <2>5 DEF OpenAt
<1> QED BY <1>1, <1>2

\* The count of gathered pieces stays right if a Crypt adds one and no other
\* step does.
LEMMA PiecesLeft ==
  ASSUME PlacesInv, NEW c \in Client, NEW step, AtStep(c, step), Proceed(c), step # "Return",
         NEW k \in Nat, k = IF step = "Crypt" THEN 1 ELSE 0,
         Len(work'[c].out) = Len(work[c].out) + k,
         step \in {"Extend", "TakeIV", "Crypt", "CopyText", "BuildMAC", "CopyTag", "Verify"}
  PROVE  PiecesOK(c)'
<1> DEFINE n == Body(Req(c)).len
<1>1. /\ cur' = cur /\ calls' = calls /\ cur[c] # 0 /\ Head(todo[c]) = step
      /\ Len(todo'[c]) = Len(todo[c]) - 1
  BY Goes
<1>2. /\ Len(todo[c]) \in Nat /\ n \in Nat /\ Req(c).op \in {"Seal", "Open"}
      /\ Req(c).op = "Seal" => SealAt(todo[c], n, Len(todo[c]))
      /\ Req(c).op = "Open" => OpenAt(todo[c], n, Len(todo[c]))
      /\ \A s : Ahead(c, s) <=> Has(todo[c], s)
  BY <1>1, Order
<1>3. Req(c)' = Req(c)
  BY <1>1 DEF Req
<1>4. /\ Ahead(c, "TakeIV")' <=> Ahead(c, "TakeIV") /\ step # "TakeIV"
      /\ Ahead(c, "CopyText")' <=> Ahead(c, "CopyText") /\ step # "CopyText"
  BY <1>1, Aheads DEF StillAhead
<1>5. Len(work[c].out) =
        IF Has(todo[c], "TakeIV") THEN 0
        ELSE IF Has(todo[c], "CopyText") THEN n + After(Req(c)) - Len(todo[c]) ELSE n
  BY <1>1, <1>2 DEF PlacesInv, PiecesOK
<1>6. Len(work[c].out) \in Nat
  <2>1. IsSeq(work[c].out)
    BY DEF PlacesInv, TypeOK
  <2> QED BY <2>1, SeqIsFunction
<1> HIDE DEF n
<1>7. Len(work'[c].out) =
        IF Has(todo[c], "TakeIV") /\ step # "TakeIV" THEN 0
        ELSE IF Has(todo[c], "CopyText") /\ step # "CopyText" THEN n + After(Req(c)) - Len(todo'[c]) ELSE n
  <2> DEFINE s == todo[c]
             l == Len(s)
             a == After(Req(c))
             out == Len(work[c].out)
             op == Req(c).op
  <2>1. a = IF op = "Seal" THEN 4 ELSE 2
    BY DEF After
  <2>2. l \in Nat /\ n \in Nat /\ op \in {"Seal", "Open"} /\ out \in Nat
    BY <1>2, <1>6
  <2>3. (op = "Seal" => SealAt(s, n, l)) /\ (op = "Open" => OpenAt(s, n, l))
    BY <1>2
  <2>4. out = IF Has(s, "TakeIV") THEN 0 ELSE IF Has(s, "CopyText") THEN n + a - l ELSE n
    BY <1>5
  <2>5. Head(s) = step
    BY <1>1
  <2>6. Len(work'[c].out) = out + k /\ Len(todo'[c]) = l - 1
    BY <1>1
  <2> HIDE DEF s, l, a, out, op
  <2>7. /\ Head(s) # "Return" /\ k = IF Head(s) = "Crypt" THEN 1 ELSE 0
        /\ Head(s) \in {"Extend", "TakeIV", "Crypt", "CopyText", "BuildMAC", "CopyTag", "Verify"}
    BY <2>5
  <2>8. Gathered(op, s, n, l, a, out)
    BY <2>1, <2>2, <2>3, <2>4 DEF Gathered
  <2>9. out + k = IF Has(s, "TakeIV") /\ Head(s) # "TakeIV" THEN 0
                  ELSE IF Has(s, "CopyText") /\ Head(s) # "CopyText" THEN n + a - (l - 1) ELSE n
    BY <2>7, <2>8, GatheredLeft
  <2> QED BY <2>5, <2>6, <2>9 DEF s, a
<1> QED BY <1>1, <1>2, <1>3, <1>4, <1>7 DEF PiecesOK, n

-----------------------------------------------------------------------------
(* What the steps of a call write.                                          *)

\* Only cells in the footprint of c's call change, or in its own array.
Writes(c) ==
  \A a \in DOMAIN mem : \A j \in 1..Len(mem[a]) : mem'[a][j] # mem[a][j] =>
    <<a, j>> \in Footprint(Req(c)) \/ (Owns(c) /\ a = work[c].ret.arr)

\* The output is in an array there is, in dst's or in one of its own.
RetAt(c) ==
  LET r == Req(c)
      ret == work[c].ret
  IN /\ Within(mem, ret) /\ ret.len = r.dst.len + Room(r)
     /\ \/ Fits(r.dst, Room(r)) /\ ret = Upto(r.dst, r.dst.len + Room(r))
        \/ Owns(c)

\* Once Extend is done, the output is there.
LEMMA RetFacts ==
  ASSUME PlacesInv, NEW c \in Client, cur[c] # 0, ~Ahead(c, "Extend")
  PROVE  RetAt(c)
<1> DEFINE r == Req(c)
           ret == work[c].ret
<1>1. /\ RunOK(c) /\ Within(mem, r.dst) /\ Room(r) \in Nat /\ r.dst \in Slice
      /\ r.dst.len \in Nat /\ r.dst.cap \in Nat
  <2>1. RunOK(c)
    BY Runs
  <2> QED BY <2>1 DEF RunOK, Argument, Within, Slice
<1>2. IF Fits(r.dst, Room(r)) THEN ret = Upto(r.dst, r.dst.len + Room(r))
      ELSE Owns(c) /\ Within(mem, ret) /\ ret.len = r.dst.len + Room(r)
  BY DEF PlacesInv, RetOK
<1>3. CASE Fits(r.dst, Room(r))
  <2>1. r.dst.len + Room(r) \in 0..r.dst.cap /\ r.dst.len + Room(r) \in Nat
    BY <1>1, <1>3 DEF Fits
  <2>2. Within(mem, Upto(r.dst, r.dst.len + Room(r)))
    BY <1>1, <2>1, SlicesWithin
  <2>3. Upto(r.dst, r.dst.len + Room(r)).len = r.dst.len + Room(r)
    BY <1>1, <2>1, UptoFields
  <2> QED BY <1>2, <1>3, <2>2, <2>3 DEF RetAt
<1>4. CASE ~Fits(r.dst, Room(r))
  BY <1>2, <1>4 DEF RetAt
<1> QED BY <1>3, <1>4

\* The part of the output behind dst, from its cell k on.
LEMMA OutputRest ==
  ASSUME PlacesInv, NEW c \in Client, cur[c] # 0, RetAt(c), NEW k \in 0..Room(Req(c)),
         NEW s, s = From(work[c].ret, Req(c).dst.len + k)
  PROVE  /\ Within(mem, s) /\ s.len = Room(Req(c)) - k /\ s.arr = work[c].ret.arr
         /\ s.off = work[c].ret.off + Req(c).dst.len + k /\ s.off \in Nat
         /\ work[c].ret.off \in Nat /\ Req(c).dst.len \in Nat /\ Room(Req(c)) \in Nat
         /\ \A a, j : j \in Nat /\ <<a, j>> \in Window(s) =>
              <<a, j>> \in OutputFootprint(Req(c)) \/ (Owns(c) /\ a = work[c].ret.arr)
<1> DEFINE r == Req(c)
           ret == work[c].ret
           d == r.dst.len
           n == Room(r)
<1>1. r.dst \in Slice /\ d \in Nat /\ n \in Nat /\ Within(mem, ret) /\ ret.len = d + n /\ ret \in Slice
  <2>1. RunOK(c)
    BY Runs
  <2>2. Within(mem, r.dst) /\ n \in Nat
    BY <2>1 DEF RunOK, Argument
  <2> QED BY <2>2 DEF RetAt, Within, Slice
<1>2. k \in Nat /\ d + k \in 0..ret.len /\ d \in 0..ret.len
  BY <1>1
<1>3. /\ s.arr = ret.arr /\ s.off = ret.off + (d + k) /\ s.len = ret.len - (d + k)
      /\ ret.off \in Nat /\ ret.len \in Nat
  BY <1>1, <1>2, SliceFields
<1>4. Within(mem, s)
  BY <1>1, <1>2, SlicesWithin
<1>5. s.len = n - k /\ s.off = ret.off + d + k /\ s.off \in Nat /\ s.len \in Nat
  BY <1>1, <1>2, <1>3
<1>6. ASSUME NEW a, NEW j, j \in Nat, <<a, j>> \in Window(s)
      PROVE  <<a, j>> \in OutputFootprint(r) \/ (Owns(c) /\ a = ret.arr)
  <2>1. a = ret.arr /\ s.off < j /\ j <= s.off + s.len
    BY <1>3, <1>5, <1>6, InWindow
  <2>2. CASE Owns(c)
    BY <2>1, <2>2
  <2>3. CASE ~Owns(c)
    <3>1. Fits(r.dst, n) /\ ret = Upto(r.dst, d + n)
      BY <2>3 DEF RetAt
    <3>2. Behind(r.dst, n) = From(ret, d)
      BY <3>1 DEF Behind
    <3>3. /\ From(ret, d).arr = ret.arr /\ From(ret, d).off = ret.off + d
          /\ From(ret, d).len = ret.len - d
      BY <1>1, <1>2, SliceFields
    <3>4. From(ret, d).len = n /\ From(ret, d).off \in Nat
      BY <1>1, <1>3, <3>3
    <3>5. From(ret, d).off < j /\ j <= From(ret, d).off + n
      BY <1>1, <1>2, <1>3, <1>5, <1>6, <2>1, <3>3
    <3>6. <<a, j>> \in Window(From(ret, d))
      BY <1>1, <1>6, <2>1, <3>3, <3>4, <3>5, InWindow
    <3> QED BY <3>1, <3>2, <3>6 DEF OutputFootprint
  <2> QED BY <2>2, <2>3
<1> QED BY <1>1, <1>3, <1>4, <1>5, <1>6

\* Memory that does not change is still memory.
LEMMA GrowsSame ==
  ASSUME PlacesInv
  PROVE  Memory(mem) /\ Grows(mem, mem)
BY DEF PlacesInv, TypeOK, Memory, Grows

\* The local variables of a call.
LEMMA WorkFields ==
  ASSUME PlacesInv, NEW c \in Client
  PROVE  /\ DOMAIN work = Client /\ DOMAIN work[c] = {"ret", "iv", "out", "mac"}
         /\ IsSeq(work[c].out) /\ Len(work[c].out) \in Nat /\ work[c].ret \in Slice
<1>1. DOMAIN work = Client /\ DOMAIN work[c] = DOMAIN NoWork /\ IsSeq(work[c].out) /\ work[c].ret \in Slice
  BY DEF PlacesInv, TypeOK
<1> QED BY <1>1, SeqIsFunction DEF NoWork

\* TakeIV writes no memory and keeps the places right.
LEMMA TakeIVPlaces ==
  ASSUME PlacesInv, NEW c \in Client, TakeIV(c)
  PROVE  PlacesInv' /\ Writes(c)
<1>1. AtStep(c, "TakeIV") /\ Proceed(c) /\ mem' = mem
  BY DEF TakeIV
<1>2. /\ DOMAIN work' = Client /\ \A d \in Client : d # c => work'[d] = work[d]
      /\ work'[c].ret = work[c].ret /\ DOMAIN work'[c] = DOMAIN NoWork /\ work'[c].out = work[c].out
  BY WorkFields DEF TakeIV, NoWork
<1>3. PiecesOK(c)'
  <2>1. Len(work'[c].out) = Len(work[c].out) + 0
    BY <1>2, WorkFields
  <2> QED BY <1>1, <2>1, PiecesLeft
<1>4. PlacesInv'
  BY <1>1, <1>2, <1>3, WorkFields, GrowsSame, ProceedPlaces
<1> QED BY <1>1, <1>4 DEF Writes

\* BuildMAC, too, only reads.
LEMMA BuildMACPlaces ==
  ASSUME PlacesInv, NEW c \in Client, BuildMAC(c)
  PROVE  PlacesInv' /\ Writes(c)
<1>1. AtStep(c, "BuildMAC") /\ Proceed(c) /\ mem' = mem
  BY DEF BuildMAC
<1>2. /\ DOMAIN work' = Client /\ \A d \in Client : d # c => work'[d] = work[d]
      /\ work'[c].ret = work[c].ret /\ DOMAIN work'[c] = DOMAIN NoWork /\ work'[c].out = work[c].out
  BY WorkFields DEF BuildMAC, NoWork
<1>3. PiecesOK(c)'
  <2>1. Len(work'[c].out) = Len(work[c].out) + 0
    BY <1>2, WorkFields
  <2> QED BY <1>1, <2>1, PiecesLeft
<1>4. PlacesInv'
  BY <1>1, <1>2, <1>3, WorkFields, GrowsSame, ProceedPlaces
<1> QED BY <1>1, <1>4 DEF Writes

\* A piece that comes back is gathered and written nowhere.
LEMMA CryptPlaces ==
  ASSUME PlacesInv, NEW c \in Client, CryptPiece(c)
  PROVE  /\ PlacesInv' /\ Writes(c)
         /\ LET i == Len(work[c].out) + 1
            IN Longer(work'[c].out, work[c].out, Crypt(work[c].iv, i, Content(mem, Body(Req(c)))[i]))
<1> DEFINE i == Len(work[c].out) + 1
           cell == Crypt(work[c].iv, i, Content(mem, Body(Req(c)))[i])
<1>1. AtStep(c, "Crypt") /\ Proceed(c) /\ mem' = mem
  BY DEF CryptPiece
<1>2. /\ DOMAIN work' = Client /\ \A d \in Client : d # c => work'[d] = work[d]
      /\ work'[c].ret = work[c].ret /\ DOMAIN work'[c] = DOMAIN NoWork
      /\ work'[c].out = Append(work[c].out, cell)
  <2>1. work' = [work EXCEPT ![c].out = Append(@, cell)]
    BY DEF CryptPiece
  <2> HIDE DEF cell
  <2> QED BY <2>1, WorkFields DEF NoWork
<1>3. Longer(work'[c].out, work[c].out, cell)
  <2> HIDE DEF cell
  <2> QED BY <1>2, WorkFields, AppendFacts
<1>4. PiecesOK(c)'
  <2>1. Len(work'[c].out) = Len(work[c].out) + 1
    BY <1>3 DEF Longer
  <2> QED BY <1>1, <2>1, PiecesLeft
<1>5. PlacesInv'
  <2>1. IsSeq(work'[c].out)
    BY <1>3 DEF Longer
  <2> QED BY <1>1, <1>2, <1>4, <2>1, GrowsSame, ProceedPlaces
<1> QED BY <1>1, <1>3, <1>5 DEF Writes

\* Verify reads, and goes on if the tags agree.
LEMMA VerifiedPlaces ==
  ASSUME PlacesInv, NEW c \in Client, Verify(c), Content(mem, ExpectedTag(Req(c))) = Tag(work[c].mac)
  PROVE  PlacesInv' /\ Writes(c)
<1>1. AtStep(c, "Verify") /\ Proceed(c) /\ mem' = mem /\ work' = work
  BY DEF Verify
<1>2. PiecesOK(c)'
  <2>1. Len(work'[c].out) = Len(work[c].out) + 0
    BY <1>1, WorkFields
  <2> QED BY <1>1, <2>1, PiecesLeft
<1>3. PlacesInv'
  <2>1. DOMAIN work' = Client /\ DOMAIN work'[c] = DOMAIN NoWork /\ IsSeq(work'[c].out)
    BY <1>1, WorkFields DEF NoWork
  <2> QED BY <1>1, <1>2, <2>1, GrowsSame, ProceedPlaces
<1> QED BY <1>1, <1>3 DEF Writes

\* data has been copied to s, a part of the output.
Copied(c, s, data) ==
  /\ RetAt(c) /\ Grows(mem, mem')
  /\ \A a \in DOMAIN mem : \A j \in 1..Len(mem[a]) : mem'[a][j] # mem[a][j] =>
       /\ <<a, j>> \in Window(s)
       /\ <<a, j>> \in OutputFootprint(Req(c)) \/ (Owns(c) /\ a = work[c].ret.arr)
  /\ \A i \in 1..Len(data) : mem'[s.arr][s.off + i] = data[i]

\* copy of data to the output, from its cell k behind dst on.
LEMMA CopyPlaces ==
  ASSUME PlacesInv, NEW c \in Client, NEW step \in {"CopyText", "CopyTag"}, AtStep(c, step), Proceed(c),
         work' = work, NEW k \in 0..Room(Req(c)), NEW data, IsSeq(data), Len(data) <= Room(Req(c)) - k,
         NEW s, s = From(work[c].ret, Req(c).dst.len + k), mem' = Stored(mem, s, data)
  PROVE  PlacesInv' /\ Writes(c) /\ Copied(c, s, data)
<1>1. cur[c] # 0 /\ Head(todo[c]) = step
  BY DEF AtStep
<1>2. RetAt(c)
  <2>1. /\ Req(c).op \in {"Seal", "Open"} /\ \A x : Ahead(c, x) <=> Has(todo[c], x)
        /\ Req(c).op = "Seal" => SealAt(todo[c], Body(Req(c)).len, Len(todo[c]))
        /\ Req(c).op = "Open" => OpenAt(todo[c], Body(Req(c)).len, Len(todo[c]))
    BY <1>1, Order
  <2>2. ~Has(todo[c], "Extend")
    BY <1>1, <2>1 DEF SealAt, OpenAt
  <2> QED BY <1>1, <2>1, <2>2, RetFacts
<1>3. /\ Within(mem, s) /\ s.len = Room(Req(c)) - k
      /\ \A a, j : j \in Nat /\ <<a, j>> \in Window(s) =>
              <<a, j>> \in OutputFootprint(Req(c)) \/ (Owns(c) /\ a = work[c].ret.arr)
  BY <1>1, <1>2, OutputRest
<1>4. /\ Grows(mem, mem')
      /\ \A a \in DOMAIN mem : \A j \in 1..Len(mem[a]) : mem'[a][j] # mem[a][j] => <<a, j>> \in Window(s)
      /\ \A i \in 1..Len(data) : mem'[s.arr][s.off + i] = data[i]
  <2>1. Memory(mem)
    BY GrowsSame
  <2>2. Within(mem, s) /\ Len(data) <= s.len
    BY <1>3
  <2> QED BY <2>1, <2>2, StoredFacts
<1>5. PiecesOK(c)'
  <2>1. Len(work'[c].out) = Len(work[c].out) + 0
    BY WorkFields
  <2> QED BY <2>1, PiecesLeft
<1>6. PlacesInv'
  <2>1. DOMAIN work' = Client /\ DOMAIN work'[c] = DOMAIN NoWork /\ IsSeq(work'[c].out)
    BY WorkFields DEF NoWork
  <2> QED BY <1>4, <1>5, <2>1, ProceedPlaces
<1>7. \A a \in DOMAIN mem : \A j \in 1..Len(mem[a]) : mem'[a][j] # mem[a][j] =>
              /\ <<a, j>> \in Window(s)
              /\ <<a, j>> \in OutputFootprint(Req(c)) \/ (Owns(c) /\ a = work[c].ret.arr)
  <2> SUFFICES ASSUME NEW a \in DOMAIN mem, NEW j \in 1..Len(mem[a]), mem'[a][j] # mem[a][j]
               PROVE  /\ <<a, j>> \in Window(s)
                      /\ <<a, j>> \in OutputFootprint(Req(c)) \/ (Owns(c) /\ a = work[c].ret.arr)
    OBVIOUS
  <2>1. <<a, j>> \in Window(s)
    BY <1>4
  <2>2. j \in Nat
    OBVIOUS
  <2> QED BY <1>3, <2>1, <2>2
<1>8. Writes(c)
  BY <1>7 DEF Writes, Footprint
<1> QED BY <1>2, <1>4, <1>6, <1>7, <1>8 DEF Copied

\* CopyText writes the gathered text behind dst, in the output.
LEMMA CopyTextPlaces ==
  ASSUME PlacesInv, NEW c \in Client, CopyText(c)
  PROVE  /\ PlacesInv' /\ Writes(c)
         /\ Copied(c, From(work[c].ret, Req(c).dst.len), work[c].out)
         /\ Len(work[c].out) = Body(Req(c)).len
<1> DEFINE r == Req(c)
           n == Body(r).len
           out == work[c].out
<1>1. /\ AtStep(c, "CopyText") /\ Proceed(c) /\ work' = work /\ cur[c] # 0
      /\ mem' = Stored(mem, From(work[c].ret, r.dst.len), out)
  BY DEF CopyText, AtStep
<1>2. /\ RunOK(c) /\ r.op \in {"Seal", "Open"} /\ \A x : Ahead(c, x) <=> Has(todo[c], x)
      /\ Head(todo[c]) = "CopyText" /\ n \in Nat
      /\ r.op = "Seal" => SealAt(todo[c], n, Len(todo[c]))
      /\ r.op = "Open" => OpenAt(todo[c], n, Len(todo[c]))
  BY <1>1, Order DEF AtStep
<1>3. Len(out) = n
  <2>1. Ahead(c, "CopyText") /\ ~Ahead(c, "TakeIV") /\ Len(todo[c]) = After(r)
    BY <1>2 DEF SealAt, OpenAt, After
  <2>2. Len(out) = n + After(r) - Len(todo[c])
    BY <1>1, <2>1 DEF PlacesInv, PiecesOK
  <2>3. After(r) \in Nat
    BY DEF After
  <2> QED BY <1>2, <2>1, <2>2, <2>3
<1>4. r.dst.len \in Nat /\ Room(r) \in Nat /\ n <= Room(r)
  <2>1. Within(mem, r.dst) /\ Within(mem, r.text)
    BY <1>2 DEF RunOK, Argument
  <2>2. r.dst.len \in Nat /\ r.text.len \in Nat
    BY <2>1 DEF Within, Slice
  <2>3. Room(r) \in Nat /\ (r.op = "Seal" => n = r.text.len /\ Room(r) = r.text.len + tagSize)
        /\ (r.op = "Open" => Room(r) = n)
    BY <1>2 DEF RunOK
  <2> QED BY <1>2, <2>2, <2>3, Sizes
<1>5. r.dst.len + 0 = r.dst.len /\ 0 \in 0..Room(r) /\ Len(out) <= Room(r) - 0
  BY <1>2, <1>3, <1>4
<1> DEFINE s == From(work[c].ret, r.dst.len)
<1>6. s = From(work[c].ret, r.dst.len + 0)
  BY <1>5
<1>7. PlacesInv' /\ Writes(c) /\ Copied(c, s, out)
  <2>1. IsSeq(out)
    BY WorkFields
  <2>2. mem' = Stored(mem, s, out)
    BY <1>1
  <2> HIDE DEF out, s
  <2> QED BY <1>1, <1>5, <1>6, <2>1, <2>2, CopyPlaces
<1> QED BY <1>3, <1>7

\* A tag has tagSize cells.
LEMMA TagFacts ==
  ASSUME NEW mac
  PROVE  /\ IsSeq(Tag(mac)) /\ Len(Tag(mac)) = tagSize
         /\ \A i \in 1..tagSize : Tag(mac)[i] = [mac |-> mac, part |-> i]
<1> DEFINE t == Tag(mac)
<1>1. t = [i \in 1..tagSize |-> t[i]] /\ \A i \in 1..tagSize : t[i] = [mac |-> mac, part |-> i]
  BY DEF Tag
<1> HIDE DEF t
<1>2. IsSeq(t) /\ Len(t) = tagSize
  BY <1>1, FunctionIsSeq, Sizes
<1> QED BY <1>1, <1>2 DEF t

\* CopyTag writes the tag behind the text, in the output.
LEMMA CopyTagPlaces ==
  ASSUME PlacesInv, NEW c \in Client, CopyTag(c)
  PROVE  /\ PlacesInv' /\ Writes(c) /\ Req(c).op = "Seal"
         /\ Copied(c, From(work[c].ret, Req(c).dst.len + Req(c).text.len), Tag(work[c].mac))
<1> DEFINE r == Req(c)
           n == r.text.len
           s == From(work[c].ret, r.dst.len + n)
           tag == Tag(work[c].mac)
<1>1. /\ AtStep(c, "CopyTag") /\ Proceed(c) /\ work' = work /\ cur[c] # 0 /\ Head(todo[c]) = "CopyTag"
      /\ mem' = Stored(mem, s, tag)
  BY DEF CopyTag, AtStep
<1>2. RunOK(c) /\ r.op \in {"Seal", "Open"} /\ (r.op = "Open" => OpenAt(todo[c], Body(r).len, Len(todo[c])))
  BY <1>1, Order
<1>3. r.op = "Seal"
  BY <1>1, <1>2 DEF OpenAt
<1>4. n \in Nat /\ Room(r) = n + tagSize
  BY <1>2, <1>3 DEF RunOK
<1>5. n \in 0..Room(r) /\ tagSize <= Room(r) - n
  BY <1>4, Sizes
<1>6. IsSeq(tag) /\ Len(tag) = tagSize
  BY TagFacts
<1>7. PlacesInv' /\ Writes(c) /\ Copied(c, s, tag)
  <2>1. s = From(work[c].ret, r.dst.len + n)
    OBVIOUS
  <2> HIDE DEF s, tag, n
  <2> QED BY <1>1, <1>5, <1>6, <2>1, CopyPlaces
<1> QED BY <1>3, <1>7

\* There is an array, and the nil slice is in it.
LEMMA FirstArray ==
  ASSUME PlacesInv
  PROVE  /\ 1 \in DOMAIN mem /\ Within(mem, Nil) /\ DOMAIN mem = 1..Len(mem) /\ Len(mem) \in Nat
         /\ DOMAIN Arrays = 1..Len(Arrays) /\ Len(Arrays) \in Nat /\ 1 \in DOMAIN Arrays
<1>1. DOMAIN Arrays = 1..Len(Arrays) /\ Len(Arrays) \in Nat /\ Len(Arrays) # 0
  BY ArraysAssumption, SeqIsFunction, EmptyLen
<1>2. DOMAIN mem = 1..Len(mem) /\ Len(mem) \in Nat
  BY SeqIsFunction DEF PlacesInv, TypeOK
<1>3. 1 \in DOMAIN Arrays /\ 1 \in DOMAIN mem
  BY <1>1 DEF PlacesInv, CallsOK
<1>4. Len(mem[1]) \in Nat
  BY <1>3, SeqIsFunction DEF PlacesInv, TypeOK
<1>5. Nil \in Slice /\ Nil.arr = 1 /\ Nil.off = 0 /\ Nil.len = 0 /\ Nil.cap = 0
  BY DEF Nil, Slice
<1> QED BY <1>1, <1>2, <1>3, <1>4, <1>5 DEF Within

\* The output of a running call is in an array there is.
LEMMA RetArray ==
  ASSUME PlacesInv, NEW c \in Client
  PROVE  work[c].ret.arr \in DOMAIN mem /\ (cur[c] = 0 => work[c].ret = Nil)
<1>1. CASE cur[c] = 0
  <2>1. work[c].ret = Nil
    BY <1>1 DEF PlacesInv, RetOK, NoWork
  <2> QED BY <2>1, FirstArray DEF Nil
<1>2. CASE cur[c] # 0 /\ Ahead(c, "Extend")
  <2>1. work[c].ret = Nil
    BY <1>2 DEF PlacesInv, RetOK
  <2> QED BY <1>2, <2>1, FirstArray DEF Nil
<1>3. CASE cur[c] # 0 /\ ~Ahead(c, "Extend")
  <2>1. RetAt(c)
    BY <1>3, RetFacts
  <2> QED BY <1>3, <2>1 DEF RetAt, Within
<1> QED BY <1>1, <1>2, <1>3

\* The arrays of arguments and results are there, and nobody's own.
LEMMA CallArrays ==
  ASSUME PlacesInv, NEW n \in DOMAIN calls
  PROVE  /\ calls[n].res.arr \in DOMAIN mem /\ calls[n].arrays \in Nat /\ calls[n].arrays <= Len(mem)
         /\ Len(Arrays) <= calls[n].arrays
         /\ \A a \in Argument : calls[n].req[a].arr \in DOMAIN mem /\ calls[n].req[a].arr <= calls[n].arrays
<1>1. CallOK(n)
  BY DEF PlacesInv, CallsOK
<1>2. Len(Arrays) \in Nat /\ Len(mem) \in Nat
  BY FirstArray
<1> QED BY <1>1, <1>2 DEF CallOK, Within

\* Extend makes room for the output: behind dst, or in a new array that holds
\* dst.
LEMMA ExtendPlaces ==
  ASSUME PlacesInv, NEW c \in Client, Extend(c)
  PROVE  /\ PlacesInv' /\ Writes(c) /\ Within(mem, Req(c).dst) /\ work'[c].iv = work[c].iv
         /\ work'[c].out = work[c].out /\ work'[c].mac = work[c].mac
         /\ \A a \in DOMAIN mem : a \in DOMAIN mem' /\ mem'[a] = mem[a]
         /\ Content(mem', Upto(work'[c].ret, Req(c).dst.len)) = Content(mem, Req(c).dst)
<1> DEFINE r == Req(c)
           k == Room(r)
           e == extendSlice(mem, r.dst, k)
<1>1. /\ AtStep(c, "Extend") /\ Proceed(c) /\ mem' = e.mem /\ work' = [work EXCEPT ![c].ret = e.ret]
      /\ cur[c] # 0 /\ cur' = cur /\ calls' = calls
  BY DEF Extend, AtStep, Proceed
<1>2. RunOK(c) /\ Within(mem, r.dst) /\ k \in Nat /\ r.dst.arr <= calls[cur[c]].arrays /\ cur[c] \in DOMAIN calls
  <2>1. RunOK(c)
    BY <1>1, Runs
  <2> QED BY <2>1 DEF RunOK, Argument
<1>3. /\ Grows(mem, e.mem) /\ \A a \in DOMAIN mem : e.mem[a] = mem[a]
      /\ Within(e.mem, e.ret) /\ e.ret.len = r.dst.len + k
      /\ Content(e.mem, Upto(e.ret, r.dst.len)) = Content(mem, r.dst)
      /\ Fits(r.dst, k) => e.mem = mem /\ e.ret = Upto(r.dst, r.dst.len + k)
      /\ ~Fits(r.dst, k) => /\ Len(e.mem) = Len(mem) + 1 /\ e.ret.arr = Len(mem) + 1
                            /\ e.ret.off = 0 /\ e.ret.cap = e.ret.len
  <2>1. e = extendSlice(mem, r.dst, k)
    OBVIOUS
  <2> HIDE DEF e, k
  <2> QED BY <1>2, <2>1, GrowsSame, ExtendFacts
<1> HIDE DEF e
<1>4. /\ DOMAIN work' = Client /\ \A d \in Client : d # c => work'[d] = work[d]
      /\ work'[c].ret = e.ret /\ DOMAIN work'[c] = DOMAIN NoWork /\ work'[c].out = work[c].out
      /\ work'[c].iv = work[c].iv /\ work'[c].mac = work[c].mac
  BY <1>1, WorkFields DEF NoWork
<1>5. e.ret \in Slice
  BY <1>3 DEF Within
<1>6. /\ TypeOK' /\ CallsOK' /\ TogetherOK' /\ \A d \in Client : ProgramOK(d)'
      /\ \A d \in Client : d # c => RetOK(d)' /\ PiecesOK(d)'
  BY <1>1, <1>3, <1>4, <1>5, WorkFields, ProceedOthers
<1>7. PiecesOK(c)'
  <2>1. Len(work'[c].out) = Len(work[c].out) + 0
    BY <1>4, WorkFields
  <2> QED BY <1>1, <2>1, PiecesLeft
<1>8. /\ calls[cur[c]].arrays \in Nat /\ calls[cur[c]].arrays <= Len(mem) /\ Len(mem) \in Nat
      /\ DOMAIN mem = 1..Len(mem)
  BY <1>2, CallArrays, FirstArray
<1>9. r.dst.arr \in Nat /\ (Fits(r.dst, k) => e.ret.arr = r.dst.arr)
  <2>1. r.dst \in Slice
    BY <1>2 DEF Within
  <2> QED BY <1>3, <2>1 DEF Slice, Upto
<1>10. (Owns(c)' <=> ~Fits(r.dst, k)) /\ Req(c)' = r
  <2>1. Owns(c)' <=> e.ret.arr > calls[cur[c]].arrays
    BY <1>1, <1>4 DEF Owns
  <2>2. Fits(r.dst, k) => ~(e.ret.arr > calls[cur[c]].arrays)
    BY <1>2, <1>8, <1>9
  <2>3. ~Fits(r.dst, k) => e.ret.arr > calls[cur[c]].arrays
    BY <1>3, <1>8
  <2> QED BY <1>1, <2>1, <2>2, <2>3 DEF Req
<1>11. RetOK(c)'
  <2>1. ~Ahead(c, "Extend")'
    <3>1. Head(todo[c]) = "Extend"
      BY <1>1 DEF AtStep
    <3> QED BY <1>1, <3>1, Aheads DEF StillAhead
  <2>2. CASE Fits(r.dst, k)
    BY <1>1, <1>3, <1>4, <1>10, <2>1, <2>2 DEF RetOK
  <2>3. CASE ~Fits(r.dst, k)
    BY <1>1, <1>3, <1>4, <1>10, <2>1, <2>3 DEF RetOK
  <2> QED BY <2>2, <2>3
<1>12. ASSUME NEW d \in Client PROVE OwnOK(d)'
  <2>1. CASE d = c
    <3> SUFFICES ASSUME Owns(c)'
                 PROVE  /\ \A n \in DOMAIN calls :
                             e.ret.arr \notin {calls[n].res.arr} \union {calls[n].req[a].arr : a \in Argument}
                        /\ \A x \in Client : x # c => work'[x].ret.arr # e.ret.arr
      BY <1>1, <1>4, <2>1 DEF OwnOK
    <3>1. e.ret.arr \notin DOMAIN mem
      BY <1>3, <1>8, <1>10
    <3> QED BY <1>4, <3>1, CallArrays, RetArray
  <2>2. CASE d # c
    <3> SUFFICES ASSUME Owns(d)
                 PROVE  /\ \A n \in DOMAIN calls :
                             work[d].ret.arr \notin {calls[n].res.arr} \union {calls[n].req[a].arr : a \in Argument}
                        /\ \A x \in Client : x # d => work'[x].ret.arr # work[d].ret.arr
      BY <1>1, <1>4, <2>2 DEF OwnOK, Owns
    <3>1. /\ \A n \in DOMAIN calls :
               work[d].ret.arr \notin {calls[n].res.arr} \union {calls[n].req[a].arr : a \in Argument}
          /\ \A x \in Client : x # d => work[x].ret.arr # work[d].ret.arr
      BY DEF PlacesInv, OwnOK
    <3>2. e.ret.arr # work[d].ret.arr
      <4>1. CASE Fits(r.dst, k)
        <5>1. e.ret.arr = calls[cur[c]].req["dst"].arr
          BY <1>9, <4>1 DEF Req
        <5> QED BY <1>2, <3>1, <5>1 DEF Argument
      <4>2. CASE ~Fits(r.dst, k)
        BY <1>3, <1>8, <4>2, RetArray
      <4> QED BY <4>1, <4>2
    <3> QED BY <1>4, <3>1, <3>2
  <2> QED BY <2>1, <2>2
<1>13. PlacesInv'
  BY <1>6, <1>7, <1>11, <1>12 DEF PlacesInv
<1>14. \A a \in DOMAIN mem : a \in DOMAIN mem' /\ mem'[a] = mem[a]
  BY <1>1, <1>3 DEF Grows
<1> QED BY <1>1, <1>2, <1>3, <1>4, <1>13, <1>14 DEF Writes

-----------------------------------------------------------------------------
(* Calls that end, and calls that begin.                                    *)

\* Call c has ended: its record has a state and a result, and nothing else is
\* different.
Ended(c, state, res, value) ==
  /\ cur[c] \in DOMAIN calls /\ IsSeq(calls') /\ DOMAIN calls' = DOMAIN calls /\ Len(calls') = Len(calls)
  /\ \A n \in DOMAIN calls : n # cur[c] => calls'[n] = calls[n]
  /\ LET new == calls'[cur[c]]
         old == calls[cur[c]]
     IN /\ DOMAIN new = CallFields /\ new.req = old.req /\ new.arrays = old.arrays
        /\ new.with = old.with /\ new.given = old.given
        /\ new.state = state /\ new.res = res /\ new.value = value
  /\ DOMAIN todo' = Client /\ DOMAIN work' = Client /\ cur' \in [Client -> 0..Len(calls)]
  /\ cur'[c] = 0 /\ todo'[c] = <<>> /\ work'[c] = NoWork
  /\ \A d \in Client : d # c => cur'[d] = cur[d] /\ todo'[d] = todo[d] /\ work'[d] = work[d]
  /\ Running' = Running \ {cur[c]}

\* Finish ends the call and changes no other.
LEMMA Ends ==
  ASSUME PlacesInv, NEW c \in Client, cur[c] # 0, NEW state, NEW res, NEW value, Finish(c, state, res, value)
  PROVE  Ended(c, state, res, value)
<1> DEFINE k == cur[c]
           new == [calls[k] EXCEPT !.state = state, !.res = res, !.value = value]
<1>1. /\ IsSeq(calls) /\ k \in 1..Len(calls) /\ DOMAIN calls = 1..Len(calls)
      /\ DOMAIN calls[k] = CallFields /\ cur \in [Client -> 0..Len(calls)] /\ Len(calls) \in Nat
      /\ DOMAIN todo = Client /\ DOMAIN work = Client
  <2>1. RunOK(c) /\ IsSeq(calls)
    BY Runs DEF PlacesInv, TypeOK
  <2>2. DOMAIN calls = 1..Len(calls) /\ Len(calls) \in Nat
    BY <2>1, SeqIsFunction
  <2> QED BY <2>1, <2>2 DEF RunOK, PlacesInv, TypeOK
<1>2. calls' = [calls EXCEPT ![k] = new]
  <2>1. calls' = [calls EXCEPT ![k].state = state, ![k].res = res, ![k].value = value]
    BY DEF Finish
  <2> QED BY <1>1, <2>1
<1>3. /\ DOMAIN new = CallFields /\ new.req = calls[k].req /\ new.arrays = calls[k].arrays
      /\ new.with = calls[k].with /\ new.given = calls[k].given
      /\ new.state = state /\ new.res = res /\ new.value = value
  BY <1>1 DEF CallFields
<1> HIDE DEF new
<1>4. Replaced(calls', calls, k, new)
  BY <1>1, <1>2, ExceptFacts
<1>5. IsSeq(calls') /\ Len(calls') = Len(calls) /\ DOMAIN calls' = DOMAIN calls /\ calls'[k] = new
  BY <1>1, <1>2, <1>4 DEF Replaced
<1>6. \A n \in DOMAIN calls : n # k => calls'[n] = calls[n]
  BY <1>1, <1>4 DEF Replaced
<1>7. /\ DOMAIN todo' = Client /\ DOMAIN work' = Client /\ cur' \in [Client -> 0..Len(calls)]
      /\ cur'[c] = 0 /\ todo'[c] = <<>> /\ work'[c] = NoWork
      /\ \A d \in Client : d # c => cur'[d] = cur[d] /\ todo'[d] = todo[d] /\ work'[d] = work[d]
  BY <1>1 DEF Finish
<1>8. Running' = Running \ {k}
  <2>1. \A d \in Client : d # c => cur[d] # k
    BY DEF PlacesInv, TogetherOK
  <2> QED BY <1>7, <2>1 DEF Running
<1> QED BY <1>1, <1>3, <1>5, <1>6, <1>7, <1>8 DEF Ended

\* A call that ends leaves the places right if no other call owns its result.
LEMMA FinishPlaces ==
  ASSUME PlacesInv, NEW c \in Client, cur[c] # 0, NEW state \in {"ok", "failed", "fault"}, NEW res, NEW value,
         Finish(c, state, res, value), Grows(mem, mem'), Within(mem', res),
         \A d \in Client : d # c /\ Owns(d) => work[d].ret.arr # res.arr,
         state = "ok" /\ Req(c).op = "Seal" => res.len >= nonceSize
  PROVE  PlacesInv'
<1> DEFINE k == cur[c]
<1>1. /\ k \in DOMAIN calls /\ IsSeq(calls') /\ DOMAIN calls' = DOMAIN calls /\ Len(calls') = Len(calls)
      /\ \A n \in DOMAIN calls : n # k => calls'[n] = calls[n]
      /\ DOMAIN calls'[k] = CallFields /\ calls'[k].req = calls[k].req
      /\ calls'[k].arrays = calls[k].arrays
      /\ calls'[k].with = calls[k].with /\ calls'[k].given = calls[k].given
      /\ calls'[k].state = state /\ calls'[k].res = res
  BY Ends DEF Ended
<1>2. /\ DOMAIN todo' = Client /\ DOMAIN work' = Client /\ cur' \in [Client -> 0..Len(calls)]
      /\ cur'[c] = 0 /\ todo'[c] = <<>> /\ work'[c] = NoWork
      /\ \A d \in Client : d # c => cur'[d] = cur[d] /\ todo'[d] = todo[d] /\ work'[d] = work[d]
      /\ Running' = Running \ {k}
  BY Ends DEF Ended
<1>3. /\ \A n \in DOMAIN calls : /\ calls'[n].req = calls[n].req /\ calls'[n].arrays = calls[n].arrays
                                 /\ calls'[n].with = calls[n].with /\ calls'[n].given = calls[n].given
  BY <1>1
<1> HIDE DEF k
<1>4. TypeOK'
  <2>1. IsSeq(mem') /\ \A a \in DOMAIN mem' : IsSeq(mem'[a])
    BY DEF Grows, Memory
  <2>2. \A n \in DOMAIN calls' : DOMAIN calls'[n] = CallFields
    BY <1>1 DEF PlacesInv, TypeOK
  <2>3. IsSeq(<<>>)
    BY DEF IsSeq
  <2>4. DOMAIN work'[c] = DOMAIN NoWork /\ work'[c].ret \in Slice /\ IsSeq(work'[c].out)
    BY <1>2, <2>3 DEF NoWork, Nil, Slice
  <2>5. \A d \in Client :
          /\ IsSeq(todo'[d]) /\ (cur'[d] # 0 <=> todo'[d] # <<>>)
          /\ DOMAIN work'[d] = DOMAIN NoWork /\ work'[d].ret \in Slice /\ IsSeq(work'[d].out)
    BY <1>2, <2>3, <2>4 DEF PlacesInv, TypeOK
  <2> QED BY <1>1, <1>2, <2>1, <2>2, <2>5 DEF TypeOK
<1>5. CallsOK'
  <2>1. \A a \in DOMAIN Arrays : a \in DOMAIN mem' /\ Len(mem'[a]) = Len(Arrays[a])
    BY DEF PlacesInv, CallsOK, Grows
  <2>2. Len(mem) \in Nat /\ Len(mem') \in Nat /\ Len(mem) <= Len(mem') /\ Len(Arrays) \in Nat
    BY GrowsLen, FirstArray
  <2>3. ASSUME NEW n \in DOMAIN calls PROVE CallOK(n)'
    <3>1. \A s : Within(mem, s) => Within(mem', s)
      BY WithinGrows
    <3>2. CallOK(n)
      BY DEF PlacesInv, CallsOK
    <3>3. calls'[n].arrays \in Len(Arrays)..Len(mem')
      <4>1. calls[n].arrays \in Len(Arrays)..Len(mem)
        BY <3>2 DEF CallOK
      <4> QED BY <1>3, <2>2, <4>1
    <3>4. CASE n # k
      BY <1>1, <3>1, <3>2, <3>3, <3>4 DEF CallOK
    <3>5. CASE n = k
      <4>1. /\ calls'[n].req = calls[n].req /\ calls'[n].with = calls[n].with
            /\ calls'[n].given = calls[n].given /\ calls'[n].state = state /\ calls'[n].res = res
        BY <1>1, <3>5
      <4>2. calls[n].state = "running"
        BY <3>5 DEF PlacesInv, CallsOK, Running, k
      <4>3. /\ calls[n].req.op \in {"Seal", "Open"} /\ LengthsOK(calls[n].req)
            /\ calls[n].with \subseteq DOMAIN calls
            /\ \A a \in Argument : Within(mem, calls[n].req[a]) /\ calls[n].req[a].arr <= calls[n].arrays
            /\ \A a \in Argument : IsSeq(calls[n].given[a]) /\ Len(calls[n].given[a]) = calls[n].req[a].len
        BY <3>2, <4>2 DEF CallOK
      <4>4. Req(c) = calls[n].req
        BY <3>5 DEF Req, k
      <4> QED BY <1>1, <1>3, <3>1, <3>3, <4>1, <4>3, <4>4 DEF CallOK
    <3> QED BY <3>4, <3>5
  <2>4. ASSUME NEW n \in DOMAIN calls PROVE calls'[n].state = "running" <=> n \in Running'
    <3>1. calls[n].state = "running" <=> n \in Running
      BY DEF PlacesInv, CallsOK
    <3> QED BY <1>1, <1>2, <3>1
  <2> QED BY <1>1, <2>1, <2>3, <2>4 DEF CallsOK
<1>6. TogetherOK'
  <2>1. \A x, d \in Client : cur'[x] = cur'[d] => x = d \/ cur'[x] = 0
    BY <1>2 DEF PlacesInv, TogetherOK
  <2>2. \A x \in Running', n \in DOMAIN calls' : n # x /\ (x < n \/ n \in Running') => x \in calls'[n].with
    BY <1>1, <1>2, <1>3 DEF PlacesInv, TogetherOK
  <2> QED BY <2>1, <2>2 DEF TogetherOK
<1>7. ASSUME NEW d \in Client PROVE ProgramOK(d)' /\ RetOK(d)' /\ OwnOK(d)' /\ PiecesOK(d)'
  <2>1. CASE d = c
    <3>1. ProgramOK(d)' /\ RetOK(d)' /\ PiecesOK(d)'
      BY <1>2, <2>1 DEF ProgramOK, RetOK, PiecesOK
    <3>2. OwnOK(d)'
      BY <1>2, <2>1 DEF OwnOK, Owns
    <3> QED BY <3>1, <3>2
  <2>2. CASE d # c /\ cur[d] = 0
    <3>1. cur'[d] = 0 /\ work'[d] = work[d]
      BY <1>2, <2>2
    <3>2. ProgramOK(d)' /\ PiecesOK(d)' /\ OwnOK(d)'
      BY <3>1 DEF ProgramOK, PiecesOK, OwnOK, Owns
    <3>3. RetOK(d)'
      BY <2>2, <3>1 DEF PlacesInv, RetOK
    <3> QED BY <3>2, <3>3
  <2>3. CASE d # c /\ cur[d] # 0
    <3>1. cur'[d] = cur[d] /\ todo'[d] = todo[d] /\ work'[d] = work[d] /\ cur[d] \in DOMAIN calls
      <4>1. RunOK(d)
        BY <2>3, Runs
      <4> QED BY <1>2, <2>3, <4>1 DEF RunOK
    <3>2. Req(d)' = Req(d) /\ (Owns(d)' <=> Owns(d)) /\ \A s : Ahead(d, s)' <=> Ahead(d, s)
      BY <1>3, <3>1 DEF Req, Owns, Ahead
    <3>3. \A s : Within(mem, s) => Within(mem', s)
      BY WithinGrows
    <3>4. ProgramOK(d)' /\ PiecesOK(d)'
      BY <3>1, <3>2 DEF PlacesInv, ProgramOK, PiecesOK
    <3>5. RetOK(d)'
      BY <3>1, <3>2, <3>3 DEF PlacesInv, RetOK
    <3>6. OwnOK(d)'
      <4> SUFFICES ASSUME Owns(d)
                   PROVE  /\ \A n \in DOMAIN calls :
                               work[d].ret.arr \notin {calls'[n].res.arr} \union {calls'[n].req[a].arr : a \in Argument}
                          /\ \A x \in Client : x # d => work'[x].ret.arr # work[d].ret.arr
        BY <1>1, <3>1, <3>2 DEF OwnOK
      <4>1. /\ \A n \in DOMAIN calls :
                 work[d].ret.arr \notin {calls[n].res.arr} \union {calls[n].req[a].arr : a \in Argument}
            /\ \A x \in Client : x # d => work[x].ret.arr # work[d].ret.arr
        BY DEF PlacesInv, OwnOK
      <4>2. work[d].ret.arr # res.arr
        BY <2>3
      <4>3. work'[c].ret.arr = 1 /\ work[d].ret.arr # 1
        <5>1. /\ work[d].ret.arr > calls[cur[d]].arrays /\ Len(Arrays) <= calls[cur[d]].arrays
              /\ calls[cur[d]].arrays \in Nat /\ Len(Arrays) \in Nat /\ 1 \in 1..Len(Arrays)
          BY <3>1, CallArrays, FirstArray DEF Owns
        <5> QED BY <1>2, <5>1 DEF NoWork, Nil
      <4>4. \A n \in DOMAIN calls : calls'[n].req = calls[n].req /\ calls'[n].res \in {calls[n].res, res}
        BY <1>1, <1>3
      <4> QED BY <1>2, <4>1, <4>2, <4>3, <4>4
    <3> QED BY <3>4, <3>5, <3>6
  <2> QED BY <2>1, <2>2, <2>3
<1> QED BY <1>4, <1>5, <1>6, <1>7 DEF PlacesInv

\* ... as when it returns nothing.
LEMMA NilPlaces ==
  ASSUME PlacesInv, NEW c \in Client, cur[c] # 0, NEW state \in {"failed", "fault"}, NEW value,
         Finish(c, state, Nil, value), mem' = mem
  PROVE  PlacesInv' /\ Writes(c) /\ Ended(c, state, Nil, value)
<1>1. Grows(mem, mem') /\ Within(mem', Nil)
  BY GrowsSame, FirstArray
<1>2. ASSUME NEW d \in Client, Owns(d) PROVE work[d].ret.arr # Nil.arr
  <2>1. cur[d] # 0 /\ RunOK(d)
    BY <1>2, Runs DEF Owns
  <2>2. /\ work[d].ret.arr > calls[cur[d]].arrays /\ Len(Arrays) <= calls[cur[d]].arrays
        /\ calls[cur[d]].arrays \in Nat /\ Len(Arrays) \in Nat /\ 1 \in 1..Len(Arrays)
    BY <1>2, <2>1, CallArrays, FirstArray DEF Owns, RunOK
  <2> QED BY <2>2 DEF Nil
<1>3. PlacesInv'
  <2>1. state # "ok" /\ state \in {"ok", "failed", "fault"}
    OBVIOUS
  <2> QED BY <1>1, <1>2, <2>1, FinishPlaces
<1>4. Writes(c)
  BY DEF Writes
<1> QED BY <1>3, <1>4, Ends

\* A fault writes nothing.
LEMMA FaultPlaces ==
  ASSUME PlacesInv, NEW c \in Client, Fault(c)
  PROVE  PlacesInv' /\ Writes(c) /\ Ended(c, "fault", Nil, <<>>)
BY NilPlaces DEF Fault

\* A refusal writes nothing.
LEMMA RefusedPlaces ==
  ASSUME PlacesInv, NEW c \in Client, Verify(c), Content(mem, ExpectedTag(Req(c))) # Tag(work[c].mac)
  PROVE  PlacesInv' /\ Writes(c) /\ Ended(c, "failed", Nil, <<>>)
<1>1. cur[c] # 0 /\ Finish(c, "failed", Nil, <<>>) /\ mem' = mem
  BY DEF Verify, AtStep
<1> QED BY <1>1, NilPlaces

\* Before a call returns, its output is complete.
LEMMA Complete ==
  ASSUME PlacesInv, NEW c \in Client, AtStep(c, "Return")
  PROVE  /\ cur[c] # 0 /\ RunOK(c) /\ RetAt(c)
         /\ Req(c).op \in {"Seal", "Open"}
         /\ \A s \in {"Extend", "TakeIV", "CopyText", "BuildMAC"} : ~Ahead(c, s)
         /\ Req(c).op = "Seal" => ~Ahead(c, "CopyTag")
         /\ Req(c).op = "Open" => ~Ahead(c, "Verify")
<1>1. cur[c] # 0 /\ Head(todo[c]) = "Return"
  BY DEF AtStep
<1>2. /\ RunOK(c) /\ Req(c).op \in {"Seal", "Open"} /\ \A s : Ahead(c, s) <=> Has(todo[c], s)
      /\ Req(c).op = "Seal" => SealAt(todo[c], Body(Req(c)).len, Len(todo[c]))
      /\ Req(c).op = "Open" => OpenAt(todo[c], Body(Req(c)).len, Len(todo[c]))
  BY <1>1, Order
<1>3. /\ \A s \in {"Extend", "TakeIV", "CopyText", "BuildMAC"} : ~Has(todo[c], s)
      /\ Req(c).op = "Seal" => ~Has(todo[c], "CopyTag")
      /\ Req(c).op = "Open" => ~Has(todo[c], "Verify")
  BY <1>1, <1>2 DEF SealAt, OpenAt
<1> QED BY <1>1, <1>2, <1>3, RetFacts

\* Open returns its output as it is.
LEMMA OpenedPlaces ==
  ASSUME PlacesInv, NEW c \in Client, ReturnOpened(c)
  PROVE  /\ PlacesInv' /\ Writes(c) /\ mem' = mem
         /\ Ended(c, "ok", work[c].ret, Content(mem, work[c].ret))
<1>1. /\ AtStep(c, "Return") /\ Req(c).op = "Open" /\ mem' = mem
      /\ Finish(c, "ok", work[c].ret, Content(mem, work[c].ret))
  BY DEF ReturnOpened
<1>2. cur[c] # 0 /\ Within(mem, work[c].ret)
  BY <1>1, Complete DEF RetAt
<1>3. \A d \in Client : d # c /\ Owns(d) => work[d].ret.arr # work[c].ret.arr
  BY DEF PlacesInv, OwnOK
<1>4. PlacesInv'
  <2>1. Grows(mem, mem') /\ Within(mem', work[c].ret)
    BY <1>1, <1>2, GrowsSame
  <2> QED BY <1>1, <1>2, <1>3, <2>1, FinishPlaces
<1> QED BY <1>1, <1>2, <1>4, Ends DEF Writes

\* Seal returns its nonce followed by its output, behind the nonce or in a new
\* array.
LEMMA SealedPlaces ==
  ASSUME PlacesInv, NEW c \in Client, ReturnSealed(c), NEW e,
         e = Appended(mem, Req(c).nonce, Content(mem, work[c].ret))
  PROVE  /\ PlacesInv' /\ Writes(c) /\ mem' = e.mem
         /\ Ended(c, "ok", e.ret, Content(e.mem, e.ret))
         /\ Content(e.mem, e.ret) = Content(mem, Req(c).nonce) \o Content(mem, work[c].ret)
<1> DEFINE r == Req(c)
           data == Content(mem, work[c].ret)
           n == r.dst.len + Room(r)
<1>1. /\ AtStep(c, "Return") /\ r.op = "Seal" /\ mem' = e.mem
      /\ Finish(c, "ok", e.ret, Content(e.mem, e.ret))
  BY DEF ReturnSealed
<1>2. /\ cur[c] # 0 /\ Within(mem, work[c].ret) /\ work[c].ret.len = n /\ RunOK(c)
      /\ cur[c] \in DOMAIN calls
  BY <1>1, Complete DEF RetAt, RunOK
<1>3. Within(mem, r.nonce) /\ r.nonce.len = nonceSize
  BY <1>2 DEF RunOK, Argument, LengthsOK
<1>4. IsSeq(data) /\ Len(data) = n /\ n \in Nat
  <2>1. work[c].ret.len \in Nat
    BY <1>2 DEF Within, Slice
  <2> QED BY <1>2, <2>1, ContentFacts
<1>5. /\ Grows(mem, e.mem) /\ Within(e.mem, e.ret) /\ e.ret.len = r.nonce.len + n
      /\ Content(e.mem, e.ret) = Content(mem, r.nonce) \o data
      /\ \A a \in DOMAIN mem : \A j \in 1..Len(mem[a]) : e.mem[a][j] # mem[a][j] =>
           Fits(r.nonce, n) /\ <<a, j>> \in Window(Behind(r.nonce, n))
      /\ e.ret.arr = r.nonce.arr \/ e.ret.arr \notin DOMAIN mem
  <2> DEFINE nonce == r.nonce
  <2>1. e = Appended(mem, nonce, data) /\ Within(mem, nonce)
    BY <1>3
  <2>2. Memory(mem)
    BY GrowsSame
  <2> HIDE DEF data, n, nonce
  <2>3. /\ Grows(mem, e.mem) /\ Within(e.mem, e.ret) /\ e.ret.len = nonce.len + Len(data)
        /\ Content(e.mem, e.ret) = Content(mem, nonce) \o data
        /\ \A a \in DOMAIN mem : \A j \in 1..Len(mem[a]) : e.mem[a][j] # mem[a][j] =>
             Fits(nonce, Len(data)) /\ <<a, j>> \in Window(Behind(nonce, Len(data)))
        /\ e.ret.arr = nonce.arr \/ e.ret.arr \notin DOMAIN mem
    BY <1>4, <2>1, <2>2, AppendedFacts
  <2> QED BY <1>4, <2>3 DEF nonce
<1>6. Writes(c)
  BY <1>1, <1>5 DEF Writes, Footprint, ResultFootprint
<1>7. ASSUME NEW d \in Client, Owns(d) PROVE work[d].ret.arr # e.ret.arr
  <2>1. work[d].ret.arr \in DOMAIN mem
    BY RetArray
  <2>2. work[d].ret.arr # calls[cur[c]].req["nonce"].arr
    BY <1>2, <1>7 DEF PlacesInv, OwnOK, Argument
  <2> QED BY <1>5, <2>1, <2>2 DEF Req
<1>8. PlacesInv'
  <2>1. e.ret.len >= nonceSize
    <3>1. e.ret.len = nonceSize + n /\ n \in Nat
      BY <1>3, <1>4, <1>5
    <3> HIDE DEF n
    <3>2. nonceSize + n >= nonceSize
      BY <3>1, Sizes
    <3> QED BY <3>1, <3>2
  <2> QED BY <1>1, <1>2, <1>5, <1>7, <2>1, FinishPlaces
<1>9. Ended(c, "ok", e.ret, Content(e.mem, e.ret))
  BY <1>1, <1>2, Ends
<1> QED BY <1>1, <1>5, <1>6, <1>8, <1>9

\* The slices of a call that may be made are in arrays there are, and not in
\* an array that a running call made for itself.
LEMMA RequestFacts ==
  ASSUME PlacesInv, NEW r \in Request \union OpenRequest
  PROVE  /\ r.op \in {"Seal", "Open"}
         /\ \A a \in Argument : /\ Within(mem, r[a])
                                /\ \A d \in Client : Owns(d) => work[d].ret.arr # r[a].arr
<1>1. ASSUME NEW d \in Client, Owns(d)
      PROVE  /\ cur[d] \in DOMAIN calls
             /\ \A n \in DOMAIN calls :
                  work[d].ret.arr \notin {calls[n].res.arr} \union {calls[n].req[a].arr : a \in Argument}
             /\ \A k \in DOMAIN Arrays : work[d].ret.arr # k
  <2>1. cur[d] # 0 /\ cur[d] \in DOMAIN calls
    BY <1>1, Runs DEF Owns, RunOK
  <2>2. /\ work[d].ret.arr > calls[cur[d]].arrays /\ Len(Arrays) <= calls[cur[d]].arrays
        /\ calls[cur[d]].arrays \in Nat /\ Len(Arrays) \in Nat /\ DOMAIN Arrays = 1..Len(Arrays)
    BY <1>1, <2>1, CallArrays, FirstArray DEF Owns
  <2>3. \A k \in DOMAIN Arrays : work[d].ret.arr # k
    BY <2>2
  <2> QED BY <1>1, <2>1, <2>3 DEF PlacesInv, OwnOK
<1>2. CASE r \in Request
  <2>1. r.op \in {"Seal", "Open"} /\ \A a \in Argument : Within(Arrays, r[a])
    BY <1>2, RequestAssumption
  <2>2. \A k \in DOMAIN Arrays : k \in DOMAIN mem /\ Len(mem[k]) = Len(Arrays[k])
    BY DEF PlacesInv, CallsOK
  <2>3. \A a \in Argument : Within(mem, r[a]) /\ r[a].arr \in DOMAIN Arrays
    BY <2>1, <2>2 DEF Within
  <2> QED BY <1>1, <2>1, <2>3
<1>3. CASE r \in OpenRequest
  <2>1. PICK n \in Sealed :
          \E dst \in {Nil, Upto(From(calls[n].res, nonceSize), 0)} :
            r = [op |-> "Open", dst |-> dst, nonce |-> Upto(calls[n].res, nonceSize),
                 text |-> From(calls[n].res, nonceSize), aad |-> calls[n].req.aad]
    BY <1>3 DEF OpenRequest
  <2> DEFINE res == calls[n].res
             text == From(res, nonceSize)
  <2>2. n \in DOMAIN calls /\ CallOK(n) /\ calls[n].req.op = "Seal" /\ calls[n].state = "ok"
    BY DEF Sealed, PlacesInv, CallsOK
  <2>3. /\ Within(mem, res) /\ res.len >= nonceSize /\ Within(mem, calls[n].req["aad"])
        /\ res \in Slice /\ res.len \in Nat /\ res.cap \in Nat /\ res.len <= res.cap
    BY <2>2 DEF CallOK, Argument, Within, Slice
  <2>4. nonceSize \in 0..res.cap /\ nonceSize \in 0..res.len
    BY <2>3, Sizes
  <2>5. Within(mem, Upto(res, nonceSize)) /\ Within(mem, text)
    BY <2>3, <2>4, SlicesWithin
  <2>6. Within(mem, Upto(text, 0))
    <3>1. text.cap \in Nat
      BY <2>5 DEF Within, Slice
    <3>2. 0 \in 0..text.cap
      BY <3>1
    <3> HIDE DEF text
    <3> QED BY <2>5, <3>2, SlicesWithin
  <2>7. Upto(res, nonceSize).arr = res.arr /\ text.arr = res.arr /\ Upto(text, 0).arr = res.arr
    <3>1. Upto(res, nonceSize).arr = res.arr /\ text.arr = res.arr
      BY <2>3, <2>4, SliceFields
    <3>2. Upto(text, 0).arr = text.arr
      <4>1. text \in Slice
        BY <2>5 DEF Within
      <4> HIDE DEF text
      <4> QED BY <4>1, UptoFields
    <3> QED BY <3>1, <3>2
  <2>8. Within(mem, Nil) /\ Nil.arr \in DOMAIN Arrays
    BY FirstArray DEF Nil
  <2>9. ASSUME NEW d \in Client, Owns(d)
        PROVE  /\ work[d].ret.arr # res.arr /\ work[d].ret.arr # Nil.arr
               /\ work[d].ret.arr # calls[n].req["aad"].arr
    BY <1>1, <2>2, <2>8, <2>9 DEF Argument
  <2>10. PICK dst \in {Nil, Upto(text, 0)} :
            r = [op |-> "Open", dst |-> dst, nonce |-> Upto(res, nonceSize), text |-> text, aad |-> calls[n].req.aad]
    BY <2>1
  <2>11. Within(mem, dst) /\ (dst.arr = res.arr \/ dst.arr = Nil.arr)
    BY <2>6, <2>7, <2>8
  <2> HIDE DEF text, res
  <2>12. /\ r.op = "Open" /\ r["dst"] = dst /\ r["nonce"] = Upto(res, nonceSize) /\ r["text"] = text
         /\ r["aad"] = calls[n].req["aad"]
    BY <2>10
  <2>13. ASSUME NEW a \in Argument PROVE Within(mem, r[a])
    BY <2>3, <2>5, <2>11, <2>12 DEF Argument
  <2>14. ASSUME NEW a \in Argument, NEW d \in Client, Owns(d) PROVE work[d].ret.arr # r[a].arr
    BY <2>7, <2>9, <2>11, <2>12, <2>14 DEF Argument
  <2> QED BY <2>12, <2>13, <2>14
<1> QED BY <1>2, <1>3

\* A whole program is an end of itself.
LEMMA WholeEnd ==
  ASSUME NEW s, IsSeq(s), Len(s) >= 1
  PROVE  EndOf(s, s)
<1> DEFINE t == SubSeq(s, 1, Len(s))
<1>1. Len(s) \in Nat /\ 1 \in 1..(Len(s) + 1)
  BY SeqIsFunction
<1>2. t = SubSeq(s, 1, Len(s))
  OBVIOUS
<1> HIDE DEF t
<1>3. Rest(t, s, 1)
  BY <1>1, <1>2, SubSeqFacts
<1>4. IsSeq(t) /\ Len(t) = Len(s) /\ \A i \in 1..Len(t) : t[i] = s[i]
  <2>1. IsSeq(t) /\ Len(t) = Len(s) + 1 - 1 /\ \A i \in 1..Len(t) : t[i] = s[1 + i - 1]
    BY <1>3 DEF Rest
  <2>2. Len(s) + 1 - 1 = Len(s) /\ \A i \in 1..Len(t) : 1 + i - 1 = i
    BY <1>1
  <2> QED BY <2>1, <2>2
<1>5. t = s
  BY <1>4, SameSeq
<1> QED BY <1>1, <1>2, <1>5 DEF EndOf

\* A call has been recorded; the ones that run know of it.
Began(c, r) ==
  LET n == Len(calls) + 1
      new == calls'[n]
  IN /\ IsSeq(calls') /\ Len(calls') = n /\ n \notin DOMAIN calls
     /\ DOMAIN calls' = DOMAIN calls \union {n}
     /\ \A k \in DOMAIN calls :
          /\ DOMAIN calls'[k] = CallFields /\ calls'[k].req = calls[k].req
          /\ calls'[k].arrays = calls[k].arrays /\ calls'[k].given = calls[k].given
          /\ calls'[k].res = calls[k].res /\ calls'[k].value = calls[k].value
          /\ calls'[k].state = calls[k].state
          /\ calls'[k].with = IF k \in Running THEN calls[k].with \union {n} ELSE calls[k].with
     /\ DOMAIN new = CallFields /\ new.req = r /\ new.arrays = Len(mem) /\ new.with = Running
     /\ new.res = Nil /\ new.state = IF LengthsOK(r) THEN "running" ELSE "failed"
     /\ \A a \in Argument : new.given[a] = Content(mem, r[a])
     /\ mem' = mem /\ work' = work /\ cur[c] = 0
     /\ \A d \in Client : d # c => cur'[d] = cur[d] /\ todo'[d] = todo[d]
     /\ DOMAIN todo' = Client /\ cur' \in [Client -> 0..n]
     /\ IF LengthsOK(r) THEN cur'[c] = n /\ todo'[c] = Steps(r) /\ Running' = Running \union {n}
        ELSE cur' = cur /\ todo' = todo /\ Running' = Running

\* Start records a call and changes no other record but the calls that ran
\* with it.
LEMMA Begins ==
  ASSUME PlacesInv, NEW c \in Client, NEW r, Start(c, r)
  PROVE  Began(c, r)
<1> DEFINE n == Len(calls) + 1
           old == [k \in DOMAIN calls |->
                     IF k \in Running THEN [calls[k] EXCEPT !.with = @ \union {n}] ELSE calls[k]]
           new == [req |-> r, arrays |-> Len(mem), with |-> Running, res |-> Nil, value |-> <<>>,
                   state |-> IF LengthsOK(r) THEN "running" ELSE "failed",
                   given |-> [a \in Argument |-> Content(mem, r[a])]]
<1>1. /\ IsSeq(calls) /\ DOMAIN calls = 1..Len(calls) /\ Len(calls) \in Nat
      /\ \A k \in DOMAIN calls : DOMAIN calls[k] = CallFields
      /\ cur \in [Client -> 0..Len(calls)] /\ DOMAIN todo = Client
  <2>1. IsSeq(calls)
    BY DEF PlacesInv, TypeOK
  <2> QED BY <2>1, SeqIsFunction DEF PlacesInv, TypeOK
<1>2. /\ calls' = Append(old, new) /\ mem' = mem /\ work' = work /\ cur[c] = 0
      /\ IF LengthsOK(r) THEN cur' = [cur EXCEPT ![c] = n] /\ todo' = [todo EXCEPT ![c] = Steps(r)]
         ELSE cur' = cur /\ todo' = todo
  BY DEF Start
<1>3. IsSeq(old) /\ Len(old) = Len(calls)
  <2>1. old = [k \in 1..Len(calls) |-> old[k]]
    BY <1>1
  <2> HIDE DEF old
  <2> QED BY <1>1, <2>1, FunctionIsSeq
<1>4. \A k \in DOMAIN calls :
          /\ DOMAIN old[k] = CallFields /\ old[k].req = calls[k].req
          /\ old[k].arrays = calls[k].arrays /\ old[k].given = calls[k].given
          /\ old[k].res = calls[k].res /\ old[k].value = calls[k].value
          /\ old[k].state = calls[k].state
          /\ old[k].with = IF k \in Running THEN calls[k].with \union {n} ELSE calls[k].with
  BY <1>1 DEF CallFields
<1>5. /\ DOMAIN new = CallFields /\ new.req = r /\ new.arrays = Len(mem) /\ new.with = Running
      /\ new.res = Nil /\ new.state = IF LengthsOK(r) THEN "running" ELSE "failed"
      /\ \A a \in Argument : new.given[a] = Content(mem, r[a])
  BY DEF CallFields
<1> HIDE DEF old, new
<1>6. /\ IsSeq(calls') /\ Len(calls') = n /\ calls'[n] = new
      /\ \A k \in DOMAIN calls : calls'[k] = old[k]
  <2>1. Longer(calls', old, new)
    BY <1>2, <1>3, AppendFacts
  <2> QED BY <1>1, <1>3, <2>1 DEF Longer
<1>7. DOMAIN calls' = DOMAIN calls \union {n} /\ n \notin DOMAIN calls
  <2>1. DOMAIN calls' = 1..n
    BY <1>6, SeqIsFunction
  <2> QED BY <1>1, <2>1
<1>8. /\ \A d \in Client : d # c => cur'[d] = cur[d] /\ todo'[d] = todo[d]
      /\ DOMAIN todo' = Client /\ cur' \in [Client -> 0..n]
      /\ LengthsOK(r) => cur'[c] = n /\ todo'[c] = Steps(r)
      /\ ~LengthsOK(r) => cur' = cur /\ todo' = todo
  <2>1. n \in 0..n /\ 0..Len(calls) \subseteq 0..n
    BY <1>1
  <2> HIDE DEF n
  <2> QED BY <1>1, <1>2, <2>1
<1>9. IF LengthsOK(r) THEN Running' = Running \union {n} ELSE Running' = Running
  <2>1. CASE LengthsOK(r)
    <3>1. n # 0
      BY <1>1
    <3> QED BY <1>2, <1>8, <2>1, <3>1 DEF Running
  <2>2. CASE ~LengthsOK(r)
    BY <1>8, <2>2 DEF Running
  <2> QED BY <2>1, <2>2
<1>10. \A k \in DOMAIN calls :
          /\ DOMAIN calls'[k] = CallFields /\ calls'[k].req = calls[k].req
          /\ calls'[k].arrays = calls[k].arrays /\ calls'[k].given = calls[k].given
          /\ calls'[k].res = calls[k].res /\ calls'[k].value = calls[k].value
          /\ calls'[k].state = calls[k].state
          /\ calls'[k].with = IF k \in Running THEN calls[k].with \union {n} ELSE calls[k].with
  <2> SUFFICES ASSUME NEW k \in DOMAIN calls
               PROVE  /\ DOMAIN calls'[k] = CallFields /\ calls'[k].req = calls[k].req
                      /\ calls'[k].arrays = calls[k].arrays /\ calls'[k].given = calls[k].given
                      /\ calls'[k].res = calls[k].res /\ calls'[k].value = calls[k].value
                      /\ calls'[k].state = calls[k].state
                      /\ calls'[k].with = IF k \in Running THEN calls[k].with \union {n} ELSE calls[k].with
    OBVIOUS
  <2>1. calls'[k] = old[k]
    BY <1>6
  <2> QED BY <1>4, <2>1
<1> QED BY <1>2, <1>5, <1>6, <1>7, <1>8, <1>9, <1>10 DEF Began

\* A call that begins keeps the places right.
LEMMA StartPlaces ==
  ASSUME PlacesInv, NEW c \in Client, NEW r \in Request \union OpenRequest, Start(c, r)
  PROVE  PlacesInv'
<1> PICK n : n = Len(calls) + 1
  OBVIOUS
<1>1. Began(c, r)
  BY Begins
<1>2. /\ IsSeq(calls') /\ Len(calls') = n /\ n \notin DOMAIN calls
      /\ DOMAIN calls' = DOMAIN calls \union {n}
      /\ mem' = mem /\ work' = work /\ cur[c] = 0
      /\ \A d \in Client : d # c => cur'[d] = cur[d] /\ todo'[d] = todo[d]
      /\ DOMAIN todo' = Client /\ cur' \in [Client -> 0..n]
      /\ IF LengthsOK(r) THEN cur'[c] = n /\ todo'[c] = Steps(r) /\ Running' = Running \union {n}
         ELSE cur' = cur /\ todo' = todo /\ Running' = Running
  BY <1>1 DEF Began
<1>3. /\ DOMAIN calls'[n] = CallFields /\ calls'[n].req = r /\ calls'[n].arrays = Len(mem)
      /\ calls'[n].with = Running
      /\ calls'[n].res = Nil /\ calls'[n].state = IF LengthsOK(r) THEN "running" ELSE "failed"
      /\ \A a \in Argument : calls'[n].given[a] = Content(mem, r[a])
  BY <1>1 DEF Began
<1>4. \A k \in DOMAIN calls :
          /\ DOMAIN calls'[k] = CallFields /\ calls'[k].req = calls[k].req
          /\ calls'[k].arrays = calls[k].arrays /\ calls'[k].given = calls[k].given
          /\ calls'[k].res = calls[k].res /\ calls'[k].value = calls[k].value
          /\ calls'[k].state = calls[k].state
          /\ calls'[k].with = IF k \in Running THEN calls[k].with \union {n} ELSE calls[k].with
  BY <1>1 DEF Began
<1>5. DOMAIN calls = 1..Len(calls) /\ Len(calls) \in Nat /\ n \in Nat /\ n # 0 /\ \A k \in DOMAIN calls : k < n /\ k # n
  <2>1. DOMAIN calls = 1..Len(calls) /\ Len(calls) \in Nat
    BY SeqIsFunction DEF PlacesInv, TypeOK
  <2> QED BY <2>1
<1>6. /\ r.op \in {"Seal", "Open"}
      /\ \A a \in Argument : /\ Within(mem, r[a])
                             /\ \A d \in Client : Owns(d) => work[d].ret.arr # r[a].arr
  BY RequestFacts
<1>7. Running \subseteq DOMAIN calls
  <2>1. \A d \in Client : cur[d] # 0 => cur[d] \in DOMAIN calls
    BY Runs DEF RunOK
  <2> QED BY <2>1 DEF Running
<1>8. LengthsOK(r) => IsSeq(Steps(r)) /\ Steps(r) # <<>> /\ EndOf(Steps(r), Steps(r))
                      /\ Has(Steps(r), "Extend") /\ Has(Steps(r), "TakeIV")
  <2> SUFFICES ASSUME LengthsOK(r)
               PROVE  IsSeq(Steps(r)) /\ Steps(r) # <<>> /\ EndOf(Steps(r), Steps(r))
                      /\ Has(Steps(r), "Extend") /\ Has(Steps(r), "TakeIV")
    OBVIOUS
  <2> DEFINE s == Steps(r)
             b == Body(r).len
  <2>1. b \in Nat
    <3>1. Within(mem, r.text)
      BY <1>6 DEF Argument
    <3>2. r.text \in Slice
      BY <3>1 DEF Within
    <3> QED BY <1>6, <3>2, BodyFacts
  <2>2. (r.op = "Seal" => SealSteps(s, b)) /\ (r.op # "Seal" => OpenSteps(s, b))
    BY <2>1, StepsFacts
  <2> HIDE DEF s, b
  <2>3. IsSeq(s) /\ Len(s) = b + 6
    BY <2>2 DEF SealSteps, OpenSteps
  <2>4. Len(s) >= 1 /\ 1 \in 1..Len(s) /\ 2 \in 1..Len(s) /\ 3 \in 1..Len(s) /\ 4 \in 1..Len(s) /\ Len(s) # 0
    BY <2>1, <2>3
  <2>5. (s[1] = "Extend" /\ s[2] = "TakeIV") \/ (s[3] = "Extend" /\ s[4] = "TakeIV")
    BY <2>2 DEF SealSteps, OpenSteps
  <2>6. Has(s, "Extend") /\ Has(s, "TakeIV")
    BY <2>4, <2>5 DEF Has
  <2>7. EndOf(s, s) /\ s # <<>>
    BY <2>3, <2>4, WholeEnd, EmptyLen
  <2> QED BY <2>3, <2>6, <2>7 DEF s
<1>9. TypeOK'
  <2>1. \A k \in DOMAIN calls' : DOMAIN calls'[k] = CallFields
    BY <1>2, <1>3, <1>4
  <2>2. \A d \in Client : IsSeq(todo'[d]) /\ (cur'[d] # 0 <=> todo'[d] # <<>>)
    BY <1>2, <1>5, <1>8 DEF PlacesInv, TypeOK
  <2> QED BY <1>2, <2>1, <2>2 DEF PlacesInv, TypeOK
<1>10. CallsOK'
  <2>1. \A a \in DOMAIN Arrays : a \in DOMAIN mem' /\ Len(mem'[a]) = Len(Arrays[a])
    BY <1>2 DEF PlacesInv, CallsOK
  <2>2. ASSUME NEW k \in DOMAIN calls
        PROVE  CallOK(k)' /\ (calls'[k].state = "running" <=> k \in Running')
    <3>1. CallOK(k) /\ (calls[k].state = "running" <=> k \in Running)
      BY DEF PlacesInv, CallsOK
    <3>2. calls'[k].with \subseteq DOMAIN calls'
      BY <1>2, <1>4, <3>1 DEF CallOK
    <3>3. CallOK(k)'
      BY <1>2, <1>4, <3>1, <3>2 DEF CallOK
    <3>4. calls'[k].state = "running" <=> k \in Running'
      <4>1. calls'[k].state = calls[k].state /\ k # n
        BY <1>4, <1>5
      <4>2. k \in Running' <=> k \in Running
        BY <1>2, <4>1
      <4> QED BY <3>1, <4>1, <4>2
    <3> QED BY <3>3, <3>4
  <2>3. CallOK(n)'
    <3>1. Len(mem) \in Len(Arrays)..Len(mem)
      <4>1. \A a \in 1..Len(Arrays) : a \in 1..Len(mem)
        BY <1>2, <2>1, FirstArray
      <4>2. Len(Arrays) \in Nat /\ Len(mem) \in Nat
        BY FirstArray
      <4>3. Len(Arrays) <= Len(mem)
        BY <4>1, <4>2
      <4> QED BY <4>2, <4>3
    <3>2. \A a \in Argument : Within(mem, r[a]) /\ r[a].arr <= Len(mem)
      BY <1>6, FirstArray DEF Within
    <3>3. \A a \in Argument : IsSeq(calls'[n].given[a]) /\ Len(calls'[n].given[a]) = r[a].len
      <4>1. \A a \in Argument : r[a].len \in Nat
        BY <1>6 DEF Within, Slice
      <4> QED BY <1>3, <4>1, ContentFacts
    <3>4. calls'[n].state \in {"running", "failed"} /\ (calls'[n].state # "failed" => LengthsOK(r))
      BY <1>3
    <3>5. Within(mem, Nil) /\ calls'[n].with \subseteq DOMAIN calls'
      BY <1>2, <1>3, <1>7, FirstArray
    <3> QED BY <1>2, <1>3, <1>6, <3>1, <3>2, <3>3, <3>4, <3>5 DEF CallOK
  <2>4. calls'[n].state = "running" <=> n \in Running'
    BY <1>2, <1>3, <1>7
  <2> QED BY <1>2, <2>1, <2>2, <2>3, <2>4 DEF CallsOK
<1>11. TogetherOK'
  <2>1. ASSUME NEW x \in Client, NEW d \in Client, cur'[x] = cur'[d] PROVE x = d \/ cur'[x] = 0
    <3>1. \A y \in Client : cur[y] # n
      BY <1>5, <1>7 DEF Running
    <3> QED BY <1>2, <2>1, <3>1 DEF PlacesInv, TogetherOK
  <2>2. ASSUME NEW x \in Running', NEW k \in DOMAIN calls', k # x, x < k \/ k \in Running'
        PROVE  x \in calls'[k].with
    <3>1. CASE k = n
      BY <1>2, <1>3, <2>2, <3>1
    <3>2. CASE x = n
      <4>1. k \in DOMAIN calls /\ k \in Running
        BY <1>2, <1>5, <1>7, <2>2, <3>2
      <4> QED BY <1>4, <3>2, <4>1
    <3>3. CASE k # n /\ x # n
      <4>1. k \in DOMAIN calls /\ x \in Running /\ (k \in Running' => k \in Running)
        BY <1>2, <3>3
      <4>2. x \in calls[k].with
        BY <2>2, <4>1 DEF PlacesInv, TogetherOK
      <4> QED BY <1>4, <4>1, <4>2
    <3> QED BY <3>1, <3>2, <3>3
  <2> QED BY <2>1, <2>2 DEF TogetherOK
<1>12. ASSUME NEW d \in Client PROVE ProgramOK(d)' /\ RetOK(d)' /\ OwnOK(d)' /\ PiecesOK(d)'
  <2>1. CASE d = c /\ LengthsOK(r)
    <3>1. cur'[d] = n /\ todo'[d] = Steps(r) /\ work'[d] = NoWork /\ Req(d)' = r
      BY <1>2, <1>3, <2>1 DEF PlacesInv, RetOK, Req
    <3>2. Ahead(d, "Extend")' /\ Ahead(d, "TakeIV")'
      BY <1>8, <2>1, <3>1 DEF Ahead, Has
    <3>3. ProgramOK(d)' /\ RetOK(d)'
      BY <1>5, <1>8, <2>1, <3>1, <3>2 DEF ProgramOK, RetOK, NoWork
    <3>4. PiecesOK(d)'
      BY <3>1, <3>2 DEF PiecesOK, NoWork
    <3>5. ~Owns(d)'
      <4>1. work'[d].ret.arr = 1 /\ calls'[n].arrays = Len(mem) /\ Len(mem) \in Nat /\ 1 \in 1..Len(mem)
        BY <1>3, <3>1, FirstArray DEF NoWork, Nil
      <4> QED BY <3>1, <4>1 DEF Owns
    <3> QED BY <3>3, <3>4, <3>5 DEF OwnOK
  <2>2. CASE ~(d = c /\ LengthsOK(r))
    <3>1. cur'[d] = cur[d] /\ todo'[d] = todo[d] /\ work'[d] = work[d] /\ (cur[d] # 0 => cur[d] \in DOMAIN calls)
      <4>1. cur[d] # 0 => cur[d] \in DOMAIN calls
        BY Runs DEF RunOK
      <4> QED BY <1>2, <2>2, <4>1
    <3>2. cur[d] # 0 => Req(d)' = Req(d)
      BY <1>4, <3>1 DEF Req
    <3>3. (Owns(d)' <=> Owns(d)) /\ \A s : Ahead(d, s)' <=> Ahead(d, s)
      BY <1>4, <3>1 DEF Owns, Ahead
    <3>4. ProgramOK(d)' /\ PiecesOK(d)'
      BY <3>1, <3>2, <3>3 DEF PlacesInv, ProgramOK, PiecesOK
    <3>5. RetOK(d)'
      BY <1>2, <3>1, <3>2, <3>3 DEF PlacesInv, RetOK
    <3>6. OwnOK(d)'
      <4> SUFFICES ASSUME Owns(d)
                   PROVE  /\ \A k \in DOMAIN calls' :
                               work[d].ret.arr \notin {calls'[k].res.arr} \union {calls'[k].req[a].arr : a \in Argument}
                          /\ \A x \in Client : x # d => work[x].ret.arr # work[d].ret.arr
        BY <1>2, <3>1, <3>3 DEF OwnOK
      <4>1. /\ \A k \in DOMAIN calls :
                 work[d].ret.arr \notin {calls[k].res.arr} \union {calls[k].req[a].arr : a \in Argument}
            /\ \A x \in Client : x # d => work[x].ret.arr # work[d].ret.arr
        BY DEF PlacesInv, OwnOK
      <4>2. work[d].ret.arr # Nil.arr
        <5>1. cur[d] # 0
          BY DEF Owns
        <5>2. /\ work[d].ret.arr > calls[cur[d]].arrays /\ Len(Arrays) <= calls[cur[d]].arrays
              /\ calls[cur[d]].arrays \in Nat /\ Len(Arrays) \in Nat /\ 1 \in 1..Len(Arrays)
          BY <3>1, <5>1, CallArrays, FirstArray DEF Owns
        <5> QED BY <5>2 DEF Nil
      <4>3. \A a \in Argument : work[d].ret.arr # r[a].arr
        BY <1>6
      <4>4. ASSUME NEW k \in DOMAIN calls'
            PROVE  work[d].ret.arr \notin {calls'[k].res.arr} \union {calls'[k].req[a].arr : a \in Argument}
        <5>1. CASE k = n
          BY <1>3, <4>2, <4>3, <5>1
        <5>2. CASE k # n
          <6>1. k \in DOMAIN calls /\ calls'[k].res = calls[k].res /\ calls'[k].req = calls[k].req
            BY <1>2, <1>4, <5>2
          <6> QED BY <4>1, <6>1
        <5> QED BY <5>1, <5>2
      <4> QED BY <4>1, <4>4
    <3> QED BY <3>4, <3>5, <3>6
  <2> QED BY <2>1, <2>2
<1> QED BY <1>9, <1>10, <1>11, <1>12 DEF PlacesInv

-----------------------------------------------------------------------------
(* What a call holds while others run.                                      *)

\* The cells of a slice are cells of its array.
LEMMA CellsWithin ==
  ASSUME NEW m, Memory(m), NEW s, Within(m, s), NEW i \in 1..s.len
  PROVE  /\ s.arr \in DOMAIN m /\ s.off + i \in 1..Len(m[s.arr]) /\ s.off + i \in Nat
         /\ <<s.arr, s.off + i>> \in Window(s)
<1>1. /\ s.arr \in DOMAIN m /\ s.off \in Nat /\ s.len \in Nat /\ s.cap \in Nat
      /\ s.len <= s.cap /\ s.off + s.cap <= Len(m[s.arr])
  BY DEF Within, Slice
<1>2. Len(m[s.arr]) \in Nat
  BY <1>1, SeqIsFunction DEF Memory
<1>3. s.off + i \in Nat /\ 1 <= s.off + i /\ s.off + i <= s.off + s.cap
  BY <1>1
<1>4. s.off + i \in 1..Len(m[s.arr])
  <2>1. \A l \in Nat : s.off + s.cap <= l => s.off + i \in 1..l
    BY <1>1, <1>3
  <2> QED BY <1>1, <1>2, <2>1
<1> QED BY <1>1, <1>3, <1>4 DEF Window

\* t is the part of s behind its first k cells, l cells long.
Part(t, s, k, l) ==
  /\ t.arr = s.arr /\ t.off = s.off + k /\ t.len = l
  /\ k \in Nat /\ l \in Nat /\ k + l <= s.len /\ s.off \in Nat /\ s.len \in Nat

\* A part whose cells are kept keeps its content.
LEMMA PartContent ==
  ASSUME NEW m, NEW n, NEW s, NEW t, NEW k, NEW l, Part(t, s, k, l),
         \A i \in (k + 1)..(k + l) : n[s.arr][s.off + i] = m[s.arr][s.off + i]
  PROVE  Content(n, t) = Content(m, t)
<1>1. \A i \in 1..t.len : n[t.arr][t.off + i] = m[t.arr][t.off + i]
  <2> SUFFICES ASSUME NEW i \in 1..t.len PROVE n[t.arr][t.off + i] = m[t.arr][t.off + i]
    OBVIOUS
  <2>1. k + i \in (k + 1)..(k + l) /\ t.off + i = s.off + (k + i) /\ t.arr = s.arr
    BY DEF Part
  <2> QED BY <2>1
<1> QED BY <1>1, SameContent

\* dst, the text and the tag are parts of the output.
LEMMA OutputParts ==
  ASSUME PlacesInv, NEW c \in Client, cur[c] # 0, RetAt(c),
         NEW ret, ret = work[c].ret, NEW d, d = Req(c).dst.len, NEW n, n = Body(Req(c)).len
  PROVE  /\ Part(Upto(ret, d), ret, 0, d) /\ Part(Upto(From(ret, d), n), ret, d, n)
         /\ Part(From(ret, d + n), ret, d + n, Room(Req(c)) - n)
         /\ ret.len = d + Room(Req(c)) /\ Within(mem, ret)
         /\ Req(c).op = "Seal" => Room(Req(c)) = n + tagSize
         /\ Req(c).op = "Open" => Room(Req(c)) = n
<1> DEFINE r == Req(c)
           x == Room(r)
<1>1. /\ RunOK(c) /\ n \in Nat /\ x \in Nat /\ Within(mem, r.dst) /\ Within(mem, ret)
      /\ ret.len = d + x /\ r.op \in {"Seal", "Open"}
      /\ r.op = "Seal" => x = n + tagSize
      /\ r.op = "Open" => x = n
  <2>1. RunOK(c)
    BY Runs
  <2>2. Within(mem, ret) /\ ret.len = d + x
    BY DEF RetAt
  <2> QED BY <2>1, <2>2 DEF RunOK, Argument
<1>2. ret \in Slice /\ ret.off \in Nat /\ ret.len \in Nat /\ d \in Nat
  BY <1>1 DEF Within, Slice
<1> HIDE DEF x
<1>3. n <= x
  BY <1>1, Sizes
<1>4. d \in 0..ret.len /\ d + n \in 0..ret.len
  BY <1>1, <1>2, <1>3
<1>5. Part(Upto(ret, d), ret, 0, d)
  <2>1. Upto(ret, d).arr = ret.arr /\ Upto(ret, d).off = ret.off /\ Upto(ret, d).len = d
    BY <1>2, UptoFields
  <2> QED BY <1>2, <1>4, <2>1 DEF Part
<1>6. Part(Upto(From(ret, d), n), ret, d, n)
  <2> DEFINE u == From(ret, d)
  <2>1. Within(mem, u) /\ u.arr = ret.arr /\ u.off = ret.off + d
    BY <1>1, <1>2, <1>4, SliceFields, SlicesWithin
  <2>2. u \in Slice
    BY <2>1 DEF Within
  <2> HIDE DEF u
  <2>3. Upto(u, n).arr = u.arr /\ Upto(u, n).off = u.off /\ Upto(u, n).len = n
    BY <1>1, <2>2, UptoFields
  <2>4. d + n <= ret.len
    BY <1>4
  <2> QED BY <1>1, <1>2, <2>1, <2>3, <2>4 DEF Part, u
<1>7. Part(From(ret, d + n), ret, d + n, x - n)
  <2>1. /\ From(ret, d + n).arr = ret.arr /\ From(ret, d + n).off = ret.off + (d + n)
        /\ From(ret, d + n).len = ret.len - (d + n)
    BY <1>2, <1>4, SliceFields
  <2>2. ret.len - (d + n) = x - n /\ x - n \in Nat /\ d + n \in Nat /\ (d + n) + (x - n) <= ret.len
    BY <1>1, <1>2, <1>3
  <2> QED BY <1>2, <2>1, <2>2 DEF Part
<1> QED BY <1>1, <1>5, <1>6, <1>7 DEF x

\* A call's arguments and output, as long as nothing writes there.
ArgumentsKept(c) ==
  \A a \in Argument : \A i \in 1..Req(c)[a].len :
    mem'[Req(c)[a].arr][Req(c)[a].off + i] = mem[Req(c)[a].arr][Req(c)[a].off + i]
OutputKept(c) ==
  \A i \in 1..work[c].ret.len :
    mem'[work[c].ret.arr][work[c].ret.off + i] = mem[work[c].ret.arr][work[c].ret.off + i]
Resting(c) ==
  /\ cur'[c] = cur[c] /\ todo'[c] = todo[c] /\ work'[c] = work[c]
  /\ Req(c)' = Req(c) /\ Given(c)' = Given(c)

\* A call that takes no step keeps its data if its arguments and output are
\* kept.
LEMMA RestingData ==
  ASSUME PlacesInv, NEW c \in Client, cur[c] # 0, Resting(c), ArgumentsKept(c),
         ~Ahead(c, "Extend") => OutputKept(c),
         ArgumentsHold(c), LocalsOK(c), OutputOK(c)
  PROVE  ArgumentsHold(c)' /\ LocalsOK(c)' /\ OutputOK(c)'
<1>1. /\ Req(c)' = Req(c) /\ Given(c)' = Given(c) /\ work'[c] = work[c] /\ todo'[c] = todo[c]
      /\ \A s : Ahead(c, s)' <=> Ahead(c, s)
  BY DEF Resting, Ahead
<1>2. ArgumentsHold(c)'
  <2>1. \A a \in Argument : Content(mem', Req(c)[a]) = Content(mem, Req(c)[a])
    BY SameContent DEF ArgumentsKept
  <2> QED BY <1>1, <2>1 DEF ArgumentsHold
<1>3. LocalsOK(c)'
  <2>1. Translated(c)' = Translated(c)
    BY <1>1 DEF Translated
  <2> QED BY <1>1, <2>1 DEF LocalsOK
<1>4. OutputOK(c)'
  <2> DEFINE ret == work[c].ret
             d == Req(c).dst.len
             n == Body(Req(c)).len
  <2>1. Translated(c)' = Translated(c)
    BY <1>1 DEF Translated
  <2>2. CASE Ahead(c, "Extend")
    <3>1. \A s \in {"CopyText"} : Ahead(c, s)
      BY <2>2, Order DEF SealAt, OpenAt
    <3>2. Req(c).op = "Seal" => Ahead(c, "CopyTag")
      BY <2>2, Order DEF SealAt
    <3> QED BY <1>1, <2>2, <3>1, <3>2 DEF OutputOK
  <2>3. CASE ~Ahead(c, "Extend")
    <3>1. /\ Part(Upto(ret, d), ret, 0, d) /\ Part(Upto(From(ret, d), n), ret, d, n)
          /\ Part(From(ret, d + n), ret, d + n, Room(Req(c)) - n)
      BY <2>3, RetFacts, OutputParts
    <3>2. \A i \in 1..ret.len : mem'[ret.arr][ret.off + i] = mem[ret.arr][ret.off + i]
      BY <2>3 DEF OutputKept
    <3> HIDE DEF ret, d, n
    <3>3. ASSUME NEW t, NEW k, NEW l, Part(t, ret, k, l) PROVE Content(mem', t) = Content(mem, t)
      <4>1. \A i \in (k + 1)..(k + l) : i \in 1..ret.len
        BY <3>3 DEF Part
      <4> QED BY <3>2, <3>3, <4>1, PartContent
    <3>4. /\ Content(mem', Upto(ret, d)) = Content(mem, Upto(ret, d))
          /\ Content(mem', Upto(From(ret, d), n)) = Content(mem, Upto(From(ret, d), n))
          /\ Content(mem', From(ret, d + n)) = Content(mem, From(ret, d + n))
      BY <3>1, <3>3
    <3> QED BY <1>1, <2>1, <3>4 DEF OutputOK, ret, d, n
  <2> QED BY <2>2, <2>3
<1> QED BY <1>2, <1>3, <1>4

\* A footprint is in the arrays of dst and of the nonce.
LEMMA FootprintArrays ==
  ASSUME NEW r, r.dst \in Slice, r.nonce \in Slice, NEW a, NEW j, <<a, j>> \in Footprint(r)
  PROVE  a = r.dst.arr \/ a = r.nonce.arr
<1>1. ASSUME NEW s \in Slice, NEW n, <<a, j>> \in Window(Behind(s, n)) PROVE a = s.arr
  <2>1. Behind(s, n).arr = s.arr
    BY DEF Behind, From, Upto, Slice
  <2> QED BY <1>1, <2>1 DEF Window
<1>2. CASE <<a, j>> \in OutputFootprint(r)
  BY <1>1, <1>2 DEF OutputFootprint
<1>3. CASE <<a, j>> \in ResultFootprint(r)
  BY <1>1, <1>3 DEF ResultFootprint
<1> QED BY <1>2, <1>3 DEF Footprint

\* A call that the contract protects keeps what it has in memory while
\* another one takes a step.
LEMMA OthersKept ==
  ASSUME PlacesInv, NEW c \in Client, NEW d \in Client, c # d, cur[c] # 0, cur[d] # 0,
         Undisturbed(cur[d]), Writes(c)
  PROVE  ArgumentsKept(d) /\ (~Ahead(d, "Extend") => OutputKept(d))
<1>1. RunOK(c) /\ RunOK(d) /\ cur[c] \in DOMAIN calls /\ cur[d] \in DOMAIN calls /\ cur[c] # cur[d]
  BY Runs DEF RunOK, PlacesInv, TogetherOK
<1>2. Footprint(Req(c)) \intersect (Reads(Req(d)) \union Footprint(Req(d))) = {}
  <2>1. cur[c] \in Running /\ cur[d] \in Running
    BY <1>1 DEF RunOK
  <2>2. cur[c] \in calls[cur[d]].with
    BY <1>1, <2>1 DEF PlacesInv, TogetherOK
  <2> QED BY <2>2 DEF Undisturbed, Req
<1>3. Memory(mem)
  BY GrowsSame
<1>4. /\ \A a \in Argument : Within(mem, Req(d)[a]) /\ Req(d)[a].arr = calls[cur[d]].req[a].arr
      /\ Req(c).dst \in Slice /\ Req(c).nonce \in Slice
      /\ Req(c).dst.arr = calls[cur[c]].req["dst"].arr /\ Req(c).nonce.arr = calls[cur[c]].req["nonce"].arr
  <2>1. /\ \A a \in Argument : Within(mem, Req(d)[a])
        /\ \A a \in Argument : Within(mem, Req(c)[a])
    BY <1>1 DEF RunOK
  <2>2. Req(c).dst \in Slice /\ Req(c).nonce \in Slice
    BY <2>1 DEF Argument, Within
  <2>3. Req(c) = calls[cur[c]].req /\ Req(d) = calls[cur[d]].req
    BY DEF Req
  <2> QED BY <2>1, <2>2, <2>3
<1>5. ArgumentsKept(d)
  <2> SUFFICES ASSUME NEW a \in Argument, NEW i \in 1..Req(d)[a].len
               PROVE  mem'[Req(d)[a].arr][Req(d)[a].off + i] = mem[Req(d)[a].arr][Req(d)[a].off + i]
    BY DEF ArgumentsKept
  <2> DEFINE s == Req(d)[a]
  <2>1. /\ s.arr \in DOMAIN mem /\ s.off + i \in 1..Len(mem[s.arr]) /\ <<s.arr, s.off + i>> \in Window(s)
    BY <1>3, <1>4, CellsWithin
  <2>2. <<s.arr, s.off + i>> \in Reads(Req(d))
    BY <2>1 DEF Reads
  <2>3. <<s.arr, s.off + i>> \notin Footprint(Req(c))
    BY <1>2, <2>2
  <2>4. ~(Owns(c) /\ s.arr = work[c].ret.arr)
    BY <1>1, <1>4 DEF PlacesInv, OwnOK
  <2> QED BY <2>1, <2>3, <2>4 DEF Writes
<1>6. ASSUME ~Ahead(d, "Extend") PROVE OutputKept(d)
  <2> DEFINE ret == work[d].ret
             r == Req(d)
  <2>1. RetAt(d)
    BY <1>6, RetFacts
  <2> SUFFICES ASSUME NEW i \in 1..ret.len
               PROVE  mem'[ret.arr][ret.off + i] = mem[ret.arr][ret.off + i]
    BY DEF OutputKept
  <2>2. /\ ret.arr \in DOMAIN mem /\ ret.off + i \in 1..Len(mem[ret.arr]) /\ ret.off + i \in Nat
    BY <1>3, <2>1, CellsWithin DEF RetAt
  <2>3. <<ret.arr, ret.off + i>> \notin Footprint(Req(c)) /\ ~(Owns(c) /\ ret.arr = work[c].ret.arr)
    <3>1. CASE Owns(d)
      <4>1. \A n \in DOMAIN calls :
              ret.arr \notin {calls[n].res.arr} \union {calls[n].req[a].arr : a \in Argument}
        BY <3>1 DEF PlacesInv, OwnOK
      <4>2. ret.arr # Req(c).dst.arr /\ ret.arr # Req(c).nonce.arr
        BY <1>1, <1>4, <4>1 DEF Argument
      <4>3. ret.arr # work[c].ret.arr
        BY <3>1 DEF PlacesInv, OwnOK
      <4> QED BY <1>4, <4>2, <4>3, FootprintArrays
    <3>2. CASE ~Owns(d)
      <4>1. Fits(r.dst, Room(r)) /\ ret = Upto(r.dst, r.dst.len + Room(r)) /\ ret.len = r.dst.len + Room(r)
        BY <2>1, <3>2 DEF RetAt
      <4>2. r.dst \in Slice /\ r.dst.len \in Nat /\ Room(r) \in Nat /\ Within(mem, r.dst)
        BY <1>1 DEF RunOK, Argument, Within, Slice
      <4>3. ret.arr = r.dst.arr /\ ret.off = r.dst.off /\ r.dst.off \in Nat
        <5> PICK s : s = r.dst
          OBVIOUS
        <5> PICK m : m = r.dst.len + Room(r)
          OBVIOUS
        <5>1. s \in Slice /\ m \in Nat /\ s.off \in Nat
          BY <4>2 DEF Slice
        <5>2. Upto(s, m).arr = s.arr /\ Upto(s, m).off = s.off
          BY <5>1, UptoFields
        <5> QED BY <4>1, <5>1, <5>2
      <4>4. ~(Owns(c) /\ ret.arr = work[c].ret.arr)
        <5>1. ret.arr = calls[cur[d]].req["dst"].arr
          BY <4>3 DEF Req
        <5> QED BY <1>1, <5>1 DEF PlacesInv, OwnOK, Argument
      <4>5. CASE i \in 1..r.dst.len
        <5>1. <<ret.arr, ret.off + i>> \in Window(r.dst)
          BY <4>3, <4>5 DEF Window
        <5>2. <<ret.arr, ret.off + i>> \in Reads(r)
          BY <5>1 DEF Reads, Argument
        <5> QED BY <1>2, <4>4, <5>2
      <4>6. CASE ~(i \in 1..r.dst.len)
        <5> DEFINE s == From(ret, r.dst.len + 0)
        <5>1. 0 \in 0..Room(r) /\ r.dst.len + 0 = r.dst.len
          BY <4>2
        <5>2. s = From(ret, r.dst.len + 0)
          OBVIOUS
        <5> HIDE DEF s
        <5>3. s.len = Room(r) - 0 /\ s.arr = ret.arr /\ s.off = ret.off + r.dst.len + 0 /\ s.off \in Nat
          BY <2>1, <5>1, <5>2, OutputRest
        <5>4. s.off < ret.off + i /\ ret.off + i <= s.off + s.len /\ s.len \in Nat
          BY <4>1, <4>2, <4>3, <4>6, <5>3
        <5>5. <<ret.arr, ret.off + i>> \in Window(s)
          BY <2>2, <5>3, <5>4, InWindow
        <5>6. s = Behind(r.dst, Room(r))
          BY <4>1, <5>1, <5>2 DEF Behind
        <5>7. <<ret.arr, ret.off + i>> \in Footprint(r)
          BY <4>1, <5>5, <5>6 DEF Footprint, OutputFootprint
        <5> QED BY <1>2, <4>4, <5>7
      <4> QED BY <4>5, <4>6
    <3> QED BY <3>1, <3>2
  <2> QED BY <2>2, <2>3 DEF Writes
<1> QED BY <1>5, <1>6

\* Calls that are still to come can disturb a call, so it is undisturbed only
\* if it was.
LEMMA UndisturbedBefore ==
  ASSUME PlacesInv, NEW n \in DOMAIN calls, Undisturbed(n)', calls[n].with \subseteq calls'[n].with,
         \A k \in DOMAIN calls : calls'[k].req = calls[k].req
  PROVE  Undisturbed(n)
<1>1. calls[n].with \subseteq DOMAIN calls
  BY DEF PlacesInv, CallsOK, CallOK
<1> QED BY <1>1 DEF Undisturbed

\* The calls of other goroutines while c takes a step.
LEMMA OthersData ==
  ASSUME PlacesInv, NEW c \in Client, NEW d \in Client, c # d, cur[c] # 0, cur[d] # 0, DataOK(d),
         Writes(c), cur'[d] = cur[d], todo'[d] = todo[d], work'[d] = work[d],
         \A n \in DOMAIN calls : /\ calls'[n].req = calls[n].req /\ calls'[n].given = calls[n].given
                                 /\ calls[n].with \subseteq calls'[n].with
  PROVE  DataOK(d)'
<1> SUFFICES ASSUME Undisturbed(cur[d])' PROVE ArgumentsHold(d)' /\ LocalsOK(d)' /\ OutputOK(d)'
  BY DEF DataOK
<1>1. cur[d] \in DOMAIN calls
  BY Runs DEF RunOK
<1>2. PICK n \in DOMAIN calls : n = cur[d]
  BY <1>1
<1>3. Undisturbed(n)'
  BY <1>2
<1>4. Undisturbed(cur[d])
  BY <1>2, <1>3, UndisturbedBefore
<1>5. Resting(d)
  BY <1>1 DEF Resting, Req, Given
<1> QED BY <1>4, <1>5, OthersKept, RestingData DEF DataOK

-----------------------------------------------------------------------------
(* What a call learns and writes by its own steps.                          *)

\* A call's data is as it should be, once the contract has been kept.
Data(c) == ArgumentsHold(c) /\ LocalsOK(c) /\ OutputOK(c)

\* In a step after which the call goes on.
LEMMA Same ==
  ASSUME PlacesInv, NEW c \in Client, NEW step, AtStep(c, step), step # "Return", Proceed(c)
  PROVE  /\ Req(c)' = Req(c) /\ Given(c)' = Given(c) /\ Translated(c)' = Translated(c)
         /\ Undisturbed(cur[c])' => Undisturbed(cur[c])
         /\ \A s \in {"Extend", "TakeIV", "CopyText", "BuildMAC"} : Ahead(c, s)' <=> Ahead(c, s) /\ step # s
         /\ Req(c).op = "Seal" => (Ahead(c, "CopyTag")' <=> Ahead(c, "CopyTag") /\ step # "CopyTag")
         /\ Req(c).op = "Open" => (Ahead(c, "Verify")' <=> Ahead(c, "Verify") /\ step # "Verify")
<1>1. cur' = cur /\ calls' = calls /\ Head(todo[c]) = step
  BY Goes
<1>2. Req(c)' = Req(c) /\ Given(c)' = Given(c)
  BY <1>1 DEF Req, Given
<1>3. Translated(c)' = Translated(c)
  BY <1>2 DEF Translated
<1>4. Undisturbed(cur[c])' => Undisturbed(cur[c])
  BY <1>1 DEF Undisturbed
<1> QED BY <1>1, <1>2, <1>3, <1>4, Aheads DEF StillAhead

\* For a step after which the call goes on it is enough that data that was
\* right stays right.
LEMMA OwnData ==
  ASSUME PlacesInv, NEW c \in Client, DataOK(c), NEW step, AtStep(c, step), step # "Return", Proceed(c),
         Undisturbed(cur[c]) /\ Data(c) => Data(c)'
  PROVE  DataOK(c)'
<1>1. cur[c] # 0
  BY DEF AtStep
<1>2. Undisturbed(cur[c])' => Undisturbed(cur[c])
  BY Same
<1> QED BY <1>1, <1>2 DEF DataOK, Data

\* Where the step is.
LEMMA At ==
  ASSUME PlacesInv, NEW c \in Client, NEW step, AtStep(c, step)
  PROVE  /\ cur[c] # 0 /\ RunOK(c) /\ Head(todo[c]) = step /\ Body(Req(c)).len \in Nat
         /\ Req(c).op \in {"Seal", "Open"} /\ \A x : Ahead(c, x) <=> Has(todo[c], x)
         /\ Req(c).op = "Seal" => SealAt(todo[c], Body(Req(c)).len, Len(todo[c]))
         /\ Req(c).op = "Open" => OpenAt(todo[c], Body(Req(c)).len, Len(todo[c]))
BY Order DEF AtStep

\* A step that only reads leaves the arguments and the output as they are.
LEMMA ReadData ==
  ASSUME PlacesInv, NEW c \in Client, NEW step \in {"TakeIV", "Crypt", "BuildMAC", "Verify"},
         AtStep(c, step), Proceed(c), mem' = mem, work'[c].ret = work[c].ret,
         step = "BuildMAC" \/ work'[c].mac = work[c].mac, ArgumentsHold(c), OutputOK(c)
  PROVE  ArgumentsHold(c)' /\ OutputOK(c)'
<1>1. /\ Req(c)' = Req(c) /\ Given(c)' = Given(c) /\ Translated(c)' = Translated(c)
      /\ \A s \in {"Extend", "CopyText"} : Ahead(c, s)' <=> Ahead(c, s)
      /\ Req(c).op = "Seal" => (Ahead(c, "CopyTag")' <=> Ahead(c, "CopyTag"))
  BY Same
<1>2. ArgumentsHold(c)'
  BY <1>1 DEF ArgumentsHold
<1>3. Req(c).op = "Seal" /\ ~Ahead(c, "CopyTag") => work'[c].mac = work[c].mac
  <2>1. CASE step = "BuildMAC" /\ Req(c).op = "Seal"
    <3>1. Ahead(c, "CopyTag")
      BY <2>1, At DEF SealAt
    <3> QED BY <3>1
  <2> QED BY <2>1
<1>4. OutputOK(c)'
  BY <1>1, <1>3 DEF OutputOK
<1> QED BY <1>2, <1>4

\* TakeIV takes the nonce that was given.
LEMMA TakeIVData ==
  ASSUME PlacesInv, NEW c \in Client, TakeIV(c), DataOK(c)
  PROVE  DataOK(c)'
<1>1. /\ AtStep(c, "TakeIV") /\ Proceed(c) /\ mem' = mem
      /\ work'[c].ret = work[c].ret /\ work'[c].mac = work[c].mac /\ work'[c].out = work[c].out
      /\ work'[c].iv = Content(mem, Req(c).nonce)
  BY WorkFields DEF TakeIV
<1> SUFFICES ASSUME Data(c) PROVE Data(c)'
  BY <1>1, OwnData
<1>2. ArgumentsHold(c)' /\ OutputOK(c)'
  BY <1>1, ReadData DEF Data
<1>3. LocalsOK(c)'
  <2>1. Ahead(c, "CopyText")
    BY <1>1, At DEF SealAt, OpenAt
  <2>2. work'[c].iv = Given(c).nonce
    BY <1>1, <2>1 DEF Data, ArgumentsHold, Argument
  <2>3. /\ Given(c)' = Given(c) /\ Translated(c)' = Translated(c) /\ Req(c)' = Req(c)
        /\ Ahead(c, "BuildMAC")' <=> Ahead(c, "BuildMAC")
        /\ Req(c).op = "Open" => (Ahead(c, "Verify")' <=> Ahead(c, "Verify"))
    BY <1>1, Same
  <2>4. Req(c).op \in {"Seal", "Open"}
    BY <1>1, At
  <2> QED BY <1>1, <2>2, <2>3, <2>4 DEF Data, LocalsOK
<1> QED BY <1>2, <1>3 DEF Data

\* The body of a text, in memory and as it was given.
Prefix(t, s, k) == IsSeq(t) /\ Len(t) = k /\ \A i \in 1..k : t[i] = s[i]

\* The first k elements of a sequence.
LEMMA PrefixFacts ==
  ASSUME NEW s, IsSeq(s), NEW k \in 0..Len(s), NEW t, t = SubSeq(s, 1, k)
  PROVE  Prefix(t, s, k)
<1> DEFINE S == Range(s)
<1> HIDE DEF S
<1>1. s \in Seq(S)
  BY DEF IsSeq, S
<1>2. t \in Seq(S) /\ Len(t) = k /\ \A i \in 1..k : t[i] = s[i]
  BY <1>1
<1> QED BY <1>2, TypedIsSeq DEF Prefix

\* The body of a text is its beginning.
LEMMA BodyContent ==
  ASSUME NEW m, NEW r, r.op \in {"Seal", "Open"}, r.text \in Slice, LengthsOK(r)
  PROVE  /\ \A i \in 1..Body(r).len : Content(m, Body(r))[i] = Content(m, r.text)[i]
         /\ IsSeq(Content(m, Body(r))) /\ Len(Content(m, Body(r))) = Body(r).len
         /\ Body(r).len \in 0..r.text.len
<1> DEFINE n == Body(r).len
<1>1. r.text.len \in Nat /\ r.text.off \in Nat
  BY DEF Slice
<1>2. n \in Nat /\ (r.op = "Seal" => n = r.text.len) /\ (r.op = "Open" => n = r.text.len - tagSize)
  BY BodyFacts
<1>3. n \in 0..r.text.len
  BY <1>1, <1>2, Sizes
<1>4. Body(r).arr = r.text.arr /\ Body(r).off = r.text.off
  <2>1. CASE r.op = "Seal"
    BY <2>1 DEF Body
  <2>2. CASE r.op = "Open"
    BY <1>2, <2>2, UptoFields DEF Body
  <2> QED BY <2>1, <2>2
<1>5. IsSeq(Content(m, Body(r))) /\ Len(Content(m, Body(r))) = n
      /\ \A i \in 1..n : Content(m, Body(r))[i] = m[Body(r).arr][Body(r).off + i]
  BY <1>2, ContentFacts
<1>6. \A i \in 1..r.text.len : Content(m, r.text)[i] = m[r.text.arr][r.text.off + i]
  BY <1>1, ContentFacts
<1>7. \A i \in 1..n : i \in 1..r.text.len
  BY <1>1, <1>3
<1> QED BY <1>3, <1>4, <1>5, <1>6, <1>7

\* A piece that comes back is the cell of the given text, encrypted under the
\* given nonce.
LEMMA CryptData ==
  ASSUME PlacesInv, NEW c \in Client, CryptPiece(c), DataOK(c)
  PROVE  DataOK(c)'
<1> DEFINE r == Req(c)
           n == Body(r).len
           i == Len(work[c].out) + 1
           cell == Crypt(work[c].iv, i, Content(mem, Body(r))[i])
<1>1. AtStep(c, "Crypt") /\ Proceed(c) /\ mem' = mem
  BY DEF CryptPiece
<1>2. work'[c].ret = work[c].ret /\ work'[c].mac = work[c].mac /\ work'[c].iv = work[c].iv
  <2>1. \E x : work' = [work EXCEPT ![c].out = x]
    BY DEF CryptPiece
  <2> QED BY <2>1, WorkFields
<1> SUFFICES ASSUME Data(c) PROVE Data(c)'
  BY <1>1, OwnData
<1>3. ArgumentsHold(c)' /\ OutputOK(c)'
  BY <1>1, <1>2, ReadData DEF Data
<1>4. RunOK(c) /\ n \in Nat /\ r.op \in {"Seal", "Open"} /\ Ahead(c, "CopyText") /\ ~Ahead(c, "TakeIV")
  BY <1>1, At DEF SealAt, OpenAt
<1>5. i \in 1..n
  <2>1. Len(work[c].out) = n + After(r) - Len(todo[c])
    BY <1>1, <1>4 DEF PlacesInv, PiecesOK, AtStep
  <2>2. Len(todo[c]) \in (After(r) + 1)..(n + After(r))
    <3>1. Head(todo[c]) = "Crypt"
      BY <1>1 DEF AtStep
    <3>2. CASE r.op = "Seal"
      <4>1. Len(todo[c]) \in 5..(n + 4)
        BY <1>4, <3>1, <3>2 DEF RunOK, SealEnd
      <4> QED BY <3>2, <4>1 DEF After
    <3>3. CASE r.op = "Open"
      <4>1. Len(todo[c]) \in 3..(n + 2)
        BY <1>4, <3>1, <3>3 DEF RunOK, OpenEnd
      <4> QED BY <3>3, <4>1 DEF After
    <3> QED BY <1>4, <3>2, <3>3
  <2>3. \A l, a : a \in Nat /\ l \in (a + 1)..(n + a) => n + a - l + 1 \in 1..n
    BY <1>4
  <2>4. After(r) \in Nat
    BY DEF After
  <2> QED BY <2>1, <2>2, <2>3, <2>4
<1>6. Content(mem, Body(r))[i] = Given(c).text[i]
  <2>1. r.text \in Slice /\ LengthsOK(r)
    BY <1>4 DEF RunOK, Argument, Within
  <2>2. Content(mem, r.text) = Given(c).text
    BY <1>4 DEF Data, ArgumentsHold, Argument
  <2> QED BY <1>4, <1>5, <2>1, <2>2, BodyContent
<1>7. work[c].iv = Given(c).nonce
  BY <1>4 DEF Data, LocalsOK
<1>8. cell = Translated(c)[i]
  BY <1>5, <1>6, <1>7 DEF Translated
<1>9. Longer(work'[c].out, work[c].out, cell)
  BY CryptPlaces
<1> HIDE DEF cell
<1>10. \A j \in 1..Len(work'[c].out) : work'[c].out[j] = Translated(c)[j]
  <2>1. \A j \in 1..Len(work[c].out) : work[c].out[j] = Translated(c)[j]
    BY DEF Data, LocalsOK
  <2>2. \A j \in 1..Len(work'[c].out) : j \in 1..Len(work[c].out) \/ j = i
    BY <1>9, WorkFields DEF Longer
  <2> QED BY <1>8, <1>9, <2>1, <2>2 DEF Longer
<1>11. LocalsOK(c)'
  <2>1. /\ Given(c)' = Given(c) /\ Translated(c)' = Translated(c) /\ Req(c)' = Req(c)
        /\ Ahead(c, "BuildMAC")' <=> Ahead(c, "BuildMAC")
        /\ Ahead(c, "TakeIV")' <=> Ahead(c, "TakeIV")
        /\ Req(c).op = "Open" => (Ahead(c, "Verify")' <=> Ahead(c, "Verify"))
    BY <1>1, Same
  <2> QED BY <1>2, <1>4, <1>10, <2>1 DEF Data, LocalsOK
<1> QED BY <1>3, <1>11 DEF Data

\* The body and the tag of an Open's text, as given.
LEMMA GivenText ==
  ASSUME NEW r, r.op = "Open", r.text \in Slice, LengthsOK(r), NEW m,
         NEW g, IsSeq(g.text), Len(g.text) = r.text.len, Content(m, r.text) = g.text
  PROVE  /\ Content(m, Body(r)) = GivenBody(g) /\ Content(m, ExpectedTag(r)) = GivenTag(g)
         /\ Len(GivenBody(g)) = Body(r).len /\ IsSeq(GivenBody(g))
         /\ \A i \in 1..Body(r).len : GivenBody(g)[i] = g.text[i]
<1> DEFINE n == Body(r).len
           l == r.text.len
           b == GivenBody(g)
           t == GivenTag(g)
<1>1. l \in Nat /\ n \in Nat /\ n = l - tagSize /\ r.text.off \in Nat
  BY BodyFacts DEF Slice
<1>2. n \in 0..l /\ n + 1 \in 1..(l + 1)
  BY SMTT(20), <1>1, Sizes
<1>3. b = SubSeq(g.text, 1, n) /\ t = SubSeq(g.text, n + 1, l)
  BY <1>1 DEF GivenBody, GivenTag
<1> HIDE DEF b, t
<1>4. IsSeq(b) /\ Len(b) = n /\ \A i \in 1..n : b[i] = g.text[i]
  <2> PICK x : x = g.text
    OBVIOUS
  <2> PICK k : k = n
    OBVIOUS
  <2>1. IsSeq(x) /\ k \in 0..Len(x) /\ b = SubSeq(x, 1, k)
    BY <1>2, <1>3
  <2>2. Prefix(b, x, k)
    BY <2>1, PrefixFacts
  <2> QED BY <2>2 DEF Prefix
<1>5. IsSeq(t) /\ Len(t) = l + 1 - (n + 1) /\ \A i \in 1..Len(t) : t[i] = g.text[(n + 1) + i - 1]
  <2>1. Rest(t, g.text, n + 1)
    BY <1>2, <1>3, SubSeqFacts
  <2> QED BY <2>1 DEF Rest
<1>6. Content(m, Body(r)) = b
  <2> DEFINE x == Content(m, Body(r))
  <2>1. IsSeq(x) /\ Len(x) = n /\ \A i \in 1..n : x[i] = g.text[i]
    BY BodyContent
  <2> HIDE DEF x
  <2>2. x = b
    BY <1>4, <2>1, SameSeq
  <2> QED BY <2>2 DEF x
<1>7. Content(m, ExpectedTag(r)) = t
  <2> DEFINE e == ExpectedTag(r)
             x == Content(m, e)
  <2>1. e.arr = r.text.arr /\ e.off = r.text.off + n /\ e.len = l - n
    BY <1>1, <1>2, SliceFields DEF ExpectedTag
  <2>2. l - n = tagSize /\ e.len \in Nat /\ l + 1 - (n + 1) = l - n
    BY <1>1, <2>1, Sizes
  <2>3. IsSeq(x) /\ Len(x) = l - n /\ \A i \in 1..(l - n) : x[i] = m[e.arr][e.off + i]
    BY <2>1, <2>2, ContentFacts
  <2>4. \A j \in 1..l : Content(m, r.text)[j] = m[r.text.arr][r.text.off + j]
    BY <1>1, ContentFacts
  <2>5. ASSUME NEW i \in 1..(l - n) PROVE x[i] = t[i]
    <3>1. n + i \in 1..l /\ (n + 1) + i - 1 = n + i /\ e.off + i = r.text.off + (n + i)
      <4> HIDE DEF n, l, e
      <4>1. n \in Nat /\ l \in Nat /\ i \in Nat /\ 1 <= i /\ i <= l - n
        BY <1>1, <2>5
      <4>2. n + i \in 1..l /\ (n + 1) + i - 1 = n + i
        BY <4>1
      <4>3. \A o \in Nat : (o + n) + i = o + (n + i)
        BY <4>1
      <4> QED BY <1>1, <2>1, <4>2, <4>3
    <3>2. Content(m, r.text)[n + i] = m[r.text.arr][r.text.off + (n + i)]
      BY <2>4, <3>1
    <3>3. i \in 1..Len(t)
      BY <1>5, <2>2
    <3>4. t[i] = g.text[n + i]
      BY <1>5, <3>1, <3>3
    <3> QED BY <2>1, <2>3, <3>1, <3>2, <3>4
  <2> HIDE DEF x
  <2>6. x = t
    BY <1>5, <2>2, <2>3, <2>5, SameSeq
  <2> QED BY <2>6 DEF x
<1> QED BY <1>4, <1>6, <1>7 DEF b, t

\* What a call was given is as long as its slices.
LEMMA GivenFacts ==
  ASSUME PlacesInv, NEW c \in Client, cur[c] # 0
  PROVE  /\ Req(c).text \in Slice /\ LengthsOK(Req(c)) /\ Req(c).op \in {"Seal", "Open"}
         /\ \A a \in Argument : IsSeq(Given(c)[a]) /\ Len(Given(c)[a]) = Req(c)[a].len
<1>1. RunOK(c)
  BY Runs
<1>2. Within(mem, Req(c).text)
  BY <1>1 DEF RunOK, Argument
<1> QED BY <1>1, <1>2 DEF RunOK, Given, Within

\* The MAC is over the given nonce and additional data, and over the
\* ciphertext: the one given to Open, the one Seal has made.
LEMMA BuildMACData ==
  ASSUME PlacesInv, NEW c \in Client, BuildMAC(c), DataOK(c)
  PROVE  DataOK(c)'
<1> DEFINE r == Req(c)
           g == Given(c)
           ct == IF r.op = "Seal" THEN Upto(From(work[c].ret, r.dst.len), r.text.len) ELSE Body(r)
<1>1. /\ AtStep(c, "BuildMAC") /\ Proceed(c) /\ mem' = mem
      /\ work'[c].ret = work[c].ret /\ work'[c].iv = work[c].iv /\ work'[c].out = work[c].out
      /\ work'[c].mac = MacInput(Content(mem, r.nonce), Content(mem, r.aad), Content(mem, ct))
  <2>1. work' = [work EXCEPT ![c].mac = MacInput(Content(mem, r.nonce), Content(mem, r.aad), Content(mem, ct))]
    BY DEF BuildMAC
  <2>2. AtStep(c, "BuildMAC") /\ Proceed(c) /\ mem' = mem
    BY DEF BuildMAC
  <2> HIDE DEF r, ct
  <2> QED BY <2>1, <2>2, WorkFields
<1> SUFFICES ASSUME Data(c) PROVE Data(c)'
  BY <1>1, OwnData
<1>2. ArgumentsHold(c)' /\ OutputOK(c)'
  BY <1>1, ReadData DEF Data
<1>3. cur[c] # 0 /\ r.op \in {"Seal", "Open"} /\ RunOK(c)
  BY <1>1, At
<1>4. Content(mem, r.nonce) = g.nonce /\ Content(mem, r.aad) = g.aad
  <2>1. Ahead(c, "CopyText") \/ r.op = "Seal"
    <3>1. CASE r.op = "Open"
      BY <1>1, <3>1, At DEF OpenAt
    <3> QED BY <1>3, <3>1
  <2> QED BY <2>1 DEF Data, ArgumentsHold, Argument
<1>5. Content(mem, ct) = IF r.op = "Seal" THEN Translated(c) ELSE GivenBody(g)
  <2>1. CASE r.op = "Seal"
    <3>1. ~Ahead(c, "CopyText")
      BY <1>1, <2>1, At DEF SealAt
    <3>2. Body(r).len = r.text.len
      BY <1>3, <2>1 DEF RunOK
    <3> QED BY <2>1, <3>1, <3>2 DEF Data, OutputOK
  <2>2. CASE r.op = "Open"
    <3>1. Ahead(c, "CopyText")
      BY <1>1, <2>2, At DEF OpenAt
    <3>2. Content(mem, r.text) = g.text
      BY <3>1 DEF Data, ArgumentsHold, Argument
    <3>3. IsSeq(g.text) /\ Len(g.text) = r.text.len /\ r.text \in Slice /\ LengthsOK(r)
      BY <1>3, GivenFacts DEF Argument
    <3> QED BY <2>2, <3>2, <3>3, GivenText
  <2> QED BY <1>3, <2>1, <2>2
<1> HIDE DEF ct
<1>6. LocalsOK(c)'
  <2>1. /\ Given(c)' = g /\ Translated(c)' = Translated(c) /\ Req(c)' = r
        /\ Ahead(c, "TakeIV")' <=> Ahead(c, "TakeIV")
        /\ Req(c).op = "Open" => (Ahead(c, "Verify")' <=> Ahead(c, "Verify"))
    BY <1>1, Same
  <2>2. work'[c].mac = MacInput(g.nonce, g.aad, IF r.op = "Seal" THEN Translated(c) ELSE GivenBody(g))
    BY <1>1, <1>4, <1>5
  <2> QED BY <1>1, <1>3, <2>1, <2>2 DEF Data, LocalsOK
<1> QED BY <1>2, <1>6 DEF Data

\* What Open compares, when nobody has disturbed it.
LEMMA Compared ==
  ASSUME PlacesInv, NEW c \in Client, AtStep(c, "Verify"), Data(c)
  PROVE  Content(mem, ExpectedTag(Req(c))) = Tag(work[c].mac) <=> Authentic(Given(c))
<1> DEFINE r == Req(c)
           g == Given(c)
<1>1. cur[c] # 0 /\ r.op = "Open" /\ Ahead(c, "CopyText") /\ ~Ahead(c, "BuildMAC")
  BY At DEF SealAt, OpenAt
<1>2. Content(mem, r.text) = g.text
  BY <1>1 DEF Data, ArgumentsHold, Argument
<1>3. /\ IsSeq(g.text) /\ Len(g.text) = r.text.len /\ r.text \in Slice /\ LengthsOK(r)
      /\ Len(g.nonce) = r.nonce.len
  BY <1>1, GivenFacts DEF Argument
<1>4. Content(mem, ExpectedTag(r)) = GivenTag(g)
  BY <1>1, <1>2, <1>3, GivenText
<1>5. work[c].mac = MacInput(g.nonce, g.aad, GivenBody(g))
  BY <1>1 DEF Data, LocalsOK
<1>6. Len(g.nonce) = nonceSize /\ Len(g.text) >= tagSize
  BY <1>1, <1>3 DEF LengthsOK
<1> QED BY <1>4, <1>5, <1>6 DEF Authentic

\* An Open that goes on after Verify was given an authentic input.
LEMMA VerifiedData ==
  ASSUME PlacesInv, NEW c \in Client, Verify(c), DataOK(c),
         Content(mem, ExpectedTag(Req(c))) = Tag(work[c].mac)
  PROVE  DataOK(c)'
<1>1. AtStep(c, "Verify") /\ Proceed(c) /\ mem' = mem /\ work' = work
  BY DEF Verify
<1> SUFFICES ASSUME Data(c) PROVE Data(c)'
  BY <1>1, OwnData
<1>2. ArgumentsHold(c)' /\ OutputOK(c)'
  BY <1>1, ReadData DEF Data
<1>3. Authentic(Given(c))
  BY <1>1, Compared
<1>4. LocalsOK(c)'
  <2>1. /\ Given(c)' = Given(c) /\ Translated(c)' = Translated(c) /\ Req(c)' = Req(c)
        /\ Ahead(c, "BuildMAC")' <=> Ahead(c, "BuildMAC")
        /\ Ahead(c, "TakeIV")' <=> Ahead(c, "TakeIV")
    BY <1>1, Same
  <2> QED BY <1>1, <1>3, <2>1 DEF Data, LocalsOK
<1> QED BY <1>2, <1>4 DEF Data

\* The extended output begins with the dst that was given.
LEMMA ExtendData ==
  ASSUME PlacesInv, NEW c \in Client, Extend(c), DataOK(c)
  PROVE  DataOK(c)'
<1> DEFINE r == Req(c)
<1>1. AtStep(c, "Extend") /\ Proceed(c)
  BY DEF Extend
<1>2. /\ work'[c].iv = work[c].iv /\ work'[c].out = work[c].out /\ work'[c].mac = work[c].mac
      /\ \A a \in DOMAIN mem : a \in DOMAIN mem' /\ mem'[a] = mem[a]
      /\ Content(mem', Upto(work'[c].ret, r.dst.len)) = Content(mem, r.dst)
  BY ExtendPlaces
<1> SUFFICES ASSUME Data(c) PROVE Data(c)'
  BY <1>1, OwnData
<1>3. cur[c] # 0 /\ RunOK(c) /\ r.op \in {"Seal", "Open"} /\ Ahead(c, "CopyText")
      /\ (r.op = "Seal" => Ahead(c, "CopyTag"))
  BY <1>1, At DEF SealAt, OpenAt
<1>4. /\ r' = r /\ Given(c)' = Given(c) /\ Translated(c)' = Translated(c)
      /\ \A s \in {"TakeIV", "CopyText", "BuildMAC"} : Ahead(c, s)' <=> Ahead(c, s)
      /\ r.op = "Seal" => (Ahead(c, "CopyTag")' <=> Ahead(c, "CopyTag"))
      /\ r.op = "Open" => (Ahead(c, "Verify")' <=> Ahead(c, "Verify"))
  BY <1>1, Same
<1>5. \A a \in Argument : Content(mem', r[a]) = Content(mem, r[a])
  <2>1. \A a \in Argument : r[a].arr \in DOMAIN mem
    BY <1>3 DEF RunOK, Within
  <2> QED BY <1>2, <2>1 DEF Content
<1>6. ArgumentsHold(c)'
  BY <1>4, <1>5 DEF Data, ArgumentsHold
<1>7. LocalsOK(c)'
  BY <1>2, <1>3, <1>4 DEF Data, LocalsOK
<1>8. OutputOK(c)'
  <2>1. Content(mem, r.dst) = Given(c).dst
    BY <1>3 DEF Data, ArgumentsHold, Argument
  <2> QED BY <1>2, <1>3, <1>4, <2>1 DEF OutputOK
<1> QED BY <1>6, <1>7, <1>8 DEF Data

\* Writing to a part of the output leaves alone what comes before that part.
LEMMA CopyKeepsBefore ==
  ASSUME PlacesInv, NEW c \in Client, cur[c] # 0, NEW s, NEW data, Copied(c, s, data),
         NEW ret, ret = work[c].ret, s.len \in Nat, NEW m \in Nat, s.off = ret.off + m,
         NEW t, NEW k, NEW l, Part(t, ret, k, l), k + l <= m
  PROVE  Content(mem', t) = Content(mem, t)
<1>1. Within(mem, ret) /\ ret.off \in Nat
  BY DEF Copied, RetAt, Part
<1>2. \A i \in (k + 1)..(k + l) : mem'[ret.arr][ret.off + i] = mem[ret.arr][ret.off + i]
  <2> SUFFICES ASSUME NEW i \in (k + 1)..(k + l)
               PROVE  mem'[ret.arr][ret.off + i] = mem[ret.arr][ret.off + i]
    OBVIOUS
  <2>1. i \in 1..ret.len /\ i <= m
    BY DEF Part
  <2>2. ret.arr \in DOMAIN mem /\ ret.off + i \in 1..Len(mem[ret.arr]) /\ ret.off + i \in Nat
    BY <1>1, <2>1, GrowsSame, CellsWithin
  <2>3. ~(s.off < ret.off + i) /\ s.off \in Nat
    BY <1>1, <2>1
  <2>4. <<ret.arr, ret.off + i>> \notin Window(s)
    BY <2>2, <2>3, InWindow
  <2> QED BY <2>2, <2>4 DEF Copied
<1> QED BY <1>2, PartContent

\* ... and, for Seal, the nonce and the additional data.
LEMMA CopyKeepsArguments ==
  ASSUME PlacesInv, NEW c \in Client, cur[c] # 0, NEW s, NEW data, Copied(c, s, data),
         Undisturbed(cur[c]), Req(c).op = "Seal", NEW a \in {"nonce", "aad"}
  PROVE  Content(mem', Req(c)[a]) = Content(mem, Req(c)[a])
<1> DEFINE x == Req(c)[a]
<1>1. RunOK(c) /\ cur[c] \in DOMAIN calls /\ a \in Argument
  BY Runs DEF RunOK, Argument
<1>2. Within(mem, x) /\ x.arr = calls[cur[c]].req[a].arr
  BY <1>1 DEF RunOK, Req
<1>3. \A i \in 1..x.len : mem'[x.arr][x.off + i] = mem[x.arr][x.off + i]
  <2> SUFFICES ASSUME NEW i \in 1..x.len PROVE mem'[x.arr][x.off + i] = mem[x.arr][x.off + i]
    OBVIOUS
  <2>1. /\ x.arr \in DOMAIN mem /\ x.off + i \in 1..Len(mem[x.arr])
        /\ <<x.arr, x.off + i>> \in Window(x)
    BY <1>2, GrowsSame, CellsWithin
  <2>2. <<x.arr, x.off + i>> \notin OutputFootprint(Req(c))
    <3>1. OutputFootprint(Req(c)) \intersect (Window(Req(c).nonce) \union Window(Req(c).aad)) = {}
      BY DEF Undisturbed, Req
    <3> QED BY <2>1, <3>1
  <2>3. ~(Owns(c) /\ x.arr = work[c].ret.arr)
    BY <1>1, <1>2 DEF PlacesInv, OwnOK
  <2> QED BY <2>1, <2>2, <2>3 DEF Copied
<1> HIDE DEF x
<1>4. Content(mem', x) = Content(mem, x)
  BY <1>3, SameContent
<1> QED BY <1>4 DEF x

\* After CopyText the output holds dst and the whole text.
LEMMA CopyTextData ==
  ASSUME PlacesInv, NEW c \in Client, CopyText(c), DataOK(c)
  PROVE  DataOK(c)'
<1> DEFINE r == Req(c)
           ret == work[c].ret
           out == work[c].out
           d == r.dst.len
           n == Body(r).len
           s == From(ret, d)
<1>1. AtStep(c, "CopyText") /\ Proceed(c) /\ work' = work
  BY DEF CopyText
<1>2. Copied(c, s, out) /\ Len(out) = n
  BY CopyTextPlaces
<1> SUFFICES ASSUME Undisturbed(cur[c]), Data(c) PROVE Data(c)'
  BY <1>1, OwnData
<1>3. /\ cur[c] # 0 /\ RunOK(c) /\ r.op \in {"Seal", "Open"} /\ ~Ahead(c, "TakeIV") /\ ~Ahead(c, "Extend")
      /\ (r.op = "Seal" => Ahead(c, "CopyTag"))
  BY <1>1, At DEF SealAt, OpenAt
<1>4. /\ r' = r /\ Given(c)' = Given(c) /\ Translated(c)' = Translated(c)
      /\ \A x \in {"Extend", "TakeIV", "BuildMAC"} : Ahead(c, x)' <=> Ahead(c, x)
      /\ ~Ahead(c, "CopyText")'
      /\ r.op = "Seal" => (Ahead(c, "CopyTag")' <=> Ahead(c, "CopyTag"))
      /\ r.op = "Open" => (Ahead(c, "Verify")' <=> Ahead(c, "Verify"))
  BY <1>1, Same
<1>5. ArgumentsHold(c)'
  <2>1. ASSUME r.op = "Seal", NEW a \in {"nonce", "aad"} PROVE Content(mem', r[a]) = Given(c)[a]
    <3>1. Content(mem', r[a]) = Content(mem, r[a])
      BY <1>2, <1>3, <2>1, CopyKeepsArguments
    <3> QED BY <2>1, <3>1 DEF Data, ArgumentsHold, Argument
  <2> QED BY <1>4, <2>1 DEF ArgumentsHold
<1>6. LocalsOK(c)'
  BY <1>1, <1>3, <1>4 DEF Data, LocalsOK
<1>7. OutputOK(c)'
  <2>1. /\ Part(Upto(ret, d), ret, 0, d) /\ Part(Upto(From(ret, d), n), ret, d, n) /\ ret.len = d + Room(r)
        /\ Within(mem, ret)
    BY <1>3, RetFacts, OutputParts
  <2>2. s.len \in Nat /\ d \in Nat /\ s.off = ret.off + d /\ n \in Nat /\ s.arr = ret.arr
    <3>1. d \in Nat /\ n \in Nat /\ ret.off \in Nat /\ ret.len \in Nat /\ d <= ret.len /\ ret \in Slice
      BY <2>1 DEF Part, Within
    <3>2. d \in 0..ret.len
      BY <3>1
    <3>3. s.arr = ret.arr /\ s.off = ret.off + d /\ s.len = ret.len - d
      BY <3>1, <3>2, SliceFields
    <3> QED BY <3>1, <3>3
  <2>3. Content(mem', Upto(ret, d)) = Content(mem, Upto(ret, d))
    <3> DEFINE t == Upto(ret, d)
    <3>1. Part(t, ret, 0, d) /\ 0 + d <= d
      BY <2>1, <2>2
    <3> HIDE DEF t, s, d, out
    <3>2. Content(mem', t) = Content(mem, t)
      BY <1>2, <1>3, <2>2, <3>1, CopyKeepsBefore
    <3> QED BY <3>2 DEF t
  <2>4. Content(mem', Upto(From(ret, d), n)) = Translated(c)
    <3> DEFINE t == Upto(From(ret, d), n)
    <3>1. t.arr = s.arr /\ t.off = s.off /\ t.len = n
      BY <2>1, <2>2 DEF Part
    <3>2. \A i \in 1..n : mem'[t.arr][t.off + i] = Translated(c)[i]
      <4>1. \A i \in 1..n : mem'[s.arr][s.off + i] = out[i]
        BY <1>2 DEF Copied
      <4>2. \A i \in 1..n : out[i] = Translated(c)[i]
        BY <1>2 DEF Data, LocalsOK
      <4> QED BY <3>1, <4>1, <4>2
    <3> HIDE DEF t
    <3>3. Translated(c) = [i \in 1..n |-> Translated(c)[i]]
      BY DEF Translated
    <3>4. Content(mem', t) = [i \in 1..n |-> Translated(c)[i]]
      BY <3>1, <3>2 DEF Content
    <3> QED BY <3>3, <3>4 DEF t
  <2>5. Content(mem, Upto(ret, d)) = Given(c).dst
    BY <1>3 DEF Data, OutputOK
  <2> QED BY <1>1, <1>3, <1>4, <2>3, <2>4, <2>5 DEF OutputOK
<1> QED BY <1>5, <1>6, <1>7 DEF Data

\* After CopyTag it holds the tag as well.
LEMMA CopyTagData ==
  ASSUME PlacesInv, NEW c \in Client, CopyTag(c), DataOK(c)
  PROVE  DataOK(c)'
<1> DEFINE r == Req(c)
           ret == work[c].ret
           tag == Tag(work[c].mac)
           d == r.dst.len
           n == Body(r).len
           s == From(ret, d + n)
<1>1. AtStep(c, "CopyTag") /\ Proceed(c) /\ work' = work
  BY DEF CopyTag
<1>2. /\ cur[c] # 0 /\ RunOK(c) /\ r.op = "Seal" /\ ~Ahead(c, "BuildMAC") /\ ~Ahead(c, "CopyText")
      /\ ~Ahead(c, "TakeIV") /\ ~Ahead(c, "Extend")
  BY <1>1, At DEF SealAt, OpenAt
<1>3. Copied(c, s, tag)
  <2>1. n = r.text.len
    BY <1>2 DEF RunOK
  <2> QED BY <2>1, CopyTagPlaces
<1> SUFFICES ASSUME Undisturbed(cur[c]), Data(c) PROVE Data(c)'
  BY <1>1, OwnData
<1>4. /\ r' = r /\ Given(c)' = Given(c) /\ Translated(c)' = Translated(c)
      /\ \A x \in {"Extend", "TakeIV", "CopyText", "BuildMAC"} : Ahead(c, x)' <=> Ahead(c, x)
  BY <1>1, Same
<1>5. ArgumentsHold(c)'
  <2>1. ASSUME NEW a \in {"nonce", "aad"} PROVE Content(mem', r[a]) = Given(c)[a]
    <3>1. Content(mem', r[a]) = Content(mem, r[a])
      BY <1>2, <1>3, CopyKeepsArguments
    <3> QED BY <1>2, <3>1 DEF Data, ArgumentsHold, Argument
  <2> QED BY <1>2, <1>4, <2>1 DEF ArgumentsHold
<1>6. LocalsOK(c)'
  BY <1>1, <1>2, <1>4 DEF Data, LocalsOK
<1>7. OutputOK(c)'
  <2>1. /\ Part(Upto(ret, d), ret, 0, d) /\ Part(Upto(From(ret, d), n), ret, d, n)
        /\ Part(s, ret, d + n, Room(r) - n) /\ Room(r) = n + tagSize
    BY <1>2, RetFacts, OutputParts
  <2>2. /\ d \in Nat /\ n \in Nat /\ d + n \in Nat /\ s.off = ret.off + (d + n) /\ s.arr = ret.arr
        /\ Room(r) - n = tagSize /\ s.len = tagSize /\ s.len \in Nat
    BY <2>1, Sizes DEF Part
  <2>3. ASSUME NEW t, NEW k, NEW l, Part(t, ret, k, l), k + l <= d + n
        PROVE  Content(mem', t) = Content(mem, t)
    <3> HIDE DEF s, d, n, tag
    <3> QED BY <1>2, <1>3, <2>2, <2>3, CopyKeepsBefore
  <2>4. /\ Content(mem', Upto(ret, d)) = Content(mem, Upto(ret, d))
        /\ Content(mem', Upto(From(ret, d), n)) = Content(mem, Upto(From(ret, d), n))
    <3>1. 0 + d <= d + n /\ d + n <= d + n
      BY <2>2
    <3> HIDE DEF d, n
    <3> QED BY <2>1, <2>3, <3>1
  <2>5. Content(mem', s) = tag
    <3>1. /\ tag = [i \in 1..tagSize |-> tag[i]] /\ Len(tag) = tagSize
      BY TagFacts DEF Tag
    <3>2. \A i \in 1..tagSize : mem'[s.arr][s.off + i] = tag[i]
      BY <1>3, <3>1 DEF Copied
    <3> HIDE DEF s, tag
    <3>3. Content(mem', s) = [i \in 1..tagSize |-> tag[i]]
      BY <2>2, <3>2 DEF Content
    <3> QED BY <3>1, <3>3
  <2>6. /\ Content(mem, Upto(ret, d)) = Given(c).dst
        /\ Content(mem, Upto(From(ret, d), n)) = Translated(c)
    BY <1>2 DEF Data, OutputOK
  <2> QED BY <1>1, <1>2, <1>4, <2>4, <2>5, <2>6 DEF OutputOK
<1> QED BY <1>5, <1>6, <1>7 DEF Data

-----------------------------------------------------------------------------
(* Results.                                                                 *)

\* The properties of a single call.
SealedOK(n) ==
  calls[n].req.op = "Seal" /\ calls[n].state = "ok" /\ Undisturbed(n) =>
    LET g == calls[n].given
    IN calls[n].value = g.nonce \o g.dst \o Encrypted(g) \o Tag(MacInput(g.nonce, g.aad, Encrypted(g)))
OpenedOK(n) ==
  calls[n].req.op = "Open" /\ Undisturbed(n) =>
    LET g == calls[n].given
    IN /\ calls[n].state = "ok" =>
            /\ Authentic(g)
            /\ calls[n].value = g.dst \o [i \in DOMAIN GivenBody(g) |-> Crypt(g.nonce, i, g.text[i])]
       /\ calls[n].state = "failed" => ~Authentic(g)
KeptOK(n) ==
  calls[n].state = "ok" =>
    \/ Content(mem, calls[n].res) = calls[n].value
    \/ \E k \in calls[n].with \union (n + 1)..Len(calls) :
         Footprint(calls[k].req) \intersect Window(calls[n].res) # {}
Results == \A n \in DOMAIN calls : SealedOK(n) /\ OpenedOK(n) /\ KeptOK(n)

\* The invariant in its parts.
LEMMA InvParts ==
  IInv <=> PlacesInv /\ (\A c \in Client : DataOK(c)) /\ Results
<1>1. SealedFromArguments <=> \A n \in DOMAIN calls : SealedOK(n)
  BY DEF SealedFromArguments, SealedOK
<1>2. OpenedFromArguments <=> \A n \in DOMAIN calls : OpenedOK(n)
  BY DEF OpenedFromArguments, OpenedOK
<1>3. ResultsKept <=> \A n \in DOMAIN calls : KeptOK(n)
  BY DEF ResultsKept, KeptOK
<1> QED BY <1>1, <1>2, <1>3 DEF IInv, Results

\* The records of calls are kept, but for the calls that are made while they
\* run; there may be new ones.
RecordsKept ==
  \A n \in DOMAIN calls :
    /\ n \in DOMAIN calls' /\ calls'[n].req = calls[n].req /\ calls'[n].given = calls[n].given
    /\ calls[n].with \subseteq calls'[n].with
SameResult(n) ==
  calls'[n].state = calls[n].state /\ calls'[n].res = calls[n].res /\ calls'[n].value = calls[n].value

\* The values that were returned stay what they should be.
LEMMA OldResult ==
  ASSUME PlacesInv, Results, RecordsKept, NEW n \in DOMAIN calls, SameResult(n)
  PROVE  SealedOK(n)' /\ OpenedOK(n)'
<1>1. /\ calls'[n].req = calls[n].req /\ calls'[n].given = calls[n].given
      /\ calls'[n].state = calls[n].state /\ calls'[n].value = calls[n].value
  BY DEF RecordsKept, SameResult
<1>2. Undisturbed(n)' => Undisturbed(n)
  BY UndisturbedBefore DEF RecordsKept
<1>3. SealedOK(n) /\ OpenedOK(n)
  BY DEF Results
<1>4. SealedOK(n)'
  BY <1>1, <1>2, <1>3 DEF SealedOK
<1>5. OpenedOK(n)'
  BY <1>1, <1>2, <1>3 DEF OpenedOK
<1> QED BY <1>4, <1>5

\* Room once given away in a result stays given away.
LEMMA OldRoom ==
  ASSUME PlacesInv, RecordsKept, NEW n \in DOMAIN calls, SameResult(n), IsSeq(calls'),
         NEW k \in calls[n].with \union (n + 1)..Len(calls),
         Footprint(calls[k].req) \intersect Window(calls[n].res) # {}
  PROVE  KeptOK(n)'
<1>1. /\ DOMAIN calls = 1..Len(calls) /\ Len(calls) \in Nat
      /\ DOMAIN calls' = 1..Len(calls') /\ Len(calls') \in Nat
  BY SeqIsFunction DEF PlacesInv, TypeOK
<1>2. calls[n].with \subseteq DOMAIN calls
  BY DEF PlacesInv, CallsOK, CallOK
<1>3. k \in DOMAIN calls
  BY <1>1, <1>2
<1>4. k \in DOMAIN calls' /\ calls'[k].req = calls[k].req /\ calls'[n].res = calls[n].res
      /\ calls[n].with \subseteq calls'[n].with
  BY <1>3 DEF RecordsKept, SameResult
<1>5. k \in calls'[n].with \union (n + 1)..Len(calls')
  <2>1. CASE k \in calls[n].with
    BY <1>4, <2>1
  <2>2. CASE k \in (n + 1)..Len(calls)
    BY <1>1, <1>4, <2>2
  <2> QED BY <2>1, <2>2
<1>6. Footprint(calls'[k].req) \intersect Window(calls'[n].res) # {}
  BY <1>4
<1> QED BY <1>5, <1>6 DEF KeptOK

\* A result stays what it is, or room in it has been given away.
LEMMA OldKept ==
  ASSUME PlacesInv, Results, RecordsKept, NEW n \in DOMAIN calls, SameResult(n), IsSeq(calls'),
         NEW c \in Client, cur[c] # 0, Writes(c)
  PROVE  KeptOK(n)'
<1> SUFFICES ASSUME calls[n].state = "ok" PROVE KeptOK(n)'
  BY DEF KeptOK, SameResult
<1> DEFINE res == calls[n].res
           k == cur[c]
<1>1. RunOK(c) /\ k \in DOMAIN calls /\ k \in Running /\ Req(c) = calls[k].req
  BY Runs DEF RunOK, Req
<1>2. CallOK(n) /\ n \notin Running /\ Within(mem, res)
  BY DEF PlacesInv, CallsOK, CallOK
<1>3. k # n /\ DOMAIN calls = 1..Len(calls) /\ Len(calls) \in Nat
  BY <1>1, <1>2, SeqIsFunction DEF PlacesInv, TypeOK
<1>4. k \in calls[n].with \union (n + 1)..Len(calls)
  <2>1. CASE k < n
    BY <1>1, <1>3, <2>1 DEF PlacesInv, TogetherOK
  <2>2. CASE ~(k < n)
    <3>1. k \in (n + 1)..Len(calls)
      BY <1>1, <1>3, <2>2
    <3> QED BY <3>1
  <2> QED BY <2>1, <2>2
<1> HIDE DEF k
<1>5. CASE Footprint(calls[k].req) \intersect Window(res) # {}
  BY <1>4, <1>5, OldRoom
<1>6. CASE Content(mem, res) # calls[n].value
  <2>1. PICK j \in calls[n].with \union (n + 1)..Len(calls) :
          Footprint(calls[j].req) \intersect Window(res) # {}
    BY <1>6 DEF Results, KeptOK
  <2> QED BY <2>1, OldRoom
<1>7. CASE Footprint(calls[k].req) \intersect Window(res) = {} /\ Content(mem, res) = calls[n].value
  <2>1. \A i \in 1..res.len : mem'[res.arr][res.off + i] = mem[res.arr][res.off + i]
    <3> SUFFICES ASSUME NEW i \in 1..res.len
                 PROVE  mem'[res.arr][res.off + i] = mem[res.arr][res.off + i]
      OBVIOUS
    <3>1. /\ res.arr \in DOMAIN mem /\ res.off + i \in 1..Len(mem[res.arr])
          /\ <<res.arr, res.off + i>> \in Window(res)
      BY <1>2, GrowsSame, CellsWithin
    <3>2. <<res.arr, res.off + i>> \notin Footprint(Req(c))
      BY <1>1, <1>7, <3>1 DEF k
    <3>3. ~(Owns(c) /\ res.arr = work[c].ret.arr)
      BY DEF PlacesInv, OwnOK
    <3> QED BY <3>1, <3>2, <3>3 DEF Writes
  <2> HIDE DEF res
  <2>2. Content(mem', res) = Content(mem, res)
    BY <2>1, SameContent
  <2>3. calls'[n].res = res /\ calls'[n].value = calls[n].value
    BY DEF SameResult, res
  <2> QED BY <1>7, <2>2, <2>3 DEF KeptOK
<1> QED BY <1>5, <1>6, <1>7

-----------------------------------------------------------------------------
(* A call that begins.                                                      *)

\* A call that begins has every step ahead.
LEMMA AllAhead ==
  ASSUME NEW r, r.op \in {"Seal", "Open"}, r.text \in Slice, LengthsOK(r)
  PROVE  /\ \A s \in {"Extend", "TakeIV", "CopyText", "BuildMAC"} : Has(Steps(r), s)
         /\ r.op = "Seal" => Has(Steps(r), "CopyTag")
         /\ r.op = "Open" => Has(Steps(r), "Verify")
<1> DEFINE n == Body(r).len
           t == Steps(r)
<1>1. n \in Nat
  BY BodyFacts
<1>2. (r.op = "Seal" => SealSteps(t, n)) /\ (r.op # "Seal" => OpenSteps(t, n))
  BY <1>1, StepsFacts
<1> HIDE DEF n, t
<1>3. Len(t) = n + 6
  BY <1>2 DEF SealSteps, OpenSteps
<1>4. ASSUME NEW s, NEW i \in 1..(n + 6), t[i] = s PROVE Has(t, s)
  BY <1>3, <1>4 DEF Has
<1>5. /\ 1 \in 1..(n + 6) /\ 2 \in 1..(n + 6) /\ 3 \in 1..(n + 6) /\ 4 \in 1..(n + 6)
      /\ n + 3 \in 1..(n + 6) /\ n + 4 \in 1..(n + 6) /\ n + 5 \in 1..(n + 6)
  BY <1>1
<1>6. CASE r.op = "Seal"
  <2>1. /\ t[1] = "Extend" /\ t[2] = "TakeIV" /\ t[n + 3] = "CopyText" /\ t[n + 4] = "BuildMAC"
        /\ t[n + 5] = "CopyTag"
    BY <1>2, <1>6 DEF SealSteps
  <2>2. Has(t, "Extend") /\ Has(t, "TakeIV") /\ Has(t, "CopyText") /\ Has(t, "BuildMAC") /\ Has(t, "CopyTag")
    BY <1>4, <1>5, <2>1
  <2> QED BY <1>6, <2>2 DEF t
<1>7. CASE r.op = "Open"
  <2>1. /\ t[1] = "BuildMAC" /\ t[2] = "Verify" /\ t[3] = "Extend" /\ t[4] = "TakeIV"
        /\ t[n + 5] = "CopyText"
    BY <1>2, <1>7 DEF OpenSteps
  <2>2. Has(t, "Extend") /\ Has(t, "TakeIV") /\ Has(t, "CopyText") /\ Has(t, "BuildMAC") /\ Has(t, "Verify")
    BY <1>4, <1>5, <2>1
  <2> QED BY <1>7, <2>2 DEF t
<1> QED BY <1>6, <1>7

\* A new call has done nothing yet, and was given what memory holds.
LEMMA NewData ==
  ASSUME PlacesInv, NEW c \in Client, NEW r \in Request \union OpenRequest, Start(c, r), LengthsOK(r)
  PROVE  DataOK(c)'
<1> PICK n : n = Len(calls) + 1
  OBVIOUS
<1>1. /\ cur[c] = 0 /\ cur'[c] = n /\ todo'[c] = Steps(r) /\ mem' = mem /\ work' = work
      /\ calls'[n].req = r /\ \A a \in Argument : calls'[n].given[a] = Content(mem, r[a])
  BY Begins DEF Began
<1>2. work'[c] = NoWork
  BY <1>1 DEF PlacesInv, RetOK
<1>3. r.op \in {"Seal", "Open"} /\ r.text \in Slice
  <2>1. r.op \in {"Seal", "Open"} /\ Within(mem, r.text)
    BY RequestFacts DEF Argument
  <2> QED BY <2>1 DEF Within
<1>4. Req(c)' = r /\ Given(c)' = calls'[n].given /\ work'[c].out = <<>>
  BY <1>1, <1>2 DEF Req, Given, NoWork
<1>5. /\ \A s \in {"Extend", "TakeIV", "CopyText", "BuildMAC"} : Ahead(c, s)'
      /\ r.op = "Seal" => Ahead(c, "CopyTag")'
      /\ r.op = "Open" => Ahead(c, "Verify")'
  <2>1. \A s : Ahead(c, s)' <=> Has(Steps(r), s)
    BY <1>1 DEF Ahead, Has
  <2> QED BY <1>3, <2>1, AllAhead
<1>6. ArgumentsHold(c)'
  BY <1>1, <1>4 DEF ArgumentsHold
<1>7. LocalsOK(c)'
  <2>1. \A i \in 1..Len(work'[c].out) : FALSE
    BY <1>4
  <2> QED BY <1>3, <1>4, <1>5, <2>1 DEF LocalsOK
<1>8. OutputOK(c)'
  BY <1>3, <1>4, <1>5 DEF OutputOK
<1> QED BY <1>6, <1>7, <1>8 DEF DataOK

\* A call that begins keeps memory and the other records.
LEMMA BeginKeeps ==
  ASSUME PlacesInv, NEW c \in Client, NEW r, Start(c, r)
  PROVE  RecordsKept /\ IsSeq(calls') /\ mem' = mem /\ \A n \in DOMAIN calls : SameResult(n)
<1>1. Began(c, r)
  BY Begins
<1>2. IsSeq(calls') /\ mem' = mem /\ \A n \in DOMAIN calls : n \in DOMAIN calls'
  BY <1>1 DEF Began
<1>3. \A k \in DOMAIN calls :
          /\ calls'[k].req = calls[k].req /\ calls'[k].given = calls[k].given
          /\ calls'[k].res = calls[k].res /\ calls'[k].value = calls[k].value
          /\ calls'[k].state = calls[k].state /\ calls[k].with \subseteq calls'[k].with
  BY <1>1 DEF Began
<1> QED BY <1>2, <1>3 DEF RecordsKept, SameResult

\* A call that begins keeps the data of the others.
LEMMA StartData ==
  ASSUME PlacesInv, NEW c \in Client, NEW r \in Request \union OpenRequest, Start(c, r),
         NEW d \in Client, DataOK(d)
  PROVE  DataOK(d)'
<1>1. CASE d = c /\ LengthsOK(r)
  BY <1>1, NewData
<1>2. CASE ~(d = c /\ LengthsOK(r))
  <2>1. /\ cur'[d] = cur[d] /\ todo'[d] = todo[d] /\ mem' = mem /\ work' = work
    BY <1>2, Begins DEF Began
  <2>2. CASE cur[d] = 0
    BY <2>1, <2>2 DEF DataOK
  <2>3. CASE cur[d] # 0
    <3> SUFFICES ASSUME Undisturbed(cur[d])' PROVE ArgumentsHold(d)' /\ LocalsOK(d)' /\ OutputOK(d)'
      BY DEF DataOK
    <3>1. cur[d] \in DOMAIN calls
      BY <2>3, Runs DEF RunOK
    <3>2. PICK n \in DOMAIN calls : n = cur[d]
      BY <3>1
    <3>3. Undisturbed(n)'
      BY <2>1, <3>2
    <3>4. calls[n].with \subseteq calls'[n].with /\ \A k \in DOMAIN calls : calls'[k].req = calls[k].req
      BY BeginKeeps DEF RecordsKept
    <3>5. Undisturbed(cur[d])
      BY <3>2, <3>3, <3>4, UndisturbedBefore
    <3>6. Resting(d)
      <4>1. calls'[n].req = calls[n].req /\ calls'[n].given = calls[n].given
        BY BeginKeeps DEF RecordsKept
      <4> QED BY <2>1, <3>2, <4>1 DEF Resting, Req, Given
    <3>7. ArgumentsKept(d) /\ OutputKept(d)
      BY <2>1 DEF ArgumentsKept, OutputKept
    <3> QED BY <2>3, <3>5, <3>6, <3>7, RestingData DEF DataOK
  <2> QED BY <2>2, <2>3
<1> QED BY <1>1, <1>2

\* A result when memory has not changed.
LEMMA StillKept ==
  ASSUME PlacesInv, Results, RecordsKept, NEW n \in DOMAIN calls, SameResult(n), IsSeq(calls'), mem' = mem
  PROVE  KeptOK(n)'
<1> SUFFICES ASSUME calls[n].state = "ok" PROVE KeptOK(n)'
  BY DEF KeptOK, SameResult
<1>1. CASE Content(mem, calls[n].res) = calls[n].value
  BY <1>1 DEF KeptOK, SameResult
<1>2. CASE Content(mem, calls[n].res) # calls[n].value
  <2>1. PICK j \in calls[n].with \union (n + 1)..Len(calls) :
          Footprint(calls[j].req) \intersect Window(calls[n].res) # {}
    BY <1>2 DEF Results, KeptOK
  <2> QED BY <2>1, OldRoom
<1> QED BY <1>1, <1>2

\* ... and their results; it has failed itself only if its lengths are wrong.
LEMMA StartResults ==
  ASSUME PlacesInv, Results, NEW c \in Client, NEW r \in Request \union OpenRequest, Start(c, r)
  PROVE  Results'
<1> PICK n : n = Len(calls) + 1
  OBVIOUS
<1>1. /\ DOMAIN calls' = DOMAIN calls \union {n} /\ calls'[n].req = r
      /\ calls'[n].state = IF LengthsOK(r) THEN "running" ELSE "failed"
      /\ \A a \in Argument : calls'[n].given[a] = Content(mem, r[a])
  <2>1. Began(c, r)
    BY Begins
  <2>2. DOMAIN calls' = DOMAIN calls \union {n}
    BY <2>1 DEF Began
  <2>3. /\ calls'[n].req = r /\ calls'[n].state = IF LengthsOK(r) THEN "running" ELSE "failed"
        /\ \A a \in Argument : calls'[n].given[a] = Content(mem, r[a])
    BY <2>1 DEF Began
  <2> QED BY <2>2, <2>3
<1>2. ASSUME NEW k \in DOMAIN calls PROVE SealedOK(k)' /\ OpenedOK(k)' /\ KeptOK(k)'
  BY BeginKeeps, OldResult, StillKept
<1>3. SealedOK(n)' /\ KeptOK(n)'
  <2>1. calls'[n].state # "ok"
    BY <1>1
  <2> QED BY <2>1 DEF SealedOK, KeptOK
<1>4. OpenedOK(n)'
  <2> DEFINE g == calls'[n].given
  <2>1. ASSUME ~LengthsOK(r), r.op = "Open" PROVE ~(Len(g.nonce) = nonceSize /\ Len(g.text) >= tagSize)
    <3>1. /\ g.nonce = Content(mem, r.nonce) /\ g.text = Content(mem, r.text)
      BY <1>1 DEF Argument
    <3>2. r.nonce.len \in Nat /\ r.text.len \in Nat
      <4>1. Within(mem, r.nonce) /\ Within(mem, r.text)
        BY RequestFacts DEF Argument
      <4> QED BY <4>1 DEF Within, Slice
    <3>3. Len(g.nonce) = r.nonce.len /\ Len(g.text) = r.text.len
      BY <3>1, <3>2, ContentFacts
    <3> HIDE DEF g
    <3> QED BY <2>1, <3>3 DEF LengthsOK
  <2>2. calls'[n].state # "ok" /\ (calls'[n].state = "failed" => ~LengthsOK(r))
    BY <1>1
  <2>3. r.op = "Open" /\ calls'[n].state = "failed" => ~Authentic(g)
    BY <2>1, <2>2 DEF Authentic
  <2> QED BY <1>1, <2>2, <2>3 DEF OpenedOK
<1> QED BY <1>1, <1>2, <1>3, <1>4 DEF Results

-----------------------------------------------------------------------------
(* Calls that end.                                                          *)

\* Sequences are put together in any order.
AnyOrder(s, t, u) == s \o (t \o u) = (s \o t) \o u /\ IsSeq(s \o t)

\* \o is associative.
LEMMA ConcatOrder ==
  ASSUME NEW s, IsSeq(s), NEW t, IsSeq(t), NEW u, IsSeq(u)
  PROVE  AnyOrder(s, t, u)
<1> PICK x : x = s \o t
  OBVIOUS
<1> PICK y : y = t \o u
  OBVIOUS
<1> PICK v : v = s \o y
  OBVIOUS
<1> PICK w : w = x \o u
  OBVIOUS
<1>1. Joined(x, s, t) /\ Joined(y, t, u)
  BY ConcatFacts
<1>2. Joined(v, s, y) /\ Joined(w, x, u)
  <2>1. IsSeq(x) /\ IsSeq(y)
    BY <1>1 DEF Joined
  <2> QED BY <2>1, ConcatFacts
<1>3. Len(s) \in Nat /\ Len(t) \in Nat /\ Len(u) \in Nat
  BY SeqIsFunction
<1> PICK a \in Nat : a = Len(s)
  BY <1>3
<1> PICK b \in Nat : b = Len(t)
  BY <1>3
<1> PICK k \in Nat : k = Len(u)
  BY <1>3
<1>4. IsSeq(v) /\ IsSeq(w) /\ IsSeq(x) /\ Len(x) = a + b /\ Len(y) = b + k
  BY <1>1, <1>2 DEF Joined
<1>5. Len(v) = a + (b + k) /\ Len(w) = (a + b) + k
  BY <1>2, <1>4 DEF Joined
<1>6. ASSUME NEW i \in 1..a PROVE v[i] = w[i]
  <2>1. v[i] = s[i] /\ x[i] = s[i]
    BY <1>1, <1>2 DEF Joined
  <2>2. i \in 1..Len(x)
    BY <1>4
  <2> QED BY <1>2, <2>1, <2>2 DEF Joined
<1>7. ASSUME NEW i \in 1..b PROVE v[a + i] = w[a + i]
  <2>1. i \in 1..Len(y) /\ a + i \in 1..Len(x)
    BY <1>4
  <2>2. v[a + i] = y[i] /\ y[i] = t[i] /\ x[a + i] = t[i]
    BY <1>1, <1>2, <2>1 DEF Joined
  <2>3. w[a + i] = x[a + i]
    BY <1>2, <2>1 DEF Joined
  <2> QED BY <2>2, <2>3
<1>8. ASSUME NEW i \in 1..k PROVE v[a + b + i] = w[a + b + i]
  <2>1. b + i \in 1..Len(y) /\ a + (b + i) = a + b + i
    BY <1>4
  <2>2. v[a + (b + i)] = y[b + i] /\ y[b + i] = u[i]
    BY <1>1, <1>2, <2>1 DEF Joined
  <2>3. w[a + b + i] = u[i]
    BY <1>2, <1>4 DEF Joined
  <2> QED BY <2>1, <2>2, <2>3
<1>9. ASSUME NEW i \in 1..Len(v) PROVE v[i] = w[i]
  <2>1. CASE i \in 1..a
    BY <1>6, <2>1
  <2>2. CASE i - a \in 1..b
    <3>1. a + (i - a) = i
      BY <1>5
    <3> QED BY <1>7, <2>2, <3>1
  <2>3. CASE ~(i \in 1..a) /\ ~(i - a \in 1..b)
    <3>1. i - a - b \in 1..k /\ a + b + (i - a - b) = i
      BY <1>5, <2>3
    <3> QED BY <1>8, <3>1
  <2> QED BY <2>1, <2>2, <2>3
<1>10. v = w
  <2>1. Len(v) = Len(w)
    BY <1>5
  <2> QED BY <1>4, <1>9, <2>1, SameSeq
<1> QED BY <1>4, <1>10 DEF AnyOrder

\* A slice holds what its two parts hold.
LEMMA SplitContent ==
  ASSUME NEW m, NEW s, NEW k, NEW l, NEW t, NEW u, Part(t, s, 0, k), Part(u, s, k, l), s.len = k + l
  PROVE  Content(m, s) = Content(m, t) \o Content(m, u)
<1>1. /\ k \in Nat /\ l \in Nat /\ s.len \in Nat /\ t.len = k /\ u.len = l /\ s.off \in Nat
      /\ t.arr = s.arr /\ u.arr = s.arr /\ t.off = s.off + 0 /\ u.off = s.off + k
  BY DEF Part
<1> PICK x : x = Content(m, s)
  OBVIOUS
<1> PICK y : y = Content(m, t)
  OBVIOUS
<1> PICK z : z = Content(m, u)
  OBVIOUS
<1> PICK w : w = y \o z
  OBVIOUS
<1>2. IsSeq(x) /\ Len(x) = k + l /\ \A i \in 1..(k + l) : x[i] = m[s.arr][s.off + i]
  <2>1. IsSeq(x) /\ Len(x) = s.len /\ \A i \in 1..s.len : x[i] = m[s.arr][s.off + i]
    <3>1. s.len \in Nat
      BY <1>1
    <3> QED BY <3>1, ContentFacts
  <2> QED BY <2>1
<1>3. IsSeq(y) /\ Len(y) = k /\ \A i \in 1..k : y[i] = m[s.arr][s.off + 0 + i]
  <2>1. IsSeq(y) /\ Len(y) = t.len /\ \A i \in 1..t.len : y[i] = m[t.arr][t.off + i]
    <3>1. t.len \in Nat
      BY <1>1
    <3> QED BY <3>1, ContentFacts
  <2> QED BY <1>1, <2>1
<1>4. IsSeq(z) /\ Len(z) = l /\ \A i \in 1..l : z[i] = m[s.arr][s.off + k + i]
  <2>1. IsSeq(z) /\ Len(z) = u.len /\ \A i \in 1..u.len : z[i] = m[u.arr][u.off + i]
    <3>1. u.len \in Nat
      BY <1>1
    <3> QED BY <3>1, ContentFacts
  <2> QED BY <1>1, <2>1
<1>5. IsSeq(w) /\ Len(w) = k + l /\ (\A i \in 1..k : w[i] = y[i]) /\ \A i \in 1..l : w[k + i] = z[i]
  <2>1. Joined(w, y, z)
    BY <1>3, <1>4, ConcatFacts
  <2> QED BY <1>3, <1>4, <2>1 DEF Joined
<1>6. ASSUME NEW i \in 1..(k + l) PROVE x[i] = w[i]
  <2>1. CASE i \in 1..k
    <3>1. s.off + 0 + i = s.off + i
      BY <1>1, <2>1
    <3> QED BY <1>2, <1>3, <1>5, <2>1, <3>1
  <2>2. CASE ~(i \in 1..k)
    <3>1. i - k \in 1..l /\ k + (i - k) = i /\ s.off + k + (i - k) = s.off + i
      BY <1>1, <2>2
    <3>2. w[i] = z[i - k] /\ z[i - k] = m[s.arr][s.off + i]
      BY <1>4, <1>5, <3>1
    <3> QED BY <1>2, <3>2
  <2> QED BY <2>1, <2>2
<1>7. x = w
  BY <1>2, <1>5, <1>6, SameSeq
<1> QED BY <1>7

\* What an undisturbed Open returns.
LEMMA OpenedValue ==
  ASSUME PlacesInv, NEW c \in Client, ReturnOpened(c), Data(c), NEW g, g = Given(c)
  PROVE  /\ Authentic(g)
         /\ Content(mem, work[c].ret) = g.dst \o [i \in DOMAIN GivenBody(g) |-> Crypt(g.nonce, i, g.text[i])]
<1> DEFINE r == Req(c)
           d == r.dst.len
           n == Body(r).len
           ret == work[c].ret
<1>1. /\ cur[c] # 0 /\ r.op = "Open" /\ RetAt(c) /\ ~Ahead(c, "Extend") /\ ~Ahead(c, "CopyText")
      /\ ~Ahead(c, "Verify")
  BY Complete DEF ReturnOpened
<1>2. Authentic(g)
  BY <1>1 DEF Data, LocalsOK
<1>3. /\ Content(mem, Upto(ret, d)) = g.dst
      /\ Content(mem, Upto(From(ret, d), n)) = Translated(c)
  BY <1>1 DEF Data, OutputOK
<1>4. /\ Part(Upto(ret, d), ret, 0, d) /\ Part(Upto(From(ret, d), n), ret, d, n) /\ ret.len = d + n
  BY <1>1, OutputParts
<1>5. Content(mem, ret) = g.dst \o Translated(c)
  <2> HIDE DEF d, n, ret
  <2>1. Content(mem, ret) = Content(mem, Upto(ret, d)) \o Content(mem, Upto(From(ret, d), n))
    BY <1>4, SplitContent
  <2> QED BY <1>3, <2>1
<1>6. DOMAIN GivenBody(g) = 1..n
  <2>1. IsSeq(g.text) /\ Len(g.text) = r.text.len /\ r.text \in Slice /\ LengthsOK(r)
    BY <1>1, GivenFacts DEF Argument
  <2>2. n \in 0..Len(g.text) /\ n = Len(g.text) - tagSize
    <3>1. n = r.text.len - tagSize /\ n \in Nat /\ r.text.len \in Nat
      BY <1>1, <2>1, BodyFacts DEF Slice
    <3> QED BY <2>1, <3>1, Sizes
  <2> HIDE DEF n
  <2> PICK b : b = GivenBody(g)
    OBVIOUS
  <2> PICK x : x = g.text
    OBVIOUS
  <2>3. IsSeq(x) /\ n \in 0..Len(x) /\ b = SubSeq(x, 1, n)
    BY <2>1, <2>2 DEF GivenBody
  <2>4. IsSeq(b) /\ Len(b) = n
    BY <2>3, PrefixFacts DEF Prefix
  <2> QED BY <2>4, SeqIsFunction
<1>7. Translated(c) = [i \in DOMAIN GivenBody(g) |-> Crypt(g.nonce, i, g.text[i])]
  BY <1>6 DEF Translated
<1> QED BY <1>2, <1>5, <1>7

\* What an undisturbed Seal returns.
LEMMA SealedValue ==
  ASSUME PlacesInv, NEW c \in Client, AtStep(c, "Return"), Req(c).op = "Seal", Data(c),
         NEW g, g = Given(c)
  PROVE  Content(mem, Req(c).nonce) \o Content(mem, work[c].ret)
           = g.nonce \o g.dst \o Encrypted(g) \o Tag(MacInput(g.nonce, g.aad, Encrypted(g)))
<1> DEFINE r == Req(c)
           d == r.dst.len
           n == Body(r).len
           ret == work[c].ret
           tag == Tag(work[c].mac)
           text == Translated(c)
<1>1. /\ cur[c] # 0 /\ RunOK(c) /\ RetAt(c) /\ ~Ahead(c, "Extend") /\ ~Ahead(c, "CopyText")
      /\ ~Ahead(c, "CopyTag") /\ ~Ahead(c, "BuildMAC")
  BY Complete
<1>2. /\ Content(mem, Upto(ret, d)) = g.dst
      /\ Content(mem, Upto(From(ret, d), n)) = text
      /\ Content(mem, From(ret, d + n)) = tag
      /\ Content(mem, r.nonce) = g.nonce
      /\ work[c].mac = MacInput(g.nonce, g.aad, text)
  BY <1>1 DEF Data, OutputOK, ArgumentsHold, LocalsOK, Argument
<1>3. /\ Part(Upto(ret, d), ret, 0, d) /\ Part(Upto(From(ret, d), n), ret, d, n)
      /\ Part(From(ret, d + n), ret, d + n, tagSize) /\ ret.len = d + n + tagSize /\ ret \in Slice
  <2>1. /\ Part(Upto(ret, d), ret, 0, d) /\ Part(Upto(From(ret, d), n), ret, d, n)
        /\ Part(From(ret, d + n), ret, d + n, Room(r) - n) /\ ret.len = d + Room(r) /\ Room(r) = n + tagSize
        /\ Within(mem, ret)
    BY <1>1, OutputParts
  <2>2. Room(r) - n = tagSize /\ d + Room(r) = d + n + tagSize
    BY <2>1, Sizes DEF Part
  <2> QED BY <2>1, <2>2 DEF Within
<1>4. text = Encrypted(g)
  <2>1. IsSeq(g.text) /\ Len(g.text) = r.text.len /\ n = r.text.len
    BY <1>1, GivenFacts DEF Argument, RunOK
  <2>2. DOMAIN g.text = 1..n
    BY <2>1, SeqIsFunction
  <2> QED BY <2>2 DEF Translated, Encrypted
<1> HIDE DEF d, n, ret, tag, text
<1>5. Content(mem, ret) = (g.dst \o text) \o tag
  <2> PICK x : x = Upto(ret, d + n)
    OBVIOUS
  <2>1. d \in Nat /\ n \in Nat /\ d + n \in Nat /\ d + n \in 0..ret.len /\ ret.off \in Nat /\ ret.len \in Nat
    BY <1>3, Sizes DEF Part
  <2>2. x.arr = ret.arr /\ x.off = ret.off /\ x.len = d + n
    BY <1>3, <2>1, UptoFields
  <2>3. Part(x, ret, 0, d + n)
    BY <2>1, <2>2 DEF Part
  <2>4. Content(mem, ret) = Content(mem, x) \o tag
    BY <1>2, <1>3, <2>3, SplitContent
  <2>5. Part(Upto(ret, d), x, 0, d) /\ Part(Upto(From(ret, d), n), x, d, n)
    BY <1>3, <2>1, <2>2 DEF Part
  <2>6. Content(mem, x) = Content(mem, Upto(ret, d)) \o Content(mem, Upto(From(ret, d), n))
    BY <2>2, <2>5, SplitContent
  <2> QED BY <1>2, <2>4, <2>6
<1>6. IsSeq(g.nonce) /\ IsSeq(g.dst) /\ IsSeq(text) /\ IsSeq(tag)
  <2>1. IsSeq(g.nonce) /\ IsSeq(g.dst)
    BY <1>1, GivenFacts DEF Argument
  <2>2. IsSeq(text)
    <3>1. n \in Nat
      BY <1>3 DEF Part
    <3>2. text = [i \in 1..n |-> text[i]]
      BY DEF Translated, text, n
    <3> QED BY <3>1, <3>2, FunctionIsSeq
  <2> QED BY <2>1, <2>2, TagFacts DEF tag
<1>7. g.nonce \o ((g.dst \o text) \o tag) = ((g.nonce \o g.dst) \o text) \o tag
  <2>1. AnyOrder(g.nonce, g.dst, text)
    BY <1>6, ConcatOrder
  <2>2. IsSeq(g.dst \o text)
    BY <1>6, ConcatOrder DEF AnyOrder
  <2>3. AnyOrder(g.nonce, g.dst \o text, tag)
    BY <1>6, <2>2, ConcatOrder
  <2> QED BY <2>1, <2>3 DEF AnyOrder
<1> QED BY <1>2, <1>4, <1>5, <1>7 DEF ret, tag

\* A call that ends keeps the records of the others.
LEMMA EndKeeps ==
  ASSUME PlacesInv, NEW c \in Client, NEW state, NEW res, NEW value, Ended(c, state, res, value)
  PROVE  /\ RecordsKept /\ IsSeq(calls') /\ DOMAIN calls' = DOMAIN calls
         /\ \A n \in DOMAIN calls : n # cur[c] => SameResult(n)
<1>1. \A n \in DOMAIN calls : n # cur[c] => calls'[n] = calls[n]
  BY DEF Ended
<1>2. IsSeq(calls') /\ DOMAIN calls' = DOMAIN calls
  BY DEF Ended
<1>3. ASSUME NEW n \in DOMAIN calls
      PROVE  /\ calls'[n].req = calls[n].req /\ calls'[n].given = calls[n].given
             /\ calls'[n].with = calls[n].with
  <2>1. CASE n = cur[c]
    BY <2>1 DEF Ended
  <2>2. CASE n # cur[c]
    BY <1>1, <2>2
  <2> QED BY <2>1, <2>2
<1>4. RecordsKept
  BY <1>2, <1>3 DEF RecordsKept
<1> QED BY <1>1, <1>2, <1>4 DEF SameResult

\* ... and their data.
LEMMA EndedData ==
  ASSUME PlacesInv, NEW c \in Client, cur[c] # 0, NEW state, NEW res, NEW value,
         Ended(c, state, res, value), Writes(c), NEW d \in Client, DataOK(d)
  PROVE  DataOK(d)'
<1>1. CASE d = c
  <2>1. cur'[d] = 0
    BY <1>1 DEF Ended
  <2> QED BY <2>1 DEF DataOK
<1>2. CASE d # c /\ cur[d] = 0
  <2>1. cur'[d] = 0
    BY <1>2 DEF Ended
  <2> QED BY <2>1 DEF DataOK
<1>3. CASE d # c /\ cur[d] # 0
  <2>1. cur'[d] = cur[d] /\ todo'[d] = todo[d] /\ work'[d] = work[d]
    BY <1>3 DEF Ended
  <2>2. \A n \in DOMAIN calls : /\ calls'[n].req = calls[n].req /\ calls'[n].given = calls[n].given
                                /\ calls[n].with \subseteq calls'[n].with
    BY EndKeeps DEF RecordsKept
  <2> QED BY <1>3, <2>1, <2>2, OthersData
<1> QED BY <1>1, <1>2, <1>3

\* What an ended call adds to the results.
LEMMA EndedResults ==
  ASSUME PlacesInv, Results, NEW c \in Client, cur[c] # 0, NEW state, NEW res, NEW value,
         Ended(c, state, res, value), Writes(c), NEW k \in DOMAIN calls, k = cur[c],
         state = "ok" => value = Content(mem', res),
         SealedOK(k)', OpenedOK(k)'
  PROVE  Results'
<1>1. /\ calls'[k].state = state /\ calls'[k].res = res /\ calls'[k].value = value
  BY DEF Ended
<1>2. ASSUME NEW n \in DOMAIN calls, n # k PROVE SealedOK(n)' /\ OpenedOK(n)' /\ KeptOK(n)'
  BY <1>2, EndKeeps, OldResult, OldKept
<1>3. KeptOK(k)'
  BY <1>1 DEF KeptOK
<1> QED BY <1>2, <1>3, EndKeeps DEF Results

\* The record of a call that has ended, and its data.
LEMMA EndedRecord ==
  ASSUME PlacesInv, NEW c \in Client, cur[c] # 0, DataOK(c), NEW state, NEW res, NEW value,
         Ended(c, state, res, value), NEW k \in DOMAIN calls, k = cur[c]
  PROVE  /\ calls'[k].req = Req(c) /\ calls'[k].given = Given(c)
         /\ calls'[k].state = state /\ calls'[k].res = res /\ calls'[k].value = value
         /\ Undisturbed(k)' => Data(c)
<1>1. /\ calls'[k].req = Req(c) /\ calls'[k].given = Given(c)
      /\ calls'[k].state = state /\ calls'[k].res = res /\ calls'[k].value = value
  BY DEF Ended, Req, Given
<1>2. Undisturbed(k)' => Undisturbed(k)
  BY EndKeeps, UndisturbedBefore DEF RecordsKept
<1> QED BY <1>1, <1>2 DEF DataOK, Data

\* Verify refuses only what is not authentic.
LEMMA RefusedResults ==
  ASSUME PlacesInv, Results, NEW c \in Client, DataOK(c), Verify(c),
         Content(mem, ExpectedTag(Req(c))) # Tag(work[c].mac)
  PROVE  Results'
<1>1. Ended(c, "failed", Nil, <<>>) /\ Writes(c) /\ cur[c] # 0 /\ AtStep(c, "Verify")
  BY RefusedPlaces DEF Verify, AtStep
<1>2. PICK k \in DOMAIN calls : k = cur[c]
  BY <1>1 DEF Ended
<1>3. /\ calls'[k].given = Given(c) /\ calls'[k].state = "failed" /\ (Undisturbed(k)' => Data(c))
  BY <1>1, <1>2, EndedRecord
<1>4. Undisturbed(k)' => ~Authentic(calls'[k].given)
  BY <1>1, <1>3, Compared
<1>5. SealedOK(k)' /\ OpenedOK(k)'
  BY <1>3, <1>4 DEF SealedOK, OpenedOK
<1> QED BY <1>1, <1>2, <1>5, EndedResults

\* A call that has faulted promises nothing.
LEMMA NoResult ==
  ASSUME NEW k, calls'[k].state = "fault"
  PROVE  SealedOK(k)' /\ OpenedOK(k)'
<1>1. calls'[k].state # "ok" /\ calls'[k].state # "failed"
  OBVIOUS
<1>2. SealedOK(k)'
  BY <1>1 DEF SealedOK
<1>3. OpenedOK(k)'
  BY <1>1 DEF OpenedOK
<1> QED BY <1>2, <1>3

\* A fault returns nothing.
LEMMA FaultResults ==
  ASSUME PlacesInv, Results, NEW c \in Client, Fault(c)
  PROVE  Results'
<1> PICK state : state = "fault"
  OBVIOUS
<1> PICK value : value = <<>>
  OBVIOUS
<1>1. Ended(c, state, Nil, value) /\ Writes(c) /\ cur[c] # 0 /\ state # "ok"
  BY FaultPlaces DEF Fault
<1>2. PICK k \in DOMAIN calls : k = cur[c]
  BY <1>1 DEF Ended
<1>3. SealedOK(k)' /\ OpenedOK(k)'
  <2>1. calls'[k].state = "fault"
    BY <1>1, <1>2 DEF Ended
  <2> QED BY <2>1, NoResult
<1> QED BY <1>1, <1>2, <1>3, EndedResults

\* Open returns dst and the text.
LEMMA OpenedResults ==
  ASSUME PlacesInv, Results, NEW c \in Client, DataOK(c), ReturnOpened(c)
  PROVE  Results'
<1> PICK value : value = Content(mem, work[c].ret)
  OBVIOUS
<1>1. Ended(c, "ok", work[c].ret, value) /\ Writes(c) /\ cur[c] # 0 /\ Req(c).op = "Open" /\ mem' = mem
  BY OpenedPlaces DEF ReturnOpened, AtStep
<1>2. PICK k \in DOMAIN calls : k = cur[c]
  BY <1>1 DEF Ended
<1>3. /\ calls'[k].req = Req(c) /\ calls'[k].given = Given(c) /\ calls'[k].state = "ok"
      /\ calls'[k].value = value /\ (Undisturbed(k)' => Data(c))
  BY <1>1, <1>2, EndedRecord
<1> PICK g : g = Given(c)
  OBVIOUS
<1>4. Undisturbed(k)' =>
        /\ Authentic(g)
        /\ value = g.dst \o [i \in DOMAIN GivenBody(g) |-> Crypt(g.nonce, i, g.text[i])]
  BY <1>3, OpenedValue
<1>5. OpenedOK(k)'
  BY <1>3, <1>4 DEF OpenedOK
<1>6. SealedOK(k)'
  BY <1>1, <1>3 DEF SealedOK
<1> QED BY <1>1, <1>2, <1>5, <1>6, EndedResults

\* Seal returns nonce, dst, ciphertext and tag.
LEMMA SealedResults ==
  ASSUME PlacesInv, Results, NEW c \in Client, DataOK(c), ReturnSealed(c)
  PROVE  Results'
<1> PICK e : e = Appended(mem, Req(c).nonce, Content(mem, work[c].ret))
  OBVIOUS
<1> PICK value : value = Content(e.mem, e.ret)
  OBVIOUS
<1>1. /\ Ended(c, "ok", e.ret, value) /\ Writes(c) /\ mem' = e.mem
      /\ value = Content(mem, Req(c).nonce) \o Content(mem, work[c].ret)
  BY SealedPlaces
<1>2. AtStep(c, "Return") /\ Req(c).op = "Seal" /\ cur[c] # 0
  BY DEF ReturnSealed, AtStep
<1>3. PICK k \in DOMAIN calls : k = cur[c]
  BY <1>1 DEF Ended
<1>4. /\ calls'[k].req = Req(c) /\ calls'[k].given = Given(c) /\ calls'[k].state = "ok"
      /\ calls'[k].value = value /\ (Undisturbed(k)' => Data(c))
  <2> PICK res : res = e.ret
    OBVIOUS
  <2>1. Ended(c, "ok", res, value)
    BY <1>1
  <2> QED BY <1>2, <1>3, <2>1, EndedRecord
<1> PICK g : g = Given(c)
  OBVIOUS
<1>5. Undisturbed(k)' =>
        value = g.nonce \o g.dst \o Encrypted(g) \o Tag(MacInput(g.nonce, g.aad, Encrypted(g)))
  BY <1>1, <1>2, <1>4, SealedValue
<1>6. SealedOK(k)'
  BY <1>4, <1>5 DEF SealedOK
<1>7. OpenedOK(k)'
  BY <1>2, <1>4 DEF OpenedOK
<1> PICK res : res = e.ret
  OBVIOUS
<1>8. Ended(c, "ok", res, value) /\ value = Content(mem', res)
  BY <1>1
<1> QED BY <1>1, <1>2, <1>3, <1>6, <1>7, <1>8, EndedResults

-----------------------------------------------------------------------------
(* The invariant.                                                           *)

\* A step of the call of c after which the call goes on, and one that ends it.
GoesOn(c) ==
  \/ Extend(c) \/ TakeIV(c) \/ CryptPiece(c) \/ CopyText(c) \/ BuildMAC(c) \/ CopyTag(c)
  \/ Verify(c) /\ Content(mem, ExpectedTag(Req(c))) = Tag(work[c].mac)
Stops(c) ==
  \/ ReturnSealed(c) \/ ReturnOpened(c) \/ Fault(c)
  \/ Verify(c) /\ Content(mem, ExpectedTag(Req(c))) # Tag(work[c].mac)

\* Every step is one of these.
LEMMA NextParts ==
  ASSUME Next
  PROVE  \E c \in Client : Call(c) \/ GoesOn(c) \/ Stops(c)
BY DEF Next, GoesOn, Stops

\* Only c has moved, and has written only where it may.
Moved(c) ==
  /\ PlacesInv' /\ Writes(c) /\ cur[c] # 0 /\ todo'[c] # todo[c]
  /\ \A d \in Client : d # c => cur'[d] = cur[d] /\ todo'[d] = todo[d] /\ work'[d] = work[d]

\* A step after which the call goes on moves that call alone.
LEMMA GoingOn ==
  ASSUME PlacesInv, NEW c \in Client, NEW step, AtStep(c, step), step # "Return", Proceed(c),
         PlacesInv', Writes(c), \A d \in Client : d # c => work'[d] = work[d]
  PROVE  Moved(c) /\ calls' = calls
<1>1. /\ cur' = cur /\ calls' = calls /\ cur[c] # 0
      /\ \A d \in Client : d # c => todo'[d] = todo[d]
  BY Goes
<1>2. todo'[c] # todo[c]
  <2>1. Len(todo[c]) \in Nat /\ Len(todo'[c]) = Len(todo[c]) - 1
    BY Goes
  <2>2. \A k \in Nat : k # k - 1
    OBVIOUS
  <2>3. Len(todo'[c]) # Len(todo[c])
    BY <2>1, <2>2
  <2> QED BY <2>3
<1> QED BY <1>1, <1>2 DEF Moved

\* ... and each of them keeps the call's data right.
LEMMA GoesOnMoves ==
  ASSUME PlacesInv, NEW c \in Client, GoesOn(c)
  PROVE  Moved(c) /\ calls' = calls /\ (DataOK(c) => DataOK(c)')
<1>1. CASE Extend(c)
  <2>1. PlacesInv' /\ Writes(c)
    BY <1>1, ExtendPlaces
  <2>2. AtStep(c, "Extend") /\ Proceed(c) /\ \A d \in Client : d # c => work'[d] = work[d]
    BY <1>1, WorkFields DEF Extend
  <2> QED BY <1>1, <2>1, <2>2, GoingOn, ExtendData
<1>2. CASE TakeIV(c)
  <2>1. PlacesInv' /\ Writes(c)
    BY <1>2, TakeIVPlaces
  <2>2. AtStep(c, "TakeIV") /\ Proceed(c) /\ \A d \in Client : d # c => work'[d] = work[d]
    BY <1>2, WorkFields DEF TakeIV
  <2> QED BY <1>2, <2>1, <2>2, GoingOn, TakeIVData
<1>3. CASE CryptPiece(c)
  <2>1. PlacesInv' /\ Writes(c)
    BY <1>3, CryptPlaces
  <2>2. AtStep(c, "Crypt") /\ Proceed(c) /\ \A d \in Client : d # c => work'[d] = work[d]
    BY <1>3, WorkFields DEF CryptPiece
  <2> QED BY <1>3, <2>1, <2>2, GoingOn, CryptData
<1>4. CASE CopyText(c)
  <2>1. PlacesInv' /\ Writes(c)
    BY <1>4, CopyTextPlaces
  <2>2. AtStep(c, "CopyText") /\ Proceed(c) /\ work' = work
    BY <1>4 DEF CopyText
  <2> QED BY <1>4, <2>1, <2>2, GoingOn, CopyTextData
<1>5. CASE BuildMAC(c)
  <2>1. PlacesInv' /\ Writes(c)
    BY <1>5, BuildMACPlaces
  <2>2. AtStep(c, "BuildMAC") /\ Proceed(c) /\ \A d \in Client : d # c => work'[d] = work[d]
    BY <1>5, WorkFields DEF BuildMAC
  <2> QED BY <1>5, <2>1, <2>2, GoingOn, BuildMACData
<1>6. CASE CopyTag(c)
  <2>1. PlacesInv' /\ Writes(c)
    BY <1>6, CopyTagPlaces
  <2>2. AtStep(c, "CopyTag") /\ Proceed(c) /\ work' = work
    BY <1>6 DEF CopyTag
  <2> QED BY <1>6, <2>1, <2>2, GoingOn, CopyTagData
<1>7. CASE Verify(c) /\ Content(mem, ExpectedTag(Req(c))) = Tag(work[c].mac)
  <2>1. PlacesInv' /\ Writes(c)
    BY <1>7, VerifiedPlaces
  <2>2. AtStep(c, "Verify") /\ Proceed(c) /\ work' = work
    BY <1>7 DEF Verify
  <2> QED BY <1>7, <2>1, <2>2, GoingOn, VerifiedData
<1> QED BY <1>1, <1>2, <1>3, <1>4, <1>5, <1>6, <1>7 DEF GoesOn

\* So does a step that ends the call move that call alone,
LEMMA Stopped ==
  ASSUME PlacesInv, NEW c \in Client, cur[c] # 0, NEW state, NEW res, NEW value,
         Ended(c, state, res, value), PlacesInv', Writes(c)
  PROVE  Moved(c)
<1>1. todo[c] # <<>>
  BY DEF PlacesInv, TypeOK
<1>2. todo'[c] = <<>> /\ \A d \in Client : d # c => cur'[d] = cur[d] /\ todo'[d] = todo[d] /\ work'[d] = work[d]
  BY DEF Ended
<1> QED BY <1>1, <1>2 DEF Moved

\* ... and each of them returns what it should.
LEMMA StopsMoves ==
  ASSUME PlacesInv, NEW c \in Client, Stops(c)
  PROVE  /\ Moved(c)
         /\ \A d \in Client : DataOK(d) => DataOK(d)'
         /\ Results /\ DataOK(c) => Results'
<1>1. ASSUME NEW state, NEW res, NEW value, Ended(c, state, res, value), PlacesInv', Writes(c), cur[c] # 0
      PROVE  Moved(c) /\ \A d \in Client : DataOK(d) => DataOK(d)'
  BY <1>1, Stopped, EndedData
<1>2. CASE ReturnSealed(c)
  <2> PICK e : e = Appended(mem, Req(c).nonce, Content(mem, work[c].ret))
    OBVIOUS
  <2> PICK res : res = e.ret
    OBVIOUS
  <2> PICK value : value = Content(e.mem, e.ret)
    OBVIOUS
  <2>1. PlacesInv' /\ Writes(c) /\ Ended(c, "ok", e.ret, Content(e.mem, e.ret))
    BY <1>2, SealedPlaces
  <2>2. PlacesInv' /\ Writes(c) /\ Ended(c, "ok", res, value) /\ cur[c] # 0
    BY <1>2, <2>1 DEF ReturnSealed, AtStep
  <2>3. Moved(c) /\ \A d \in Client : DataOK(d) => DataOK(d)'
    BY <1>1, <2>2
  <2> QED BY <1>2, <2>3, SealedResults
<1>3. CASE ReturnOpened(c)
  <2> PICK value : value = Content(mem, work[c].ret)
    OBVIOUS
  <2>1. PlacesInv' /\ Writes(c) /\ Ended(c, "ok", work[c].ret, value) /\ cur[c] # 0
    BY <1>3, OpenedPlaces DEF ReturnOpened, AtStep
  <2>2. Moved(c) /\ \A d \in Client : DataOK(d) => DataOK(d)'
    BY <1>1, <2>1
  <2> QED BY <1>3, <2>2, OpenedResults
<1>4. CASE Fault(c)
  <2>1. PlacesInv' /\ Writes(c) /\ Ended(c, "fault", Nil, <<>>) /\ cur[c] # 0
    BY <1>4, FaultPlaces DEF Fault
  <2>2. Moved(c) /\ \A d \in Client : DataOK(d) => DataOK(d)'
    BY <1>1, <2>1
  <2> QED BY <1>4, <2>2, FaultResults
<1>5. CASE Verify(c) /\ Content(mem, ExpectedTag(Req(c))) # Tag(work[c].mac)
  <2>1. PlacesInv' /\ Writes(c) /\ Ended(c, "failed", Nil, <<>>) /\ cur[c] # 0
    BY <1>5, RefusedPlaces DEF Verify, AtStep
  <2>2. Moved(c) /\ \A d \in Client : DataOK(d) => DataOK(d)'
    BY <1>1, <2>1
  <2> QED BY <1>5, <2>2, RefusedResults
<1> QED BY <1>2, <1>3, <1>4, <1>5 DEF Stops

\* While a call goes on, the results of others are kept.
LEMMA GoesOnInv ==
  ASSUME PlacesInv, Results, \A d \in Client : DataOK(d), NEW c \in Client, GoesOn(c)
  PROVE  PlacesInv' /\ Results' /\ \A d \in Client : DataOK(d)'
<1>1. /\ Moved(c) /\ calls' = calls /\ DataOK(c)'
  BY GoesOnMoves
<1>2. /\ PlacesInv' /\ Writes(c) /\ cur[c] # 0
      /\ \A d \in Client : d # c => cur'[d] = cur[d] /\ todo'[d] = todo[d] /\ work'[d] = work[d]
  BY <1>1 DEF Moved
<1>3. /\ IsSeq(calls') /\ RecordsKept /\ \A n \in DOMAIN calls : SameResult(n)
  BY <1>1 DEF PlacesInv, TypeOK, RecordsKept, SameResult
<1>4. Results'
  <2>1. \A n \in DOMAIN calls : SealedOK(n)' /\ OpenedOK(n)'
    BY <1>3, OldResult
  <2>2. \A n \in DOMAIN calls : KeptOK(n)'
    BY <1>2, <1>3, OldKept
  <2> QED BY <1>1, <2>1, <2>2 DEF Results
<1>5. ASSUME NEW d \in Client PROVE DataOK(d)'
  <2>1. CASE d = c
    BY <1>1, <2>1
  <2>2. CASE d # c /\ cur[d] = 0
    BY <1>2, <2>2 DEF DataOK
  <2>3. CASE d # c /\ cur[d] # 0
    <3>1. \A n \in DOMAIN calls : /\ calls'[n].req = calls[n].req /\ calls'[n].given = calls[n].given
                                  /\ calls[n].with \subseteq calls'[n].with
      BY <1>3 DEF RecordsKept
    <3> QED BY <1>2, <2>3, <3>1, OthersData
  <2> QED BY <2>1, <2>2, <2>3
<1> QED BY <1>2, <1>4, <1>5

\* Every step preserves the inductive invariant.
LEMMA StepInv ==
  ASSUME IInv, [Next]_vars
  PROVE  IInv'
<1>1. PlacesInv /\ Results /\ \A d \in Client : DataOK(d)
  BY InvParts
<1>2. PlacesInv' /\ Results' /\ \A d \in Client : DataOK(d)'
  <2>1. CASE UNCHANGED vars
    <3>1. mem' = mem /\ calls' = calls /\ cur' = cur /\ todo' = todo /\ work' = work
      BY <2>1 DEF vars
    <3>2. PlacesInv'
      BY <1>1, <3>1 DEF PlacesInv, TypeOK, CallsOK, CallOK, TogetherOK, Running, ProgramOK, Req, RetOK, OwnOK, Owns,
                        PiecesOK, Ahead
    <3>3. ASSUME NEW d \in Client PROVE DataOK(d)'
      <4>1. Undisturbed(cur[d])' <=> Undisturbed(cur[d])
        BY <3>1 DEF Undisturbed
      <4>2. /\ Req(d)' = Req(d) /\ Given(d)' = Given(d) /\ Translated(d)' = Translated(d)
            /\ \A s : Ahead(d, s)' <=> Ahead(d, s)
        BY <3>1 DEF Req, Given, Translated, Ahead
      <4>3. ArgumentsHold(d)' <=> ArgumentsHold(d)
        BY <3>1, <4>2 DEF ArgumentsHold
      <4>4. LocalsOK(d)' <=> LocalsOK(d)
        BY <3>1, <4>2 DEF LocalsOK
      <4>5. OutputOK(d)' <=> OutputOK(d)
        BY <3>1, <4>2 DEF OutputOK
      <4> QED BY <1>1, <3>1, <4>1, <4>3, <4>4, <4>5 DEF DataOK
    <3>4. Results'
      <4>1. RecordsKept /\ IsSeq(calls') /\ \A n \in DOMAIN calls : SameResult(n)
        BY <1>1, <3>1 DEF PlacesInv, TypeOK, RecordsKept, SameResult
      <4>2. \A n \in DOMAIN calls : SealedOK(n)' /\ OpenedOK(n)'
        BY <1>1, <4>1, OldResult
      <4>3. \A n \in DOMAIN calls : KeptOK(n)'
        BY <1>1, <3>1, <4>1, StillKept
      <4> QED BY <3>1, <4>2, <4>3 DEF Results
    <3> QED BY <3>2, <3>3, <3>4
  <2>2. CASE Next
    <3>1. PICK c \in Client : Call(c) \/ GoesOn(c) \/ Stops(c)
      BY <2>2, NextParts
    <3>2. CASE Call(c)
      <4>1. PICK r \in Request \union OpenRequest : Start(c, r)
        BY <3>2 DEF Call
      <4> QED BY <1>1, <4>1, StartPlaces, StartData, StartResults
    <3>3. CASE GoesOn(c)
      BY <1>1, <3>3, GoesOnInv
    <3>4. CASE Stops(c)
      <4>1. Moved(c) /\ Results' /\ \A d \in Client : DataOK(d)'
        BY <1>1, <3>4, StopsMoves
      <4> QED BY <4>1 DEF Moved
    <3> QED BY <3>1, <3>2, <3>3, <3>4
  <2> QED BY <2>1, <2>2
<1>3. IInv' <=> PlacesInv' /\ (\A d \in Client : DataOK(d)') /\ Results'
  <2>1. SealedFromArguments' <=> \A n \in DOMAIN calls' : SealedOK(n)'
    BY DEF SealedFromArguments, SealedOK
  <2>2. OpenedFromArguments' <=> \A n \in DOMAIN calls' : OpenedOK(n)'
    BY DEF OpenedFromArguments, OpenedOK
  <2>3. ResultsKept' <=> \A n \in DOMAIN calls' : KeptOK(n)'
    BY DEF ResultsKept, KeptOK
  <2> QED BY <2>1, <2>2, <2>3 DEF IInv, Results
<1> QED BY <1>2, <1>3

\* The inductive invariant holds at the start.
LEMMA InitInv ==
  ASSUME Init
  PROVE  IInv
<1>1. /\ mem = Arrays /\ calls = <<>> /\ cur = [c \in Client |-> 0] /\ todo = [c \in Client |-> <<>>]
      /\ work = [c \in Client |-> NoWork]
  BY DEF Init
<1>2. IsSeq(calls) /\ DOMAIN calls = {} /\ Len(calls) = 0
  BY <1>1 DEF IsSeq
<1>3. Running = {}
  BY <1>1 DEF Running
<1>4. TypeOK
  <2>1. IsSeq(mem) /\ \A a \in DOMAIN mem : IsSeq(mem[a])
    BY <1>1, ArraysAssumption
  <2>2. IsSeq(<<>>)
    BY DEF IsSeq
  <2>3. DOMAIN NoWork = DOMAIN NoWork /\ NoWork.ret \in Slice /\ IsSeq(NoWork.out)
    BY <2>2 DEF NoWork, Nil, Slice
  <2>4. \A c \in Client : cur[c] = 0 /\ todo[c] = <<>> /\ work[c] = NoWork
    BY <1>1
  <2>5. cur \in [Client -> 0..Len(calls)]
    BY <1>1, <1>2
  <2> QED BY <1>1, <1>2, <2>1, <2>2, <2>3, <2>4, <2>5 DEF TypeOK
<1>5. CallsOK /\ TogetherOK
  BY <1>1, <1>2, <1>3 DEF CallsOK, TogetherOK
<1>6. \A c \in Client : ProgramOK(c) /\ RetOK(c) /\ OwnOK(c) /\ PiecesOK(c)
  BY <1>1 DEF ProgramOK, RetOK, OwnOK, Owns, PiecesOK
<1>7. \A c \in Client : DataOK(c)
  BY <1>1 DEF DataOK
<1>8. Results
  BY <1>2 DEF Results
<1> QED BY <1>4, <1>5, <1>6, <1>7, <1>8, InvParts DEF PlacesInv

\* The inductive invariant.
THEOREM Invariant == Spec => []IInv
<1>1. Init => IInv
  BY InitInv
<1>2. IInv /\ [Next]_vars => IInv'
  BY StepInv
<1> QED BY <1>1, <1>2, PTL DEF Spec

\* What an undisturbed Seal returns is what its arguments, as they were
\* given, determine (Seal in tpmaead.go).
THEOREM SealReturnsTheSealed == Spec => []SealedFromArguments
<1>1. IInv => SealedFromArguments
  BY DEF IInv
<1> QED BY <1>1, Invariant, PTL

\* What an undisturbed Open returns is the text of an input that was
\* authentic when given, and it refuses nothing else (Open in tpmaead.go).
THEOREM OpenReturnsTheOpened == Spec => []OpenedFromArguments
<1>1. IInv => OpenedFromArguments
  BY DEF IInv
<1> QED BY <1>1, Invariant, PTL

\* A result stays what it is until room in it is given away.
THEOREM ResultsStay == Spec => []ResultsKept
<1>1. IInv => ResultsKept
  BY DEF IInv
<1> QED BY <1>1, Invariant, PTL

\* Every step that changes memory is one of a running call, which has moved.
LEMMA WhoWrites ==
  ASSUME IInv, [Next]_vars, mem' # mem
  PROVE  \E c \in Client : /\ Moved(c) /\ (GoesOn(c) \/ Stops(c)) /\ PlacesInv /\ DataOK(c)
<1>1. PlacesInv /\ \A d \in Client : DataOK(d)
  BY InvParts
<1>2. Next
  BY DEF vars
<1>3. PICK c \in Client : Call(c) \/ GoesOn(c) \/ Stops(c)
  BY <1>2, NextParts
<1>4. ~Call(c)
  BY DEF Call, Start
<1>5. Moved(c)
  BY <1>1, <1>3, <1>4, GoesOnMoves, StopsMoves
<1> QED BY <1>1, <1>3, <1>4, <1>5

\* Nothing is written but in the footprint of the call that writes, or in an
\* array it made itself.
THEOREM WritesStayInFootprint == Spec => WritesInFootprint
<1> DEFINE Allowed(a, i) ==
             \E c \in Client :
               /\ cur[c] # 0 /\ todo'[c] # todo[c]
               /\ \/ <<a, i>> \in Footprint(Req(c))
                  \/ a = work[c].ret.arr /\ a > calls[cur[c]].arrays
           Step == \A a \in DOMAIN mem : \A i \in DOMAIN mem[a] : mem'[a][i] # mem[a][i] => Allowed(a, i)
<1>1. IInv /\ [Next]_vars => [Step]_vars
  <2> SUFFICES ASSUME IInv, [Next]_vars, NEW a \in DOMAIN mem, NEW i \in DOMAIN mem[a], mem'[a][i] # mem[a][i]
               PROVE  Allowed(a, i)
    OBVIOUS
  <2>1. mem' # mem
    OBVIOUS
  <2>2. PICK c \in Client : Moved(c) /\ PlacesInv
    BY <2>1, WhoWrites
  <2>3. DOMAIN mem[a] = 1..Len(mem[a])
    BY <2>2, SeqIsFunction DEF PlacesInv, TypeOK
  <2>4. <<a, i>> \in Footprint(Req(c)) \/ (Owns(c) /\ a = work[c].ret.arr)
    BY <2>2, <2>3 DEF Moved, Writes
  <2> QED BY <2>2, <2>4 DEF Moved, Owns
<1>2. WritesInFootprint <=> [][Step]_vars
  BY DEF WritesInFootprint
<1> HIDE DEF Step
<1> QED BY <1>1, <1>2, Invariant, PTL DEF Spec

\* Open writes only when the input it was given is authentic.
THEOREM OpenWritesOnlyAuthentic == Spec => OpenWritesAuthentic
<1> DEFINE Step == \A c \in Client :
             cur[c] # 0 /\ Req(c).op = "Open" /\ todo'[c] # todo[c] /\ mem' # mem /\ Undisturbed(cur[c]) =>
               Authentic(calls[cur[c]].given)
<1>1. IInv /\ [Next]_vars => [Step]_vars
  <2> SUFFICES ASSUME IInv, [Next]_vars, NEW c \in Client, cur[c] # 0, Req(c).op = "Open",
                      todo'[c] # todo[c], mem' # mem, Undisturbed(cur[c])
               PROVE  Authentic(calls[cur[c]].given)
    OBVIOUS
  <2>1. PICK d \in Client : Moved(d) /\ (GoesOn(d) \/ Stops(d)) /\ PlacesInv /\ DataOK(d)
    BY WhoWrites
  <2>2. d = c
    BY <2>1 DEF Moved
  <2>3. AtStep(c, "Extend") \/ AtStep(c, "CopyText") \/ AtStep(c, "CopyTag")
    <3>1. ~ReturnSealed(c)
      BY DEF ReturnSealed
    <3> QED BY <2>1, <2>2, <3>1 DEF GoesOn, Stops, Extend, TakeIV, CryptPiece, CopyText, BuildMAC, CopyTag,
                                    Verify, ReturnOpened, Fault
  <2>4. ~Ahead(c, "Verify")
    <3>1. /\ OpenAt(todo[c], Body(Req(c)).len, Len(todo[c])) /\ \A x : Ahead(c, x) <=> Has(todo[c], x)
      BY <2>1, Order
    <3>2. Head(todo[c]) \in {"Extend", "CopyText", "CopyTag"}
      BY <2>3 DEF AtStep
    <3> QED BY <3>1, <3>2 DEF OpenAt
  <2>5. Authentic(Given(c))
    BY <2>1, <2>2, <2>4 DEF DataOK, LocalsOK
  <2> QED BY <2>5 DEF Given
<1>2. OpenWritesAuthentic <=> [][Step]_vars
  BY DEF OpenWritesAuthentic
<1> HIDE DEF Step
<1> QED BY <1>1, <1>2, Invariant, PTL DEF Spec
=============================================================================
