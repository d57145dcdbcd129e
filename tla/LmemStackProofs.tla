---------------------------- MODULE LmemStackProofs ----------------------------
(***************************************************************************)
(* Facts about the allocator operators of LmemStack, cited by the proofs   *)
(* of the tests that allocate and free lmem tensors.                       *)
(***************************************************************************)
EXTENDS LmemStack, SequenceTheorems, TLAPS

\* A push keeps the stack a sequence of tensors.
LEMMA PushType ==
  ASSUME NEW S, NEW s \in Seq(S), NEW t \in S \cup {NULL}
  PROVE  Push(s, t) \in Seq(S)
  BY DEF Push

\* A free keeps the stack a sequence of tensors.
LEMMA FreeType ==
  ASSUME NEW S, NEW s \in Seq(S), NEW t
  PROVE  Free(s, t) \in Seq(S)
  BY DEF Free, IsAt

\* Freeing a tensor that is not live changes nothing.
LEMMA FreeAbsent ==
  ASSUME NEW S, NEW s \in Seq(S), NEW t, t \notin Live(s)
  PROVE  Free(s, t) = s
  BY DEF Free, IsAt, Live

\* The stack below the top.
LEMMA PopProperties ==
  ASSUME NEW S, NEW s \in Seq(S), Len(s) >= 1
  PROVE  /\ SubSeq(s, 1, Len(s) - 1) \in Seq(S)
         /\ Len(SubSeq(s, 1, Len(s) - 1)) = Len(s) - 1
         /\ \A i \in 1..Len(s) - 1 : SubSeq(s, 1, Len(s) - 1)[i] = s[i]
<1>1. /\ 1 \in Int /\ Len(s) - 1 \in Int
      /\ \A i \in 1..Len(s) - 1 : s[i] \in S
  OBVIOUS
<1>2. /\ SubSeq(s, 1, Len(s) - 1) \in Seq(S)
      /\ Len(SubSeq(s, 1, Len(s) - 1)) =
           IF 1 <= Len(s) - 1 THEN Len(s) - 1 - 1 + 1 ELSE 0
      /\ \A i \in 1..Len(s) - 1 - 1 + 1 :
           SubSeq(s, 1, Len(s) - 1)[i] = s[1 + i - 1]
  BY <1>1, SubSeqProperties
<1>5. Len(SubSeq(s, 1, Len(s) - 1)) =
        IF 1 <= Len(s) - 1 THEN Len(s) - 1 - 1 + 1 ELSE 0
  BY <1>2
<1>3. Len(SubSeq(s, 1, Len(s) - 1)) = Len(s) - 1
  BY <1>5
<1>4. \A i \in 1..Len(s) - 1 : SubSeq(s, 1, Len(s) - 1)[i] = s[i]
  <2> TAKE i \in 1..Len(s) - 1
  <2>1. i \in 1..Len(s) - 1 - 1 + 1 /\ 1 + i - 1 = i
    OBVIOUS
  <2> QED
    BY <1>2, <2>1
<1> QED
  BY <1>2, <1>3, <1>4

\* Freeing the top of a stack without duplicates pops it.
LEMMA FreeTop ==
  ASSUME NEW S, NEW s \in Seq(S), Len(s) >= 1, NoDup(s)
  PROVE  Free(s, Top(s)) = SubSeq(s, 1, Len(s) - 1)
<1>1. \E i \in 1..Len(s) : IsAt(s, Top(s), i)
  BY DEF IsAt, Top
<1>2. (CHOOSE i \in 1..Len(s) : IsAt(s, Top(s), i)) = Len(s)
  BY <1>1 DEF IsAt, Top, NoDup
<1>3. Free(s, Top(s)) = SubSeq(s, 1, Len(s) - 1) \o SubSeq(s, Len(s) + 1, Len(s))
  BY <1>1, <1>2 DEF Free
<1>4. SubSeq(s, 1, Len(s) - 1) \in Seq(S) /\ SubSeq(s, Len(s) + 1, Len(s)) = << >>
  OBVIOUS
<1> QED
  BY <1>3, <1>4

\* Pushing a tensor that is not live keeps the stack free of duplicates.
LEMMA PushNoDup ==
  ASSUME NEW S, NEW s \in Seq(S), NEW t, NoDup(s), t \notin Live(s)
  PROVE  /\ NoDup(Push(s, t))
         /\ Live(Push(s, t)) = IF t = NULL THEN Live(s) ELSE Live(s) \cup {t}
  BY DEF Push, NoDup, Live

\* An allocation that returns a tensor not live, or NULL, keeps the stack
\* free of duplicates and adds nothing but that tensor.
LEMMA PushFresh ==
  ASSUME NEW S, NEW s \in Seq(S), NoDup(s), NEW t,
         t = NULL \/ (t \in S /\ t \notin Live(s))
  PROVE  /\ Push(s, t) \in Seq(S)
         /\ NoDup(Push(s, t))
         /\ Live(Push(s, t)) \subseteq Live(s) \cup ({t} \ {NULL})
  BY DEF Push, NoDup, Live

\* A prefix of a stack without duplicates has none, and only live tensors.
LEMMA PrefixNoDup ==
  ASSUME NEW S, NEW s \in Seq(S), NEW k \in 0..Len(s), NoDup(s)
  PROVE  /\ SubSeq(s, 1, k) \in Seq(S)
         /\ NoDup(SubSeq(s, 1, k))
         /\ Live(SubSeq(s, 1, k)) \subseteq Live(s)
  BY DEF NoDup, Live


\* Freeing the tensor just pushed, which was not live before, gives back
\* the stack as it was: an allocation and its free cancel out.
LEMMA FreeAppend ==
  ASSUME NEW S, NEW s \in Seq(S), NoDup(s), NEW t \in S, t \notin Live(s)
  PROVE  Free(Append(s, t), t) = s
<1> DEFINE u == Append(s, t)
<1>1. u \in Seq(S) /\ Len(u) = Len(s) + 1 /\ Top(u) = t
  BY DEF Top
<1>2. NoDup(u)
  BY DEF NoDup, Live
<1>3. Free(u, t) = SubSeq(u, 1, Len(u) - 1)
  <2>1. u \in Seq(S) /\ Len(u) >= 1 /\ NoDup(u)
    BY <1>1, <1>2
  <2>2. Free(u, Top(u)) = SubSeq(u, 1, Len(u) - 1)
    BY <2>1, FreeTop
  <2> QED
    BY <1>1, <2>2
<1>4. /\ SubSeq(u, 1, Len(u) - 1) \in Seq(S)
      /\ Len(SubSeq(u, 1, Len(u) - 1)) = Len(u) - 1
      /\ \A i \in 1..Len(u) - 1 : SubSeq(u, 1, Len(u) - 1)[i] = u[i]
  BY <1>1, PopProperties
<1> QED
  BY <1>1, <1>3, <1>4


\* Two pushes onto the empty stack give the pair.
LEMMA AppendTwo ==
  ASSUME NEW S, NEW a \in S, NEW r \in S
  PROVE  Append(Append(<< >>, a), r) = <<a, r>>
<1> DEFINE u == Append(Append(<< >>, a), r)
<1>1. u \in Seq(S) /\ Len(u) = 2 /\ u[1] = a /\ u[2] = r
  OBVIOUS
<1>2. <<a, r>> \in Seq(S) /\ Len(<<a, r>>) = 2 /\ <<a, r>>[1] = a /\ <<a, r>>[2] = r
  OBVIOUS
<1>3. \A i \in 1..Len(u) : u[i] = <<a, r>>[i]
  BY <1>1, <1>2
<1> QED
  BY <1>1, <1>2, <1>3, SeqEqual

(***************************************************************************)
(* Two allocations, a then r, each NULL when it failed, undone by two      *)
(* frees, r then a.  Pair(a, r, k) is the stack while k of the two frees   *)
(* are still to make.                                                      *)
(***************************************************************************)
Pair(a, r, k) ==
  Push(Push(<< >>, IF k >= 1 THEN a ELSE NULL), IF k = 2 THEN r ELSE NULL)

LEMMA PairStack ==
  ASSUME NEW S, NULL \notin S, NEW a \in S \cup {NULL}, NEW r \in S \cup {NULL},
         a = NULL \/ a # r
  PROVE  /\ Pair(a, r, 0) = << >>
         /\ Pair(a, r, 2) = Push(Push(<< >>, a), r)
         /\ \A k \in 0..2 : Pair(a, r, k) \in Seq(S)
         /\ Free(Pair(a, r, 2), r) = Pair(a, r, 1)
         /\ Free(Pair(a, r, 1), a) = Pair(a, r, 0)
         /\ r # NULL => Pair(a, r, 2) # << >> /\ Top(Pair(a, r, 2)) = r
         /\ a # NULL => Pair(a, r, 1) # << >> /\ Top(Pair(a, r, 1)) = a
<1>1. /\ Pair(a, r, 0) = << >>
      /\ Pair(a, r, 1) = Push(<< >>, a)
      /\ Pair(a, r, 2) = Push(Push(<< >>, a), r)
  BY DEF Pair, Push
<1>2. /\ << >> \in Seq(S) /\ NoDup(<< >>) /\ Live(<< >>) = {}
  BY DEF NoDup, Live
<1>3. /\ Push(<< >>, a) \in Seq(S) /\ NoDup(Push(<< >>, a))
      /\ Live(Push(<< >>, a)) \subseteq {a} \ {NULL}
  BY <1>2, PushFresh
<1>4. Push(Push(<< >>, a), r) \in Seq(S)
  BY <1>3, PushType
<1>5. Free(Pair(a, r, 2), r) = Pair(a, r, 1)
  <2>1. CASE r = NULL
    <3>1. r \notin Live(Push(<< >>, a))
      BY <1>3, <2>1
    <3> QED
      BY <1>1, <1>3, <2>1, <3>1, FreeAbsent DEF Push
  <2>2. CASE r # NULL
    <3>1. r \in S /\ r \notin Live(Push(<< >>, a))
      BY <1>3, <2>2
    <3>2. Pair(a, r, 2) = Append(Push(<< >>, a), r)
      BY <1>1, <2>2 DEF Push
    <3> QED
      BY <1>1, <1>3, <3>1, <3>2, FreeAppend
  <2> QED
    BY <2>1, <2>2
<1>6. Free(Pair(a, r, 1), a) = Pair(a, r, 0)
  <2>1. CASE a = NULL
    BY <1>1, <1>2, <2>1, FreeAbsent DEF Push
  <2>2. CASE a # NULL
    <3>1. a \in S /\ a \notin Live(<< >>) /\ Pair(a, r, 1) = Append(<< >>, a)
      BY <1>1, <1>2, <2>2 DEF Push
    <3> QED
      BY <1>1, <1>2, <3>1, FreeAppend
  <2> QED
    BY <2>1, <2>2
<1>7. r # NULL => Pair(a, r, 2) # << >> /\ Top(Pair(a, r, 2)) = r
  BY <1>1, <1>3 DEF Push, Top
<1>8. a # NULL => Pair(a, r, 1) # << >> /\ Top(Pair(a, r, 1)) = a
  BY <1>1 DEF Push, Top
<1>9. \A k \in 0..2 : Pair(a, r, k) \in Seq(S)
  <2> TAKE k \in 0..2
  <2>1. k = 0 \/ k = 1 \/ k = 2
    OBVIOUS
  <2> QED
    BY <1>1, <1>2, <1>3, <1>4, <2>1
<1> QED
  BY <1>1, <1>5, <1>6, <1>7, <1>8, <1>9


\* The frees still to make when k remain and the NULL ones are skipped:
\* r, then a.
PairFrees(a, r, k) ==
  Push(Push(<< >>, IF k = 2 THEN r ELSE NULL), IF k >= 1 THEN a ELSE NULL)

(***************************************************************************)
(* Each free of a non-empty list of PairFrees pops the top of the stack,   *)
(* and what remains is the pair one free on; an empty list means an empty *)
(* stack.                                                                  *)
(***************************************************************************)
LEMMA PairFreeStep ==
  ASSUME NEW S, NULL \notin S, NEW a \in S \cup {NULL}, NEW r \in S \cup {NULL},
         a = NULL \/ a # r, NEW k \in 0..2
  PROVE  /\ PairFrees(a, r, k) \in Seq(S)
         /\ PairFrees(a, r, 0) = << >>
         /\ PairFrees(a, r, k) = << >> => Pair(a, r, k) = << >>
         /\ PairFrees(a, r, k) # << >> =>
              \E j \in 0..1 :
                 /\ Tail(PairFrees(a, r, k)) = PairFrees(a, r, j)
                 /\ Free(Pair(a, r, k), Head(PairFrees(a, r, k))) = Pair(a, r, j)
                 /\ Pair(a, r, k) # << >>
                 /\ Top(Pair(a, r, k)) = Head(PairFrees(a, r, k))
<1>1. /\ Pair(a, r, 0) = << >>
      /\ Pair(a, r, 2) = Push(Push(<< >>, a), r)
      /\ \A j \in 0..2 : Pair(a, r, j) \in Seq(S)
      /\ Free(Pair(a, r, 2), r) = Pair(a, r, 1)
      /\ Free(Pair(a, r, 1), a) = Pair(a, r, 0)
      /\ r # NULL => Pair(a, r, 2) # << >> /\ Top(Pair(a, r, 2)) = r
      /\ a # NULL => Pair(a, r, 1) # << >> /\ Top(Pair(a, r, 1)) = a
  BY PairStack
<1>2. /\ PairFrees(a, r, 0) = << >>
      /\ PairFrees(a, r, 1) = Pair(a, r, 1)
      /\ Pair(a, r, 1) = Push(<< >>, a)
      /\ PairFrees(a, r, 2) = Push(Push(<< >>, r), a)
  BY DEF PairFrees, Pair, Push
<1>3. /\ << >> \in Seq(S)
      /\ Push(<< >>, a) \in Seq(S)
      /\ Push(<< >>, r) \in Seq(S)
      /\ Push(Push(<< >>, r), a) \in Seq(S)
  <2>1. << >> \in Seq(S)
    OBVIOUS
  <2>2. Push(<< >>, a) \in Seq(S) /\ Push(<< >>, r) \in Seq(S)
    BY <2>1, PushType
  <2> QED
    BY <2>1, <2>2, PushType
<1>4. PairFrees(a, r, k) \in Seq(S)
  BY <1>2, <1>3 DEF PairFrees, Push
\* One live tensor t, with nothing under it.
<1>5. ASSUME NEW t \in S
      PROVE  /\ Append(<< >>, t) # << >>
             /\ Head(Append(<< >>, t)) = t
             /\ Tail(Append(<< >>, t)) = << >>
  <2>1. << >> \in Seq(S)
    OBVIOUS
  <2> QED
    BY <1>5, <2>1, AppendProperties, HeadTailAppend
\* The frees when k = 1, or k = 2 and the second allocation failed: only a.
<1>6. ASSUME k = 1 \/ (k = 2 /\ r = NULL)
      PROVE  /\ PairFrees(a, r, k) = << >> => Pair(a, r, k) = << >>
             /\ PairFrees(a, r, k) # << >> =>
                  /\ Tail(PairFrees(a, r, k)) = PairFrees(a, r, 0)
                  /\ Free(Pair(a, r, k), Head(PairFrees(a, r, k))) = Pair(a, r, 0)
                  /\ Pair(a, r, k) # << >>
                  /\ Top(Pair(a, r, k)) = Head(PairFrees(a, r, k))
  <2>1. PairFrees(a, r, k) = Push(<< >>, a) /\ Pair(a, r, k) = Push(<< >>, a)
    BY <1>2, <1>6 DEF PairFrees, Pair, Push
  <2>2. CASE a = NULL
    BY <2>1, <2>2 DEF Push
  <2>3. CASE a # NULL
    <3>1. PairFrees(a, r, k) # << >> /\ Head(PairFrees(a, r, k)) = a
          /\ Tail(PairFrees(a, r, k)) = PairFrees(a, r, 0)
      BY <1>2, <1>5, <2>1, <2>3 DEF Push
    <3>2. /\ Free(Pair(a, r, k), Head(PairFrees(a, r, k))) = Pair(a, r, 0)
          /\ Pair(a, r, k) # << >>
          /\ Top(Pair(a, r, k)) = Head(PairFrees(a, r, k))
      BY <1>1, <1>2, <2>1, <2>3, <3>1
    <3> QED
      BY <3>1, <3>2
  <2> QED
    BY <2>2, <2>3
\* The frees when both allocations were kept: r, then a.
<1>7. ASSUME k = 2, r # NULL
      PROVE  /\ PairFrees(a, r, k) = << >> => Pair(a, r, k) = << >>
             /\ PairFrees(a, r, k) # << >> =>
                  /\ Tail(PairFrees(a, r, k)) = PairFrees(a, r, 1)
                  /\ Free(Pair(a, r, k), Head(PairFrees(a, r, k))) = Pair(a, r, 1)
                  /\ Pair(a, r, k) # << >>
                  /\ Top(Pair(a, r, k)) = Head(PairFrees(a, r, k))
  <2>1. r \in S /\ Push(<< >>, r) = Append(<< >>, r)
    BY <1>7 DEF Push
  <2>2. /\ PairFrees(a, r, k) # << >>
        /\ Head(PairFrees(a, r, k)) = r
        /\ Tail(PairFrees(a, r, k)) = PairFrees(a, r, 1)
    <3>1. CASE a = NULL
      <4>1. PairFrees(a, r, k) = Append(<< >>, r) /\ PairFrees(a, r, 1) = << >>
        BY <1>2, <1>7, <2>1, <3>1 DEF Push
      <4> QED
        BY <1>5, <2>1, <4>1
    <3>2. CASE a # NULL
      <4>1. PairFrees(a, r, k) = Append(Append(<< >>, r), a)
            /\ PairFrees(a, r, 1) = Append(<< >>, a)
        BY <1>2, <1>7, <2>1, <3>2 DEF Push
      <4>2. a \in S /\ Append(<< >>, r) \in Seq(S)
        BY <3>2, <1>3, <2>1
      <4>3. /\ Head(Append(Append(<< >>, r), a)) = Head(Append(<< >>, r))
            /\ Tail(Append(Append(<< >>, r), a)) = Append(Tail(Append(<< >>, r)), a)
            /\ Append(Append(<< >>, r), a) # << >>
        <5>1. Append(<< >>, r) # << >>
          BY <1>5, <2>1
        <5> QED
          BY <4>2, <5>1, HeadTailAppend, AppendProperties
      <4> QED
        BY <1>5, <2>1, <4>1, <4>3
    <3> QED
      BY <3>1, <3>2
  <2>3. /\ Free(Pair(a, r, k), Head(PairFrees(a, r, k))) = Pair(a, r, 1)
        /\ Pair(a, r, k) # << >>
        /\ Top(Pair(a, r, k)) = Head(PairFrees(a, r, k))
    BY <1>1, <1>7, <2>2
  <2> QED
    BY <2>2, <2>3
<1>8. CASE k = 0
  BY <1>1, <1>2, <1>4, <1>8
<1>9. CASE k = 1 \/ (k = 2 /\ r = NULL)
  BY <1>2, <1>4, <1>6, <1>9
<1>10. CASE k = 2 /\ r # NULL
  BY <1>2, <1>4, <1>7, <1>10
<1> QED
  BY <1>8, <1>9, <1>10

-----------------------------------------------------------------------------
(***************************************************************************)
(* Frees in "Reverse order": a free list is the stack read from the top.   *)
(***************************************************************************)
Rev(s) == [i \in 1..Len(s) |-> s[Len(s) - i + 1]]

LEMMA RevProperties ==
  ASSUME NEW S, NEW s \in Seq(S)
  PROVE  /\ Rev(s) \in Seq(S)
         /\ Len(Rev(s)) = Len(s)
         /\ \A i \in 1..Len(s) : Rev(s)[i] = s[Len(s) - i + 1]
<1>1. \A i \in 1..Len(s) : s[Len(s) - i + 1] \in S
  OBVIOUS
<1>2. Rev(s) \in Seq(S)
  <2>1. Len(s) \in Nat
    OBVIOUS
  <2> QED
    BY <1>1, <2>1, IsASeq DEF Rev
<1> QED
  BY <1>2 DEF Rev

\* The stack read from the top is empty exactly when the stack is.
LEMMA RevEmpty ==
  ASSUME NEW S, NEW s \in Seq(S)
  PROVE  Rev(s) = << >> <=> s = << >>
<1>1. Len(Rev(s)) = Len(s) /\ Rev(s) \in Seq(S)
  BY RevProperties
<1> QED
  BY <1>1

\* Reading a concatenation from the top reads its second part first.
LEMMA RevConcat ==
  ASSUME NEW S, NEW s \in Seq(S), NEW u \in Seq(S)
  PROVE  Rev(s \o u) = Rev(u) \o Rev(s)
<1>1. /\ s \o u \in Seq(S) /\ Len(s \o u) = Len(s) + Len(u)
      /\ \A i \in 1..Len(s) + Len(u) :
           (s \o u)[i] = IF i <= Len(s) THEN s[i] ELSE u[i - Len(s)]
  BY ConcatProperties
<1>2. /\ Rev(s \o u) \in Seq(S) /\ Len(Rev(s \o u)) = Len(s) + Len(u)
      /\ \A i \in 1..Len(s) + Len(u) :
           Rev(s \o u)[i] = (s \o u)[Len(s) + Len(u) - i + 1]
  <2> DEFINE t == s \o u
  <2>1. t \in Seq(S)
    BY <1>1
  <2>2. /\ Rev(t) \in Seq(S) /\ Len(Rev(t)) = Len(t)
        /\ \A i \in 1..Len(t) : Rev(t)[i] = t[Len(t) - i + 1]
    BY <2>1, RevProperties
  <2> QED
    BY <1>1, <2>2
<1>3. /\ Rev(s) \in Seq(S) /\ Len(Rev(s)) = Len(s)
      /\ \A i \in 1..Len(s) : Rev(s)[i] = s[Len(s) - i + 1]
      /\ Rev(u) \in Seq(S) /\ Len(Rev(u)) = Len(u)
      /\ \A i \in 1..Len(u) : Rev(u)[i] = u[Len(u) - i + 1]
  BY RevProperties
<1>4. /\ Rev(u) \o Rev(s) \in Seq(S)
      /\ Len(Rev(u) \o Rev(s)) = Len(u) + Len(s)
      /\ \A i \in 1..Len(u) + Len(s) :
           (Rev(u) \o Rev(s))[i] =
             IF i <= Len(u) THEN Rev(u)[i] ELSE Rev(s)[i - Len(u)]
  <2>1. Rev(u) \in Seq(S) /\ Rev(s) \in Seq(S)
    BY <1>3
  <2>2. /\ Rev(u) \o Rev(s) \in Seq(S)
        /\ Len(Rev(u) \o Rev(s)) = Len(Rev(u)) + Len(Rev(s))
        /\ \A i \in 1..Len(Rev(u)) + Len(Rev(s)) :
             (Rev(u) \o Rev(s))[i] =
               IF i <= Len(Rev(u)) THEN Rev(u)[i] ELSE Rev(s)[i - Len(Rev(u))]
    BY <2>1, ConcatProperties
  <2> QED
    BY <1>3, <2>2
<1>5. \A i \in 1..Len(s) + Len(u) : Rev(s \o u)[i] = (Rev(u) \o Rev(s))[i]
  <2> SUFFICES ASSUME NEW i \in 1..Len(s) + Len(u)
               PROVE  Rev(s \o u)[i] = (Rev(u) \o Rev(s))[i]
    OBVIOUS
  <2>1. Len(s) \in Nat /\ Len(u) \in Nat
    OBVIOUS
  <2>2. CASE i <= Len(u)
    <3>1. Len(s) + Len(u) - i + 1 > Len(s)
          /\ Len(s) + Len(u) - i + 1 - Len(s) = Len(u) - i + 1
      BY <2>1, <2>2
    <3> QED
      BY <1>1, <1>2, <1>3, <1>4, <2>2, <3>1
  <2>3. CASE ~(i <= Len(u))
    <3> DEFINE j == Len(s) + Len(u) - i + 1
    <3>1. /\ j \in 1..Len(s) + Len(u) /\ j <= Len(s)
          /\ j = Len(s) - (i - Len(u)) + 1
          /\ i - Len(u) \in 1..Len(s)
      BY <2>1, <2>3
    <3>2. Rev(s \o u)[i] = s[j]
      <4>1. Rev(s \o u)[i] = (s \o u)[j] /\ (s \o u)[j] = s[j]
        BY <1>1, <1>2, <3>1
      <4> QED
        BY <4>1
    <3>3. (Rev(u) \o Rev(s))[i] = s[j]
      <4>1. (Rev(u) \o Rev(s))[i] = Rev(s)[i - Len(u)]
        BY <1>4, <2>3
      <4>2. Rev(s)[i - Len(u)] = s[Len(s) - (i - Len(u)) + 1]
        BY <1>3, <3>1
      <4> QED
        BY <3>1, <4>1, <4>2
    <3> QED
      BY <3>2, <3>3
  <2> QED
    BY <2>2, <2>3
<1>6. Len(Rev(s \o u)) = Len(Rev(u) \o Rev(s))
  BY <1>2, <1>4
<1> DEFINE a == Rev(s \o u)
           b == Rev(u) \o Rev(s)
<1>7. a \in Seq(S) /\ b \in Seq(S) /\ Len(a) = Len(b)
      /\ \A i \in 1..Len(a) : a[i] = b[i]
  BY <1>2, <1>4, <1>5, <1>6
<1> HIDE DEF a, b
<1>8. a = b
  BY <1>7, SeqEqual
<1> QED
  BY <1>8 DEF a, b

\* The top of the stack is the first of the free list, and what the free
\* list leaves after it is the stack below the top, read from the top.
LEMMA RevPop ==
  ASSUME NEW S, NEW s \in Seq(S), s # << >>
  PROVE  /\ Rev(s) # << >>
         /\ Head(Rev(s)) = s[Len(s)]
         /\ Tail(Rev(s)) = Rev(SubSeq(s, 1, Len(s) - 1))
<1>1. /\ Rev(s) \in Seq(S) /\ Len(Rev(s)) = Len(s) /\ Len(s) >= 1
      /\ \A i \in 1..Len(s) : Rev(s)[i] = s[Len(s) - i + 1]
  BY RevProperties
<1>2. /\ Head(Rev(s)) \in S /\ Tail(Rev(s)) \in Seq(S)
      /\ Len(Tail(Rev(s))) = Len(s) - 1
      /\ \A i \in 1..Len(s) - 1 : Tail(Rev(s))[i] = Rev(s)[i + 1]
  BY <1>1, HeadTailProperties
<1>3. /\ SubSeq(s, 1, Len(s) - 1) \in Seq(S)
      /\ Len(SubSeq(s, 1, Len(s) - 1)) = Len(s) - 1
      /\ \A i \in 1..Len(s) - 1 : SubSeq(s, 1, Len(s) - 1)[i] = s[i]
  BY <1>1, PopProperties
<1>4. /\ Rev(SubSeq(s, 1, Len(s) - 1)) \in Seq(S)
      /\ Len(Rev(SubSeq(s, 1, Len(s) - 1))) = Len(s) - 1
      /\ \A i \in 1..Len(s) - 1 :
           Rev(SubSeq(s, 1, Len(s) - 1))[i] = s[Len(s) - 1 - i + 1]
  <2> DEFINE p == SubSeq(s, 1, Len(s) - 1)
  <2>0. p \in Seq(S)
    BY <1>3
  <2>1. /\ Rev(p) \in Seq(S)
        /\ Len(Rev(p)) = Len(p)
        /\ \A i \in 1..Len(p) : Rev(p)[i] = p[Len(p) - i + 1]
    BY <2>0, RevProperties
  <2> QED
    BY <1>1, <1>3, <2>1
<1>5. \A i \in 1..Len(s) - 1 :
        Tail(Rev(s))[i] = Rev(SubSeq(s, 1, Len(s) - 1))[i]
  BY <1>1, <1>2, <1>4
<1>6. Head(Rev(s)) = s[Len(s)]
  BY <1>1
<1>7. Tail(Rev(s)) = Rev(SubSeq(s, 1, Len(s) - 1))
  <2>1. /\ Tail(Rev(s)) \in Seq(S)
        /\ Rev(SubSeq(s, 1, Len(s) - 1)) \in Seq(S)
        /\ Len(Tail(Rev(s))) = Len(Rev(SubSeq(s, 1, Len(s) - 1)))
    BY <1>2, <1>4
  <2> QED
    BY <1>2, <1>5, <2>1, SeqEqual
<1>8. Rev(s) # << >>
  BY <1>1
<1> QED
  BY <1>6, <1>7, <1>8

\* A push of t is a concatenation of the one-element stack of t, or of
\* nothing when t is NULL; read from the top, that stack is itself.
LEMMA PushConcat ==
  ASSUME NEW S, NULL \notin S, NEW s \in Seq(S), NEW t \in S \cup {NULL}
  PROVE  /\ Push(<< >>, t) \in Seq(S)
         /\ Push(s, t) = s \o Push(<< >>, t)
         /\ Rev(Push(<< >>, t)) = Push(<< >>, t)
<1>1. CASE t = NULL
  <2>1. Push(<< >>, t) = << >> /\ Push(s, t) = s
    BY <1>1 DEF Push
  <2>2. s \o << >> = s /\ << >> \in Seq(S)
    BY ConcatEmptySeq
  <2>3. Rev(<< >>) = << >>
    BY <2>2, RevEmpty
  <2> QED
    BY <2>1, <2>2, <2>3
<1>2. CASE t # NULL
  <2>1. t \in S /\ Push(<< >>, t) = <<t>> /\ Push(s, t) = Append(s, t)
    BY <1>2 DEF Push
  <2>2. <<t>> \in Seq(S) /\ Append(s, t) = s \o <<t>>
    BY <2>1, AppendIsConcat
  <2>3. Rev(<<t>>) = <<t>>
    <3>0. /\ Rev(<<t>>) \in Seq(S) /\ Len(Rev(<<t>>)) = Len(<<t>>)
          /\ \A i \in 1..Len(<<t>>) : Rev(<<t>>)[i] = <<t>>[Len(<<t>>) - i + 1]
      BY <2>2, RevProperties
    <3>1. Rev(<<t>>) \in Seq(S) /\ Len(Rev(<<t>>)) = 1 /\ Rev(<<t>>)[1] = t
      BY <3>0
    <3> QED
      BY <2>2, <3>1, SeqEqual
  <2> QED
    BY <2>1, <2>2, <2>3
<1> QED
  BY <1>1, <1>2

(***************************************************************************)
(* Four allocations a, b, c, d, each NULL when it failed, and the four     *)
(* frees "if (x) free(x)" written in reverse order d, c, b, a: the frees   *)
(* that are made are the stack read from the top.                          *)
(***************************************************************************)
LEMMA PushReversed ==
  ASSUME NEW S, NULL \notin S, NEW a \in S \cup {NULL}, NEW b \in S \cup {NULL},
         NEW c \in S \cup {NULL}, NEW d \in S \cup {NULL}
  PROVE  Push(Push(Push(Push(<< >>, d), c), b), a)
           = Rev(Push(Push(Push(Push(<< >>, a), b), c), d))
<1> DEFINE A == Push(<< >>, a)
           B == Push(<< >>, b)
           C == Push(<< >>, c)
           D == Push(<< >>, d)
<1>0. << >> \in Seq(S)
  OBVIOUS
<1>1. /\ A \in Seq(S) /\ B \in Seq(S) /\ C \in Seq(S) /\ D \in Seq(S)
      /\ Rev(A) = A /\ Rev(B) = B /\ Rev(C) = C /\ Rev(D) = D
  <2>1. A \in Seq(S) /\ Rev(A) = A
    BY <1>0, PushConcat
  <2>2. B \in Seq(S) /\ Rev(B) = B
    BY <1>0, PushConcat
  <2>3. C \in Seq(S) /\ Rev(C) = C
    BY <1>0, PushConcat
  <2>4. D \in Seq(S) /\ Rev(D) = D
    BY <1>0, PushConcat
  <2> QED
    BY <2>1, <2>2, <2>3, <2>4
<1>2. /\ A \o B \in Seq(S) /\ (A \o B) \o C \in Seq(S)
      /\ D \o C \in Seq(S) /\ (D \o C) \o B \in Seq(S)
      /\ B \o A \in Seq(S) /\ C \o (B \o A) \in Seq(S)
  BY <1>1, ConcatProperties
<1>3. /\ Push(A, b) = A \o B
      /\ Push(A \o B, c) = (A \o B) \o C
      /\ Push((A \o B) \o C, d) = ((A \o B) \o C) \o D
      /\ Push(D, c) = D \o C
      /\ Push(D \o C, b) = (D \o C) \o B
      /\ Push((D \o C) \o B, a) = ((D \o C) \o B) \o A
  BY <1>1, <1>2, PushConcat
<1>a. A \in Seq(S)
  BY <1>1
<1>b. B \in Seq(S)
  BY <1>1
<1>c. C \in Seq(S)
  BY <1>1
<1>d. D \in Seq(S)
  BY <1>1
<1> HIDE DEF A, B, C, D
<1>4. Rev(((A \o B) \o C) \o D) = D \o (C \o (B \o A))
  <2>1. Rev(A \o B) = B \o A
    <3>1. Rev(A \o B) = Rev(B) \o Rev(A)
      BY <1>a, <1>b, RevConcat
    <3> QED
      BY <1>1, <3>1
  <2>2. Rev((A \o B) \o C) = C \o (B \o A)
    <3>1. A \o B \in Seq(S)
      BY <1>2
    <3>2. Rev((A \o B) \o C) = Rev(C) \o Rev(A \o B)
      BY <1>c, <3>1, RevConcat
    <3> QED
      BY <1>1, <2>1, <3>2
  <2>3. Rev(((A \o B) \o C) \o D) = Rev(D) \o Rev((A \o B) \o C)
    <3>1. (A \o B) \o C \in Seq(S)
      BY <1>2
    <3> QED
      BY <1>d, <3>1, RevConcat
  <2> QED
    BY <1>1, <2>2, <2>3
<1>5. ((D \o C) \o B) \o A = D \o (C \o (B \o A))
  <2> DEFINE DC == D \o C
             BA == B \o A
  <2>1. DC \in Seq(S)
    BY <1>c, <1>d, ConcatProperties
  <2>2. BA \in Seq(S)
    BY <1>a, <1>b, ConcatProperties
  <2> HIDE DEF DC, BA
  <2>3. (DC \o B) \o A = DC \o (B \o A)
    BY <2>1, <1>a, <1>b, ConcatAssociative
  <2>4. (D \o C) \o BA = D \o (C \o BA)
    BY <2>2, <1>c, <1>d, ConcatAssociative
  <2> QED
    BY <2>3, <2>4 DEF DC, BA
<1> QED
  BY <1>3, <1>4, <1>5 DEF A, B, C, D

\* Four successful allocations in a row.
LEMMA AppendFour ==
  ASSUME NEW S, NEW a \in S, NEW b \in S, NEW c \in S, NEW d \in S
  PROVE  Append(Append(Append(Append(<< >>, a), b), c), d) = <<a, b, c, d>>
<1> DEFINE u == Append(Append(Append(Append(<< >>, a), b), c), d)
<1>1. u \in Seq(S) /\ Len(u) = 4 /\ u[1] = a /\ u[2] = b /\ u[3] = c /\ u[4] = d
  OBVIOUS
<1>2. <<a, b, c, d>> \in Seq(S) /\ Len(<<a, b, c, d>>) = 4
  OBVIOUS
<1>3. \A i \in 1..Len(u) : u[i] = <<a, b, c, d>>[i]
  BY <1>1
<1> QED
  BY <1>1, <1>2, <1>3, SeqEqual

(***************************************************************************)
(* Four allocations a, b, c, d of distinct tensors, each NULL when it      *)
(* failed, leave no tensor live twice.                                     *)
(***************************************************************************)
LEMMA PushFourNoDup ==
  ASSUME NEW S, NULL \notin S, NEW a \in S \cup {NULL}, NEW b \in S \cup {NULL},
         NEW c \in S \cup {NULL}, NEW d \in S \cup {NULL},
         a # NULL => a \notin {b, c, d},
         b # NULL => b \notin {c, d},
         c # NULL => c # d
  PROVE  /\ Push(Push(Push(Push(<< >>, a), b), c), d) \in Seq(S)
         /\ NoDup(Push(Push(Push(Push(<< >>, a), b), c), d))
<1>0. << >> \in Seq(S) /\ NoDup(<< >>) /\ Live(<< >>) = {}
  BY DEF NoDup, Live
<1>1. /\ Push(<< >>, a) \in Seq(S) /\ NoDup(Push(<< >>, a))
      /\ Live(Push(<< >>, a)) \subseteq {a} \ {NULL}
  <2>1. Push(<< >>, a) \in Seq(S)
    BY <1>0, PushType
  <2>2. a \notin Live(<< >>)
    BY <1>0
  <2>3. /\ NoDup(Push(<< >>, a))
        /\ Live(Push(<< >>, a)) = IF a = NULL THEN Live(<< >>) ELSE Live(<< >>) \cup {a}
    BY <1>0, <2>2, PushNoDup
  <2> QED
    BY <1>0, <2>1, <2>3
<1>2. /\ Push(Push(<< >>, a), b) \in Seq(S) /\ NoDup(Push(Push(<< >>, a), b))
      /\ Live(Push(Push(<< >>, a), b)) \subseteq {a, b} \ {NULL}
  <2>1. b \notin Live(Push(<< >>, a))
    BY <1>1
  <2>2. Push(Push(<< >>, a), b) \in Seq(S)
    BY <1>1, PushType
  <2> QED
    BY <1>1, <2>1, <2>2, PushNoDup
<1>3. /\ Push(Push(Push(<< >>, a), b), c) \in Seq(S)
      /\ NoDup(Push(Push(Push(<< >>, a), b), c))
      /\ Live(Push(Push(Push(<< >>, a), b), c)) \subseteq {a, b, c} \ {NULL}
  <2>1. c \notin Live(Push(Push(<< >>, a), b))
    BY <1>2
  <2>2. Push(Push(Push(<< >>, a), b), c) \in Seq(S)
    BY <1>2, PushType
  <2> QED
    BY <1>2, <2>1, <2>2, PushNoDup
<1>4. d \notin Live(Push(Push(Push(<< >>, a), b), c))
  BY <1>3
<1> QED
  BY <1>3, <1>4, PushType, PushNoDup

=============================================================================
