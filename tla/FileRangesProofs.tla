-------------------------- MODULE FileRangesProofs --------------------------
(***************************************************************************)
(* What holds of the ranges of a file for all papers, texts and bounds:    *)
(* their types, one paper for all, "all pages" only by itself, and a flag  *)
(* that is true of the text.                                               *)
(***************************************************************************)
EXTENDS FileRanges, WellFoundedInduction, TLAPS

\* The three need each other: only a range by itself may change its paper, and
\* an "all pages" range may only because it is by itself.
Inv == TypeOK /\ OnePaper /\ AllPagesAlone

LEMMA TextTypes == <<>> \in Seq(Tokens) /\ <<>> # None
<1>1. <<>> \in Seq(Tokens)
  OBVIOUS
<1>2. None \notin Seq(Tokens)
  BY RangesAssumption DEF RangesAssumption
<1> QED BY <1>1, <1>2, Zenon

LEMMA ValidIsBoolean == ASSUME NEW text PROVE isValidRange(text) \in BOOLEAN
BY DEF isValidRange

\* A range replaced by one on the paper of the first, which is "all pages" only
\* if there is no other, leaves the invariant as it is.
LEMMA SetFieldKeeps ==
    ASSUME Inv, NEW i \in DOMAIN ranges, NEW r \in Range, SetField(i, r),
           Len(ranges) = 1 \/ Paper(r.variant) = Paper(ranges[1].variant),
           AllPages(r) => Len(ranges) = 1
    PROVE  Inv'
<1> DEFINE n == Len(ranges)
<1>1. ranges \in Seq(Range) /\ n \in Nat /\ DOMAIN ranges = 1..n
  BY DEF Inv, TypeOK
<1>2. /\ ranges' = [ranges EXCEPT ![i] = r]
      /\ ranges' \in Seq(Range) /\ Len(ranges') = n /\ DOMAIN ranges' = 1..n
  BY <1>1 DEF SetField
<1>3. OnePaper'
  <2>1. ASSUME NEW j \in 1..n PROVE Paper(ranges'[j].variant) = Paper(ranges'[1].variant)
    <3>1. CASE n = 1
      BY <2>1, <3>1
    <3>2. CASE n # 1
      <4>1. \A k \in 1..n : Paper(ranges[k].variant) = Paper(ranges[1].variant)
        BY <1>1 DEF Inv, OnePaper
      <4>2. Paper(r.variant) = Paper(ranges[1].variant)
        BY <3>2
      <4>3. \A k \in 1..n : ranges'[k] = IF k = i THEN r ELSE ranges[k]
        BY <1>1, <1>2
      <4> QED BY <1>1, <2>1, <4>1, <4>2, <4>3
    <3> QED BY <3>1, <3>2
  <2> QED BY <1>2, <2>1 DEF OnePaper
<1>4. AllPagesAlone'
  BY <1>1, <1>2 DEF Inv, AllPagesAlone, AllPages
<1> QED BY <1>2, <1>3, <1>4 DEF Inv, TypeOK

LEMMA AddKeeps == ASSUME Inv, Add PROVE Inv'
<1> DEFINE n == Len(ranges)
<1>1. ranges \in Seq(Range) /\ n \in Nat /\ DOMAIN ranges = 1..n
  BY DEF Inv, TypeOK
<1>2. PICK v \in Variants :
        /\ IF ranges = <<>> THEN Paper(v) = DefaultPaper ELSE v = ranges[1].variant
        /\ ranges' = Append(ranges, [text |-> IF ranges = <<>> THEN None ELSE <<>>,
                                     valid |-> ranges = <<>>,
                                     copies |-> 1, variant |-> v])
  BY DEF Add
<1> DEFINE new == [text |-> IF ranges = <<>> THEN None ELSE <<>>,
                   valid |-> ranges = <<>>, copies |-> 1, variant |-> v]
<1>3. new \in Range
  <2>1. 1 \in 1..MaxCopies
    BY RangesAssumption DEF RangesAssumption
  <2> QED BY <2>1, TextTypes DEF Range
<1>4. /\ ranges' \in Seq(Range) /\ Len(ranges') = n + 1 /\ DOMAIN ranges' = 1..(n + 1)
      /\ \A k \in 1..n : ranges'[k] = ranges[k]
      /\ ranges'[n + 1] = new
  BY <1>1, <1>2, <1>3
<1>5. CASE n = 0
  BY <1>4, <1>5 DEF Inv, TypeOK, OnePaper, AllPagesAlone
<1>6. CASE n > 0
  <2>1. ranges # <<>>
    BY <1>6
  <2>2. new.variant = ranges[1].variant /\ new.text = <<>>
    BY <1>2, <2>1
  <2>3. OnePaper'
    <3>1. \A k \in 1..(n + 1) : Paper(ranges'[k].variant) = Paper(ranges[1].variant)
      BY <1>1, <1>4, <1>6, <2>2 DEF Inv, OnePaper
    <3> QED BY <1>4, <3>1 DEF OnePaper
  <2>4. \A k \in 1..(n + 1) : ~AllPages(ranges'[k])
    BY <1>1, <1>4, <2>2, TextTypes DEF Add, AllPages
  <2> QED BY <1>4, <2>3, <2>4 DEF Inv, TypeOK, AllPagesAlone
<1> QED BY <1>1, <1>5, <1>6

LEMMA DeleteKeeps == ASSUME Inv, NEW i, Delete(i) PROVE Inv'
<1> DEFINE n == Len(ranges)
<1>1. ranges \in Seq(Range) /\ n \in Nat /\ DOMAIN ranges = 1..n /\ i \in 1..n
  BY DEF Inv, TypeOK, Delete
<1>2. ranges' = [k \in 1..(n - 1) |-> IF k < i THEN ranges[k] ELSE ranges[k + 1]]
  BY DEF Delete
<1>3. ASSUME NEW k \in 1..(n - 1)
      PROVE  \E j \in 1..n : ranges'[k] = ranges[j]
  <2>1. k \in 1..n /\ k + 1 \in 1..n
    BY <1>1
  <2> QED BY <1>2, <2>1
<1>4. \A j \in 1..n : ranges[j] \in Range
  BY <1>1
<1>5. ranges' \in Seq(Range) /\ Len(ranges') = n - 1 /\ DOMAIN ranges' = 1..(n - 1)
  <2>1. n - 1 \in Nat
    BY <1>1
  <2>2. \A k \in 1..(n - 1) : ranges'[k] \in Range
    BY <1>3, <1>4
  <2> QED BY <1>2, <2>1, <2>2
<1>6. OnePaper'
  BY <1>1, <1>3, <1>5 DEF Inv, OnePaper
<1>7. AllPagesAlone'
  <2>1. ASSUME NEW k \in 1..(n - 1), AllPages(ranges'[k]) PROVE FALSE
    <3>1. PICK j \in 1..n : ranges'[k] = ranges[j]
      BY <1>3
    <3>2. n = 1
      BY <1>1, <2>1, <3>1 DEF Inv, AllPagesAlone
    <3> QED BY <3>2
  <2> QED BY <1>5, <2>1 DEF AllPagesAlone
<1> QED BY <1>5, <1>6, <1>7 DEF Inv, TypeOK

LEMMA NextKeeps == ASSUME Inv, [Next]_vars PROVE Inv'
<1>1. CASE Add
  BY <1>1, AddKeeps
<1>2. ASSUME NEW i \in 1..MaxRanges, Delete(i) PROVE Inv'
  BY <1>2, DeleteKeeps
<1>3. ASSUME NEW i \in DOMAIN ranges
      PROVE  /\ ranges[i] \in Range
             /\ 1 \in DOMAIN ranges
             /\ Len(ranges) \in Nat
             /\ Paper(ranges[i].variant) = Paper(ranges[1].variant)
             /\ AllPages(ranges[i]) => Len(ranges) = 1
  BY DEF Inv, TypeOK, OnePaper, AllPagesAlone
<1>4. ASSUME NEW i \in 1..MaxRanges, NEW all \in BOOLEAN, ChooseType(i, all) PROVE Inv'
  <2> DEFINE r == [ranges[i] EXCEPT !.text = IF all THEN None ELSE <<>>, !.valid = all]
  <2>1. i \in DOMAIN ranges /\ SetField(i, r) /\ (all => MayTakeAll(i))
    BY <1>4 DEF ChooseType
  <2>2. r \in Range /\ r.variant = ranges[i].variant /\ r.text = IF all THEN None ELSE <<>>
    BY <1>3, <2>1, TextTypes DEF Range
  <2>3. AllPages(r) => Len(ranges) = 1
    BY <1>3, <2>1, <2>2, TextTypes DEF AllPages, MayTakeAll
  <2> QED BY <1>3, <2>1, <2>2, <2>3, SetFieldKeeps
<1>5. ASSUME NEW i \in DOMAIN ranges, NEW text \in Seq(Tokens), SetText(i, text) PROVE Inv'
  <2> DEFINE r == [ranges[i] EXCEPT !.text = text, !.valid = isValidRange(text)]
  <2>1. SetField(i, r)
    BY <1>5 DEF SetText
  <2>2. r \in Range /\ r.variant = ranges[i].variant /\ r.text = text
    <3> HIDE DEF isValidRange
    <3> QED BY <1>3, ValidIsBoolean DEF Range
  <2>3. ~AllPages(r)
    BY <2>2, RangesAssumption DEF AllPages, RangesAssumption
  <2> QED BY <1>3, <2>1, <2>2, <2>3, SetFieldKeeps
<1>6. ASSUME NEW i \in 1..MaxRanges, NEW t \in Tokens, Type(i, t) PROVE Inv'
  <2>1. i \in DOMAIN ranges /\ ~AllPages(ranges[i]) /\ SetText(i, Append(ranges[i].text, t))
    BY <1>6 DEF Type
  <2>2. ranges[i].text \in Seq(Tokens)
    BY <1>3, <2>1 DEF Range, AllPages
  <2>3. Append(ranges[i].text, t) \in Seq(Tokens)
    BY <2>2
  <2> QED BY <1>5, <2>1, <2>3
<1>7. ASSUME NEW i \in 1..MaxRanges, Erase(i) PROVE Inv'
  <2> DEFINE old == ranges[i].text
  <2>1. /\ i \in DOMAIN ranges /\ ~AllPages(ranges[i]) /\ old # <<>>
        /\ SetText(i, SubSeq(old, 1, Len(old) - 1))
    BY <1>7 DEF Erase
  <2>2. old \in Seq(Tokens)
    BY <1>3, <2>1 DEF Range, AllPages
  <2>3. SubSeq(old, 1, Len(old) - 1) \in Seq(Tokens)
    BY <2>1, <2>2
  <2> QED BY <1>5, <2>1, <2>3
<1>8. ASSUME NEW i \in 1..MaxRanges, NEW v \in Variants, ChooseVariant(i, v) PROVE Inv'
  <2> DEFINE r == [ranges[i] EXCEPT !.variant = v]
  <2>1. i \in DOMAIN ranges /\ v \in Allowed(i) /\ SetField(i, r)
    BY <1>8 DEF ChooseVariant
  <2>2. r \in Range /\ r.variant = v /\ r.text = ranges[i].text
    BY <1>3, <2>1 DEF Range
  <2>3. Len(ranges) = 1 \/ Paper(v) = Paper(ranges[1].variant)
    BY <1>3, <2>1 DEF Allowed
  <2>4. AllPages(r) => Len(ranges) = 1
    BY <1>3, <2>1, <2>2 DEF AllPages
  <2> QED BY <2>1, <2>2, <2>3, <2>4, SetFieldKeeps
<1>9. ASSUME NEW i \in DOMAIN ranges, NEW c \in 1..MaxCopies,
             SetField(i, [ranges[i] EXCEPT !.copies = c])
      PROVE  Inv'
  <2> DEFINE r == [ranges[i] EXCEPT !.copies = c]
  <2>1. r \in Range /\ r.variant = ranges[i].variant /\ r.text = ranges[i].text
    BY <1>3 DEF Range
  <2>2. AllPages(r) => Len(ranges) = 1
    BY <1>3, <2>1 DEF AllPages
  <2> QED BY <1>3, <1>9, <2>1, <2>2, SetFieldKeeps
<1>10. ASSUME NEW i \in 1..MaxRanges, More(i) \/ Fewer(i) PROVE Inv'
  <2>1. i \in DOMAIN ranges
    BY <1>10 DEF More, Fewer
  <2>2. ranges[i].copies \in 1..MaxCopies /\ MaxCopies \in Nat
    BY <1>3, <2>1, RangesAssumption DEF Range, RangesAssumption
  <2>3. CASE More(i)
    <3>1. ranges[i].copies + 1 \in 1..MaxCopies
      BY <2>2, <2>3 DEF More
    <3> QED BY <1>9, <2>1, <2>3, <3>1 DEF More
  <2>4. CASE Fewer(i)
    <3>1. ranges[i].copies - 1 \in 1..MaxCopies
      BY <2>2, <2>4 DEF Fewer
    <3> QED BY <1>9, <2>1, <2>4, <3>1 DEF Fewer
  <2> QED BY <1>10, <2>3, <2>4
<1>11. ASSUME NEW i \in 1..MaxRanges, NEW n \in 0..(MaxCopies + 1), TypeCopies(i, n)
       PROVE  Inv'
  <2>1. Clamp(n) \in 1..MaxCopies
    BY RangesAssumption DEF RangesAssumption, Clamp
  <2> QED BY <1>9, <1>11, <2>1 DEF TypeCopies
<1>12. CASE UNCHANGED vars
  BY <1>12 DEF vars, Inv, TypeOK, OnePaper, AllPagesAlone
<1> QED BY <1>1, <1>2, <1>4, <1>6, <1>7, <1>8, <1>10, <1>11, <1>12 DEF Next

\* What the editors of a range keep, taken together, holds always
\* (ConfigOrder.tsx, FileRangeConfig.tsx, NumberInput.tsx).
THEOREM Invariance == Spec => []Inv
<1>1. Init => Inv
  BY DEF Init, Inv, TypeOK, OnePaper, AllPagesAlone
<1> QED BY <1>1, NextKeeps, PTL DEF Spec

\* Every range a file ever has is well formed: copies within the limits of the
\* input, a variant that exists (NumberInput, addRange, setRangeField).
THEOREM RangesTyped == Spec => []TypeOK
BY Invariance, PTL DEF Inv

\* All ranges of a file are on one paper (allowedPaperVariants, addRange and
\* deleteRange together).
THEOREM RangesOnOnePaper == Spec => []OnePaper
BY Invariance, PTL DEF Inv

\* "All pages" is never one range among others (the type selector, addRange).
THEOREM AllPagesByItself == Spec => []AllPagesAlone
BY Invariance, PTL DEF Inv
-----------------------------------------------------------------------------
(* Induction, in the only form that the provers can use: over a set, by its *)
(* least element.                                                          *)

\* A set of natural numbers that is not empty has a least one.
LEMMA LeastNatural ==
    ASSUME NEW T, T \subseteq Nat, T # {}
    PROVE  \E x \in T : \A y \in T : x <= y
<1> DEFINE R == OpToRel(<, Nat)
<1>1. IsWellFoundedOn(R, Nat)
  BY NatLessThanWellFounded
<1>2. \A x, y \in Nat : <<x, y>> \in R <=> x < y
  BY DEF OpToRel
<1> HIDE DEF R
<1>3. PICK x \in T : \A y \in T : ~(<<y, x>> \in R)
  BY <1>1, WFMin
<1>4. ASSUME NEW y \in T PROVE x <= y
  <2>1. x \in Nat /\ y \in Nat /\ ~(<<y, x>> \in R)
    BY <1>3
  <2>2. ~(y < x)
    BY <1>2, <2>1
  <2> QED BY <2>1, <2>2
<1> QED BY <1>4

\* What is true of a position when it is true of all that follow is true of all.
LEMMA FromTheEnd ==
    ASSUME NEW n \in Nat, NEW S,
           \A i \in 1..n : (\A j \in (i + 1)..n : j \in S) => i \in S
    PROVE  1..n \subseteq S
<1> DEFINE Left == {k \in Nat : k < n /\ n - k \notin S}
<1>1. SUFFICES ASSUME NEW i \in 1..n, i \notin S PROVE FALSE
  OBVIOUS
<1>2. n - i \in Left
  <2>1. n - (n - i) = i /\ n - i \in Nat /\ n - i < n
    OBVIOUS
  <2> QED BY <1>1, <2>1
<1>3. PICK k \in Left : \A l \in Left : k <= l
  <2>1. Left \subseteq Nat /\ Left # {}
    BY <1>2
  <2> HIDE DEF Left
  <2> QED BY <2>1, LeastNatural
<1>4. ASSUME NEW j \in (n - k + 1)..n PROVE j \in S
  <2>1. n - j \in Nat /\ n - j < n /\ n - (n - j) = j /\ n - j < k
    BY <1>3
  <2>2. n - j \notin Left
    BY <1>3, <2>1
  <2> QED BY <2>1, <2>2
<1>5. n - k \in 1..n
  BY <1>3
<1>6. n - k \in S
  BY <1>4, <1>5
<1> QED BY <1>3, <1>6

-----------------------------------------------------------------------------
(* The matches of the regular expression.                                  *)

\* What the recursion of Scan makes of position i.
ScanStep(f, text, i) ==
    IF i > Len(text) THEN {}
    ELSE IF IsSpan(text, i) THEN {i} \cup f[i + 3]
    ELSE (IF IsPage(text[i]) THEN {i} ELSE {}) \cup f[i + 1]

\* There is a function that satisfies the recursion: from the end of the text, each
\* position adds itself to one for the positions behind it.
LEMMA ScanExists ==
    ASSUME NEW text, Len(text) \in Nat
    PROVE  \E f : f = [i \in 1..(Len(text) + 3) |-> ScanStep(f, text, i)]
<1> DEFINE n == Len(text) + 3
           S == {i \in 1..n : \E f : f = [k \in i..n |-> ScanStep(f, text, k)]}
<1>1. n \in Nat /\ 1 \in 1..n
  OBVIOUS
<1>2. ASSUME NEW i \in 1..n, \A j \in (i + 1)..n : j \in S PROVE i \in S
  <2>1. CASE i = n
    <3> DEFINE g == [k \in i..n |-> {}]
    <3>1. \A k \in i..n : k > Len(text)
      BY <2>1
    <3>2. g = [k \in i..n |-> ScanStep(g, text, k)]
      BY <3>1 DEF ScanStep
    <3> QED BY <3>2
  <2>2. CASE i < n
    <3>1. PICK f : f = [k \in (i + 1)..n |-> ScanStep(f, text, k)]
      BY <1>2, <2>2
    <3> DEFINE g == [k \in i..n |-> IF k = i THEN ScanStep(f, text, i) ELSE f[k]]
    <3>2. \A k \in (i + 1)..n : g[k] = f[k] /\ f[k] = ScanStep(f, text, k)
      BY <3>1
    <3>3. ASSUME NEW k \in i..n PROVE ScanStep(g, text, k) = ScanStep(f, text, k)
      <4>1. CASE k > Len(text)
        BY <4>1 DEF ScanStep
      <4>2. CASE k <= Len(text)
        <5>1. k + 1 \in (i + 1)..n /\ k + 3 \in (i + 1)..n
          BY <4>2
        <5>2. g[k + 1] = f[k + 1] /\ g[k + 3] = f[k + 3]
          BY <3>2, <5>1
        <5> HIDE DEF g
        <5> QED BY <5>2 DEF ScanStep
      <4> QED BY <4>1, <4>2
    <3>4. ASSUME NEW k \in i..n PROVE g[k] = ScanStep(g, text, k)
      <4>1. CASE k = i
        BY <3>3, <4>1
      <4>2. CASE k # i
        <5>1. k \in (i + 1)..n
          BY <4>2
        <5> QED BY <3>2, <3>3, <5>1
      <4> QED BY <4>1, <4>2
    <3>5. g = [k \in i..n |-> ScanStep(g, text, k)]
      BY <3>4
    <3> QED BY <3>5
  <2> QED BY <2>1, <2>2
<1>3. 1 \in S
  <2> HIDE DEF S
  <2> QED BY <1>1, <1>2, FromTheEnd
<1> QED BY <1>3

\* So Scan satisfies it.
LEMMA ScanDef ==
    ASSUME NEW text \in Seq(Tokens), NEW i \in 1..(Len(text) + 3)
    PROVE  Scan(text)[i] = ScanStep(Scan(text), text, i)
<1> DEFINE IsScan(f) == f = [k \in 1..(Len(text) + 3) |-> ScanStep(f, text, k)]
<1>1. Scan(text) = CHOOSE f : IsScan(f)
  BY DEF Scan, ScanStep
<1>2. \E f : IsScan(f)
  BY ScanExists
<1>3. IsScan(Scan(text))
  <2> HIDE DEF IsScan
  <2> QED BY <1>1, <1>2
<1> QED BY <1>3

\* Tokens are of one kind.
LEMMA PageOrMark ==
    /\ \A t \in Tokens : IsPage(t) \/ t = Hyphen \/ t = Comma
    /\ ~IsPage(Hyphen) /\ ~IsPage(Comma) /\ Hyphen # Comma
    /\ \A t : IsPage(t) => t \in Nat
<1>1. Pages \subseteq Nat
  BY RangesAssumption DEF RangesAssumption
<1>2. Hyphen \notin Nat /\ Comma \notin Nat /\ Hyphen # Comma
  BY DEF Hyphen, Comma
<1> QED BY <1>1, <1>2 DEF Tokens, IsPage

\* A scan from i finds pages at or behind i, never a page in the middle or at the end
\* of a span it found, and every page that no hyphen precedes.
LEMMA ScanFinds ==
    ASSUME NEW text \in Seq(Tokens)
    PROVE  \A i \in 1..(Len(text) + 3) :
              /\ \A s \in Scan(text)[i] : s \in i..Len(text) /\ IsPage(text[s])
              /\ \A s \in Scan(text)[i] : IsSpan(text, s) => s + 2 \notin Scan(text)[i]
              /\ \A s \in i..Len(text) :
                    IsPage(text[s]) /\ (s > i => text[s - 1] # Hyphen) => s \in Scan(text)[i]
<1> DEFINE n == Len(text) + 3
           scan == Scan(text)
           Good(i) == /\ \A s \in scan[i] : s \in i..Len(text) /\ IsPage(text[s])
                      /\ \A s \in scan[i] : IsSpan(text, s) => s + 2 \notin scan[i]
                      /\ \A s \in i..Len(text) :
                            IsPage(text[s]) /\ (s > i => text[s - 1] # Hyphen) => s \in scan[i]
           S == {i \in 1..n : Good(i)}
<1>1. n \in Nat /\ Len(text) \in Nat
  OBVIOUS
<1>2. \A i \in 1..n : scan[i] = ScanStep(scan, text, i)
  BY ScanDef
<1> HIDE DEF scan
<1>3. ASSUME NEW i \in 1..n, \A j \in (i + 1)..n : j \in S PROVE Good(i)
  <2>1. CASE i > Len(text)
    <3>1. scan[i] = {}
      BY <1>2, <2>1 DEF ScanStep
    <3>2. i..Len(text) = {}
      BY <2>1
    <3> QED BY <3>1, <3>2
  <2>4. i <= Len(text) => ~(i > Len(text))
    BY <1>1
  <2>2. CASE i <= Len(text) /\ IsSpan(text, i)
    <3>1. scan[i] = {i} \cup scan[i + 3]
      BY <1>2, <2>2, <2>4 DEF ScanStep
    <3>2. /\ i + 3 \in (i + 1)..n /\ i + 3 \in 1..n
          /\ IsPage(text[i]) /\ text[i + 1] = Hyphen /\ IsPage(text[i + 2])
      BY <2>2 DEF IsSpan
    <3>3. Good(i + 3)
      BY <1>3, <3>2
    <3>4. \A s \in scan[i] : s \in i..Len(text) /\ IsPage(text[s])
      BY <2>2, <3>1, <3>2, <3>3
    <3>5. \A s \in scan[i] : IsSpan(text, s) => s + 2 \notin scan[i]
      BY <3>1, <3>3
    <3>6. ASSUME NEW s \in i..Len(text), IsPage(text[s]), s > i => text[s - 1] # Hyphen
          PROVE  s \in scan[i]
      <4>1. s # i + 1 /\ s # i + 2
        BY <3>2, <3>6, PageOrMark
      <4>2. CASE s = i
        BY <3>1, <4>2
      <4>3. CASE s >= i + 3
        <5>1. s \in (i + 3)..Len(text)
          BY <4>3
        <5> QED BY <3>1, <3>3, <3>6, <4>3, <5>1
      <4> QED BY <4>1, <4>2, <4>3
    <3> QED BY <3>4, <3>5, <3>6
  <2>3. CASE i <= Len(text) /\ ~IsSpan(text, i)
    <3>1. scan[i] = (IF IsPage(text[i]) THEN {i} ELSE {}) \cup scan[i + 1]
      BY <1>2, <2>3, <2>4 DEF ScanStep
    <3>2. i + 1 \in (i + 1)..n /\ i + 1 \in 1..n
      BY <2>3
    <3>3. Good(i + 1)
      BY <1>3, <3>2
    <3>4. \A s \in scan[i] : s \in i..Len(text) /\ IsPage(text[s])
      BY <2>3, <3>1, <3>2, <3>3
    <3>5. \A s \in scan[i] : IsSpan(text, s) => s + 2 \notin scan[i]
      BY <2>3, <3>1, <3>3
    <3>6. ASSUME NEW s \in i..Len(text), IsPage(text[s]), s > i => text[s - 1] # Hyphen
          PROVE  s \in scan[i]
      <4>1. CASE s = i
        BY <3>1, <3>6, <4>1
      <4>2. CASE s >= i + 1
        <5>1. s \in (i + 1)..Len(text)
          BY <4>2
        <5> QED BY <3>1, <3>3, <3>6, <4>2, <5>1
      <4> QED BY <4>1, <4>2
    <3> QED BY <3>4, <3>5, <3>6
  <2> QED BY <2>1, <2>2, <2>3
<1>4. \A i \in 1..n : (\A j \in (i + 1)..n : j \in S) => i \in S
  BY <1>3
<1>5. 1..n \subseteq S
  <2> HIDE DEF S
  <2> QED BY <1>1, <1>4, FromTheEnd
<1> QED BY <1>5 DEF scan

\* The same of the scan of the whole text (RANGE_REGEX with matchAll).
LEMMA StartsProperties ==
    ASSUME NEW text \in Seq(Tokens)
    PROVE  /\ \A s \in Starts(text) : s \in 1..Len(text) /\ IsPage(text[s])
           /\ \A s \in Starts(text) : IsSpan(text, s) => s + 2 \notin Starts(text)
           /\ \A s \in 1..Len(text) :
                 IsPage(text[s]) /\ (s > 1 => text[s - 1] # Hyphen) => s \in Starts(text)
<1>1. 1 \in 1..(Len(text) + 3)
  OBVIOUS
<1> QED BY <1>1, ScanFinds DEF Starts

-----------------------------------------------------------------------------
(* The validator and the reference.                                        *)

\* Whatever is not a comma stands in a piece between two commas.
LEMMA PieceAround ==
    ASSUME NEW text \in Seq(Tokens), NEW i \in 1..Len(text), text[i] # Comma
    PROVE  \E p \in Pieces(text) : p[1] <= i /\ i <= p[2]
<1> DEFINE n == Len(text)
           Before == {k \in Nat : 1 <= k /\ k <= i /\ \A j \in k..i : text[j] # Comma}
           Behind == {k \in Nat : i <= k /\ k <= n /\ (k < n => text[k + 1] = Comma)}
<1>1. n \in Nat /\ i \in Nat
  OBVIOUS
<1>2. PICK a \in Before : \A k \in Before : a <= k
  <2>1. i \in Before /\ Before \subseteq Nat
    OBVIOUS
  <2> HIDE DEF Before
  <2> QED BY <2>1, LeastNatural
<1>3. PICK b \in Behind : \A k \in Behind : b <= k
  <2>1. n \in Behind /\ Behind \subseteq Nat
    OBVIOUS
  <2> HIDE DEF Behind
  <2> QED BY <2>1, LeastNatural
<1>4. a \in 1..i /\ b \in i..n /\ \A j \in a..i : text[j] # Comma
  BY <1>2, <1>3
<1>5. ASSUME NEW j \in (i + 1)..b PROVE text[j] # Comma
  <2>1. j - 1 \in Nat /\ i <= j - 1 /\ j - 1 < b /\ j - 1 <= n /\ (j - 1) + 1 = j
    BY <1>4
  <2>2. ~(b <= j - 1)
    BY <1>4, <2>1
  <2>3. j - 1 \notin Behind
    <3> HIDE DEF Behind
    <3> QED BY <1>3, <2>2
  <2> QED BY <2>1, <2>3
<1>6. \A j \in a..b : text[j] # Comma
  <2>1. \A j \in a..b : j \in a..i \/ j \in (i + 1)..b
    BY <1>4
  <2> QED BY <1>4, <1>5, <2>1
<1>7. a = 1 \/ text[a - 1] = Comma
  <2>1. SUFFICES ASSUME a # 1, text[a - 1] # Comma PROVE FALSE
    OBVIOUS
  <2>4. ~(a <= a - 1)
    BY <1>4
  <2>2. \A j \in (a - 1)..i : j = a - 1 \/ j \in a..i
    BY <1>4
  <2>3. a - 1 \in Before
    BY <1>4, <2>1, <2>2
  <2> HIDE DEF Before
  <2> QED BY <1>2, <2>3, <2>4
<1>8. b = n \/ text[b + 1] = Comma
  BY <1>3, <1>4
<1>9. <<a, b>> \in Pieces(text)
  BY <1>4, <1>6, <1>7, <1>8 DEF Pieces
<1> QED BY <1>4, <1>9

\* No two numbers in a row: they would be one.
Separated(text) == \A i \in 1..(Len(text) - 1) : ~(IsPage(text[i]) /\ IsPage(text[i + 1]))

\* A piece has no comma, and ends at a comma or at the end of the text.
LEMMA Around ==
    ASSUME NEW text \in Seq(Tokens), NEW p \in Pieces(text)
    PROVE  /\ p[1] \in 1..Len(text) /\ p[2] \in p[1]..Len(text)
           /\ \A i \in p[1]..p[2] : i \in 1..Len(text) /\ text[i] # Comma
           /\ p[1] > 1 => text[p[1] - 1] = Comma
           /\ p[2] < Len(text) => text[p[2] + 1] = Comma
BY DEF Pieces

\* Without stray hyphens each piece is a match, which starts where the piece does and
\* is as long.  The second hyphen of 1-2-3 would have to be in a match that starts at
\* the end of another.
LEMMA ItemsArePieces ==
    ASSUME NEW text \in Seq(Tokens), Separated(text), ~StrayHyphen(text),
           NEW p \in Pieces(text)
    PROVE  /\ p[1] \in Starts(text)
           /\ \/ p[2] = p[1] /\ ~IsSpan(text, p[1])
              \/ p[2] = p[1] + 2 /\ IsSpan(text, p[1])
<1> DEFINE a == p[1]
           b == p[2]
           n == Len(text)
<1>1. /\ n \in Nat /\ a \in 1..n /\ b \in a..n
      /\ \A i \in a..b : i \in 1..n /\ text[i] # Comma
      /\ a > 1 => text[a - 1] = Comma
      /\ b < n => text[b + 1] = Comma
  BY Around
<1>2. \A i \in 1..n : text[i] \in Tokens
  OBVIOUS
<1>3. \A i \in 1..n : text[i] = Hyphen => i - 1 \in Starts(text) /\ IsSpan(text, i - 1)
  BY DEF StrayHyphen
<1> HIDE DEF a, b, n
<1>4. ASSUME NEW i \in a..b, text[i] = Hyphen
      PROVE  i - 1 \in Starts(text) /\ i - 1 \in 1..n /\ IsPage(text[i - 1]) /\ IsSpan(text, i - 1)
  BY <1>1, <1>3, <1>4, StartsProperties DEF n
<1>5. IsPage(text[a])
  <2>1. a \in a..b
    BY <1>1
  <2>2. text[a] # Hyphen
    <3>1. SUFFICES ASSUME text[a] = Hyphen PROVE FALSE
      OBVIOUS
    <3>2. a - 1 \in 1..n /\ IsPage(text[a - 1])
      BY <1>4, <2>1, <3>1
    <3>3. a > 1
      BY <1>1, <3>2
    <3> QED BY <1>1, <3>2, <3>3, PageOrMark
  <2> QED BY <1>1, <1>2, <2>1, <2>2, PageOrMark
<1>6. a \in Starts(text)
  <2>1. a > 1 => text[a - 1] # Hyphen
    BY <1>1, PageOrMark
  <2> QED BY <1>1, <1>5, <2>1, StartsProperties DEF n
<1>7. \A i \in a..b : i + 1 \in a..b /\ IsPage(text[i]) => text[i + 1] = Hyphen
  <2>1. ASSUME NEW i \in a..b, i + 1 \in a..b, IsPage(text[i]) PROVE text[i + 1] = Hyphen
    <3>1. i \in 1..(n - 1) /\ i + 1 \in 1..n /\ text[i + 1] # Comma
      BY <1>1, <2>1
    <3>2. ~IsPage(text[i + 1])
      BY <2>1, <3>1 DEF Separated, n
    <3> QED BY <1>2, <3>1, <3>2, PageOrMark
  <2> QED BY <2>1
<1>8. CASE b = a
  <2>1. ~IsSpan(text, a)
    <3>1. SUFFICES ASSUME IsSpan(text, a) PROVE FALSE
      OBVIOUS
    <3>2. a < n /\ text[a + 1] = Hyphen
      BY <1>1, <3>1 DEF IsSpan, n
    <3> QED BY <1>1, <1>8, <3>2, PageOrMark
  <2> QED BY <1>6, <1>8, <2>1 DEF a, b
<1>9. CASE b # a
  <2>1. a \in a..b /\ a + 1 \in a..b /\ (a + 1) - 1 = a
    BY <1>1, <1>9
  <2>2. text[a + 1] = Hyphen
    BY <1>5, <1>7, <2>1
  <2>3. IsSpan(text, a)
    BY <1>4, <2>1, <2>2
  <2>4. a + 2 <= n /\ IsPage(text[a + 2])
    BY <2>3 DEF IsSpan, n
  <2>5. b # a + 1
    <3>1. SUFFICES ASSUME b = a + 1 PROVE FALSE
      OBVIOUS
    <3>2. b < n /\ b + 1 = a + 2
      BY <1>1, <2>4, <3>1
    <3> QED BY <1>1, <2>4, <3>2, PageOrMark
  <2>6. b <= a + 2
    <3>1. SUFFICES ASSUME b > a + 2 PROVE FALSE
      BY <1>1
    <3>2. a + 2 \in a..b /\ (a + 2) + 1 \in a..b /\ ((a + 2) + 1) - 1 = a + 2
      BY <1>1, <3>1
    <3>3. text[(a + 2) + 1] = Hyphen
      BY <1>7, <2>4, <3>2
    <3>4. a + 2 \in Starts(text)
      BY <1>4, <3>2, <3>3
    <3> QED BY <1>6, <2>3, <3>4, StartsProperties
  <2>7. b = a + 2
    BY <1>1, <1>9, <2>5, <2>6
  <2> QED BY <1>6, <2>3, <2>7 DEF a, b
<1> QED BY <1>8, <1>9

\* If all pieces are pages and spans, then no hyphen is stray and each match is a
\* piece.
LEMMA PiecesAreItems ==
    ASSUME NEW text \in Seq(Tokens), \A p \in Pieces(text) : PieceOK(text, p)
    PROVE  /\ ~StrayHyphen(text)
           /\ \A s \in Starts(text) :
                 \E p \in Pieces(text) :
                    /\ p[1] = s
                    /\ p[2] = IF IsSpan(text, s) THEN s + 2 ELSE s
<1> DEFINE n == Len(text)
<1>1. n \in Nat
  OBVIOUS
<1>2. ASSUME NEW i \in 1..n, text[i] # Comma
      PROVE  \E p \in Pieces(text) :
                /\ p[1] \in Starts(text)
                /\ \/ p[1] = i /\ p[2] = i /\ IsPage(text[i])
                   \/ /\ p[2] = p[1] + 2 /\ IsSpan(text, p[1])
                      /\ i \in {p[1], p[1] + 1, p[1] + 2}
  <2>1. PICK p \in Pieces(text) : p[1] <= i /\ i <= p[2]
    BY <1>2, PieceAround
  <2>2. /\ p[1] \in 1..n /\ p[2] \in p[1]..n
        /\ p[1] > 1 => text[p[1] - 1] = Comma
    BY Around
  <2>3. IsPage(text[p[1]])
    BY DEF PieceOK, IsSpan
  <2>4. p[1] \in Starts(text)
    BY <2>2, <2>3, StartsProperties, PageOrMark
  <2>5. CASE p[2] = p[1]
    BY <2>1, <2>2, <2>3, <2>4, <2>5
  <2>6. CASE p[2] = p[1] + 2 /\ IsSpan(text, p[1])
    BY <2>1, <2>2, <2>4, <2>6
  <2> QED BY <2>5, <2>6 DEF PieceOK
<1>3. ~StrayHyphen(text)
  <2>1. ASSUME NEW i \in 1..n, text[i] = Hyphen
        PROVE  i - 1 \in {s \in Starts(text) : IsSpan(text, s)}
    <3>1. PICK p \in Pieces(text) :
            /\ p[1] \in Starts(text)
            /\ \/ p[1] = i /\ p[2] = i /\ IsPage(text[i])
               \/ /\ p[2] = p[1] + 2 /\ IsSpan(text, p[1])
                  /\ i \in {p[1], p[1] + 1, p[1] + 2}
      BY <1>2, <2>1, PageOrMark
    <3>2. ~IsPage(text[i])
      BY <2>1, PageOrMark
    <3>3. IsSpan(text, p[1]) /\ i = p[1] + 1
      BY <3>1, <3>2 DEF IsSpan
    <3>4. i - 1 = p[1]
      BY <3>1, <3>3, StartsProperties
    <3> QED BY <3>1, <3>3, <3>4
  <2> QED BY <2>1 DEF StrayHyphen
<1>4. ASSUME NEW s \in Starts(text)
      PROVE  \E p \in Pieces(text) :
                p[1] = s /\ p[2] = IF IsSpan(text, s) THEN s + 2 ELSE s
  <2>1. s \in 1..n /\ IsPage(text[s])
    BY StartsProperties
  <2>2. PICK p \in Pieces(text) :
            /\ p[1] \in Starts(text)
            /\ \/ p[1] = s /\ p[2] = s /\ IsPage(text[s])
               \/ /\ p[2] = p[1] + 2 /\ IsSpan(text, p[1])
                  /\ s \in {p[1], p[1] + 1, p[1] + 2}
    BY <1>2, <2>1, PageOrMark
  <2>3. CASE p[1] = s /\ p[2] = s
    <3>1. ~IsSpan(text, s)
      <4>1. p[2] < n => text[p[2] + 1] = Comma
        BY Around
      <4> QED BY <1>1, <2>1, <2>3, <4>1, PageOrMark DEF IsSpan
    <3> QED BY <2>3, <3>1
  <2>4. CASE p[2] = p[1] + 2 /\ IsSpan(text, p[1]) /\ s \in {p[1], p[1] + 1, p[1] + 2}
    <3>1. s # p[1] + 1
      BY <2>1, <2>4, PageOrMark DEF IsSpan
    <3>2. s # p[1] + 2
      BY <2>2, <2>4, StartsProperties
    <3> QED BY <2>4, <3>1, <3>2
  <2> QED BY <2>2, <2>3, <2>4
<1> QED BY <1>3, <1>4

\* isValidRange accepts exactly the series of pages and ascending spans in which no
\* page comes twice, for texts of any length.
THEOREM ValidIsSeries ==
    ASSUME NEW text \in Seq(Tokens), Separated(text)
    PROVE  isValidRange(text) = IsSeries(text)
<1>1. ASSUME isValidRange(text) PROVE IsSeries(text)
  <2>1. /\ text # <<>> /\ ~StrayHyphen(text)
        /\ \A s \in Starts(text) : IsSpan(text, s) => text[s] < text[s + 2]
        /\ \A s, t \in Starts(text) :
              s # t => Numbers(text, s) \cap Numbers(text, t) = {}
    BY <1>1 DEF isValidRange
  <2>2. ASSUME NEW p \in Pieces(text)
        PROVE  /\ PieceOK(text, p) /\ p[1] \in Starts(text)
               /\ Numbers(text, p[1]) = text[p[1]]..text[p[2]]
    <3>1. /\ p[1] \in Starts(text)
          /\ \/ p[2] = p[1] /\ ~IsSpan(text, p[1])
             \/ p[2] = p[1] + 2 /\ IsSpan(text, p[1])
      BY <2>1, ItemsArePieces
    <3>2. IsPage(text[p[1]]) /\ text[p[1]] \in Nat
      BY <3>1, StartsProperties, PageOrMark
    <3>3. \A k \in Nat : {k} = k..k
      OBVIOUS
    <3> QED BY <2>1, <3>1, <3>2, <3>3 DEF PieceOK, Numbers
  <2>3. ASSUME NEW p \in Pieces(text), NEW q \in Pieces(text), p # q
        PROVE  p[1] # q[1]
    <3>1. /\ \/ p[2] = p[1] /\ ~IsSpan(text, p[1])
             \/ p[2] = p[1] + 2 /\ IsSpan(text, p[1])
          /\ \/ q[2] = q[1] /\ ~IsSpan(text, q[1])
             \/ q[2] = q[1] + 2 /\ IsSpan(text, q[1])
      BY <2>1, ItemsArePieces
    <3>2. p = <<p[1], p[2]>> /\ q = <<q[1], q[2]>>
      BY DEF Pieces
    <3> QED BY <2>3, <3>1, <3>2
  <2> QED BY <2>1, <2>2, <2>3 DEF IsSeries
<1>2. ASSUME IsSeries(text) PROVE isValidRange(text)
  <2>1. /\ text # <<>> /\ \A p \in Pieces(text) : PieceOK(text, p)
        /\ \A p, q \in Pieces(text) :
              p # q => text[p[1]]..text[p[2]] \cap text[q[1]]..text[q[2]] = {}
    BY <1>2 DEF IsSeries
  <2>2. ~StrayHyphen(text)
    BY <2>1, PiecesAreItems
  <2>3. ASSUME NEW s \in Starts(text)
        PROVE  \E p \in Pieces(text) :
                  /\ p[1] = s /\ Numbers(text, s) = text[p[1]]..text[p[2]]
                  /\ IsSpan(text, s) => text[s] < text[s + 2]
    <3>1. PICK p \in Pieces(text) :
             p[1] = s /\ p[2] = IF IsSpan(text, s) THEN s + 2 ELSE s
      BY <2>1, PiecesAreItems
    <3>2. text[s] \in Nat /\ s \in Nat
      BY StartsProperties, PageOrMark
    <3>3. \A k \in Nat : {k} = k..k
      OBVIOUS
    <3>4. Numbers(text, s) = text[p[1]]..text[p[2]]
      BY <3>1, <3>2, <3>3 DEF Numbers
    <3>5. IsSpan(text, s) => text[s] < text[s + 2]
      BY <2>1, <3>1, <3>2 DEF PieceOK
    <3> QED BY <3>1, <3>4, <3>5
  <2> QED BY <2>1, <2>2, <2>3 DEF isValidRange
<1> QED BY <1>1, <1>2 DEF isValidRange, IsSeries

-----------------------------------------------------------------------------
(* The flag of a range.                                                    *)

Good(r) == /\ AllPages(r) \/ Separated(r.text)
           /\ r.valid = (AllPages(r) \/ IsSeries(r.text))

\* The flag needs to know of the texts what typing makes sure of, and so FlagIsTrue is
\* not inductive alone.
FlagInv == \A i \in DOMAIN ranges : Good(ranges[i])

LEMMA SetFieldKeepsFlag ==
    ASSUME Inv, FlagInv, NEW i \in DOMAIN ranges, NEW r, Good(r), SetField(i, r)
    PROVE  FlagInv'
<1>1. ranges \in Seq(Range)
  BY DEF Inv, TypeOK
<1>2. ranges' = [ranges EXCEPT ![i] = r]
  BY DEF SetField
<1>3. DOMAIN ranges' = DOMAIN ranges
  BY <1>1, <1>2
<1>4. \A j \in DOMAIN ranges : ranges'[j] = IF j = i THEN r ELSE ranges[j]
  BY <1>1, <1>2
<1> QED BY <1>3, <1>4 DEF FlagInv, Good, AllPages

\* A text that the validator has seen.
LEMMA SetTextKeepsFlag ==
    ASSUME Inv, FlagInv, NEW i \in DOMAIN ranges, NEW text \in Seq(Tokens),
           Separated(text), SetText(i, text)
    PROVE  FlagInv'
<1> DEFINE r == [ranges[i] EXCEPT !.text = text, !.valid = isValidRange(text)]
<1>1. ranges[i] \in Range
  BY DEF Inv, TypeOK
<1>2. r.text = text /\ r.valid = isValidRange(text)
  BY <1>1 DEF Range
<1>3. ~AllPages(r)
  BY <1>2, RangesAssumption DEF AllPages, RangesAssumption
<1>4. isValidRange(text) = IsSeries(text)
  BY ValidIsSeries
<1>5. Good(r)
  <2>1. Separated(r.text)
    BY <1>2
  <2>2. IsSeries(text) \in BOOLEAN
    BY DEF IsSeries
  <2>3. r.valid = IsSeries(r.text)
    BY <1>2, <1>4
  <2> QED BY <1>2, <1>3, <2>1, <2>2, <2>3 DEF Good
<1>6. SetField(i, r)
  BY DEF SetText
<1> QED BY <1>5, <1>6, SetFieldKeepsFlag

LEMMA EmptyText == Separated(<<>>) /\ ~IsSeries(<<>>)
<1>1. 1..(Len(<<>>) - 1) = {}
  OBVIOUS
<1> QED BY <1>1 DEF Separated, IsSeries

\* Fields other than the text and its flag.
LEMMA OtherFieldsKeepFlag ==
    ASSUME Inv, FlagInv, NEW i \in DOMAIN ranges, NEW r, SetField(i, r),
           r.text = ranges[i].text, r.valid = ranges[i].valid
    PROVE  FlagInv'
<1>1. Good(r)
  BY DEF FlagInv, Good, AllPages
<1> QED BY <1>1, SetFieldKeepsFlag

LEMMA AddKeepsFlag == ASSUME Inv, FlagInv, Add PROVE FlagInv'
<1> DEFINE n == Len(ranges)
<1>1. PICK v \in Variants :
        ranges' = Append(ranges, [text |-> IF ranges = <<>> THEN None ELSE <<>>,
                                  valid |-> ranges = <<>>, copies |-> 1, variant |-> v])
  BY DEF Add
<1> DEFINE new == [text |-> IF ranges = <<>> THEN None ELSE <<>>,
                   valid |-> ranges = <<>>, copies |-> 1, variant |-> v]
<1>2. ranges \in Seq(Range) /\ n \in Nat /\ DOMAIN ranges = 1..n
  BY DEF Inv, TypeOK
<1>3. Good(new)
  <2>1. CASE ranges = <<>>
    <3>1. new.text = None /\ new.valid = TRUE
      BY <2>1
    <3> QED BY <3>1 DEF Good, AllPages
  <2>2. CASE ranges # <<>>
    <3>1. new.text = <<>> /\ new.valid = FALSE
      BY <2>2
    <3>2. ~AllPages(new)
      BY <3>1, TextTypes DEF AllPages
    <3> QED BY <3>1, <3>2, EmptyText DEF Good
  <2> QED BY <2>1, <2>2
<1>4. /\ DOMAIN ranges' = 1..(n + 1)
      /\ \A k \in 1..(n + 1) : ranges'[k] = IF k = n + 1 THEN new ELSE ranges[k]
  BY <1>1, <1>2
<1> HIDE DEF new
<1>5. \A k \in 1..(n + 1) : k = n + 1 \/ k \in DOMAIN ranges
  BY <1>2
<1> QED BY <1>3, <1>4, <1>5 DEF FlagInv, Good, AllPages

LEMMA DeleteKeepsFlag == ASSUME Inv, FlagInv, NEW i, Delete(i) PROVE FlagInv'
<1> DEFINE n == Len(ranges)
<1>1. ranges \in Seq(Range) /\ n \in Nat /\ DOMAIN ranges = 1..n
  BY DEF Inv, TypeOK
<1>2. ranges' = [k \in 1..(n - 1) |-> IF k < i THEN ranges[k] ELSE ranges[k + 1]]
  BY DEF Delete
<1>3. ASSUME NEW k \in 1..(n - 1) PROVE \E j \in DOMAIN ranges : ranges'[k] = ranges[j]
  <2>1. k \in DOMAIN ranges /\ k + 1 \in DOMAIN ranges
    BY <1>1
  <2> QED BY <1>2, <2>1
<1>4. DOMAIN ranges' = 1..(n - 1)
  BY <1>2
<1> QED BY <1>3, <1>4 DEF FlagInv, Good, AllPages

\* What is typed at the end of a text, or erased there, leaves its numbers apart.
LEMMA TypeKeepsFlag ==
    ASSUME Inv, FlagInv, NEW i, NEW t \in Tokens, Type(i, t)
    PROVE  FlagInv'
<1> DEFINE old  == ranges[i].text
           text == Append(old, t)
           n    == Len(old)
<1>1. /\ i \in DOMAIN ranges /\ ~AllPages(ranges[i])
      /\ ~(IsPage(t) /\ old # <<>> /\ IsPage(old[n])) /\ SetText(i, text)
  BY DEF Type
<1>2. old \in Seq(Tokens) /\ Separated(old)
  <2>1. ranges[i] \in Range
    BY <1>1 DEF Inv, TypeOK
  <2>2. old \in Seq(Tokens)
    BY <1>1, <2>1 DEF Range, AllPages
  <2>3. Separated(old)
    <3>1. Good(ranges[i])
      BY <1>1 DEF FlagInv
    <3> QED BY <1>1, <3>1 DEF Good
  <2> QED BY <2>2, <2>3
<1> HIDE DEF old
<1>3. /\ text \in Seq(Tokens) /\ n \in Nat /\ Len(text) = n + 1
      /\ \A k \in 1..n : text[k] = old[k]
      /\ text[n + 1] = t
  BY <1>2
<1>4. Separated(text)
  <2>1. ASSUME NEW k \in 1..n PROVE ~(IsPage(text[k]) /\ IsPage(text[k + 1]))
    <3>1. CASE k = n
      <4>1. old # <<>>
        BY <1>2, <1>3, <3>1
      <4> QED BY <1>1, <1>3, <3>1, <4>1
    <3>2. CASE k < n
      <4>1. k \in 1..(n - 1) /\ k + 1 \in 1..n
        BY <1>3, <3>2
      <4> QED BY <1>2, <1>3, <4>1 DEF Separated
    <3> QED BY <1>3, <3>1, <3>2
  <2>2. Len(text) - 1 = n
    BY <1>3
  <2> HIDE DEF text
  <2> QED BY <2>1, <2>2 DEF Separated
<1> QED BY <1>1, <1>3, <1>4, SetTextKeepsFlag

LEMMA EraseKeepsFlag ==
    ASSUME Inv, FlagInv, NEW i, Erase(i)
    PROVE  FlagInv'
<1> DEFINE old  == ranges[i].text
           text == SubSeq(old, 1, Len(old) - 1)
           n    == Len(old)
<1>1. /\ i \in DOMAIN ranges /\ ~AllPages(ranges[i]) /\ old # <<>> /\ SetText(i, text)
  BY DEF Erase
<1>2. old \in Seq(Tokens) /\ Separated(old)
  <2>1. ranges[i] \in Range
    BY <1>1 DEF Inv, TypeOK
  <2>2. old \in Seq(Tokens)
    BY <1>1, <2>1 DEF Range, AllPages
  <2>3. Separated(old)
    <3>1. Good(ranges[i])
      BY <1>1 DEF FlagInv
    <3> QED BY <1>1, <3>1 DEF Good
  <2> QED BY <2>2, <2>3
<1> HIDE DEF old
<1>3. /\ text \in Seq(Tokens) /\ n \in Nat /\ Len(text) = n - 1
      /\ \A k \in 1..(n - 1) : text[k] = old[k]
  <2>1. n \in Nat /\ n > 0
    BY <1>1, <1>2
  <2>2. text = [k \in 1..(n - 1) |-> old[k]]
    BY <1>2, <2>1
  <2>3. \A k \in 1..(n - 1) : old[k] \in Tokens
    BY <1>2, <2>1
  <2>4. n - 1 \in Nat
    BY <2>1
  <2> HIDE DEF text, n
  <2>5. text \in Seq(Tokens)
    BY <2>2, <2>3, <2>4
  <2>6. Len(text) = n - 1
    BY <2>2, <2>4
  <2> QED BY <2>1, <2>2, <2>5, <2>6
<1>4. Separated(text)
  <2>1. ASSUME NEW k \in 1..(Len(text) - 1)
        PROVE  ~(IsPage(text[k]) /\ IsPage(text[k + 1]))
    <3>1. k \in 1..(n - 1) /\ k + 1 \in 1..(n - 1)
      BY <1>3
    <3> QED BY <1>2, <1>3, <3>1 DEF Separated
  <2> HIDE DEF text
  <2> QED BY <2>1 DEF Separated
<1> QED BY <1>1, <1>3, <1>4, SetTextKeepsFlag

LEMMA NextKeepsFlag == ASSUME Inv, FlagInv, [Next]_vars PROVE FlagInv'
<1>1. CASE Add
  BY <1>1, AddKeepsFlag
<1>2. ASSUME NEW i \in 1..MaxRanges, Delete(i) \/ Erase(i) PROVE FlagInv'
  BY <1>2, DeleteKeepsFlag, EraseKeepsFlag
<1>3. ASSUME NEW i \in DOMAIN ranges PROVE ranges[i] \in Range
  BY DEF Inv, TypeOK
<1>4. ASSUME NEW i \in 1..MaxRanges, NEW all \in BOOLEAN, ChooseType(i, all)
      PROVE  FlagInv'
  <2> DEFINE r == [ranges[i] EXCEPT !.text = IF all THEN None ELSE <<>>, !.valid = all]
  <2>1. i \in DOMAIN ranges /\ SetField(i, r)
    BY <1>4 DEF ChooseType
  <2>2. r.text = (IF all THEN None ELSE <<>>) /\ r.valid = all
    BY <1>3, <2>1 DEF Range
  <2>3. Good(r)
    <3>1. CASE all
      <4>1. r.text = None /\ r.valid = TRUE
        BY <2>2, <3>1
      <4> HIDE DEF r
      <4> QED BY <4>1 DEF Good, AllPages
    <3>2. CASE ~all
      BY <2>2, <3>2, TextTypes, EmptyText DEF Good, AllPages
    <3> QED BY <3>1, <3>2
  <2> QED BY <2>1, <2>3, SetFieldKeepsFlag
<1>5. ASSUME NEW i \in 1..MaxRanges, NEW t \in Tokens, Type(i, t) PROVE FlagInv'
  BY <1>5, TypeKeepsFlag
<1>6. ASSUME NEW i \in 1..MaxRanges, NEW v \in Variants, ChooseVariant(i, v) PROVE FlagInv'
  <2> DEFINE r == [ranges[i] EXCEPT !.variant = v]
  <2>1. i \in DOMAIN ranges /\ SetField(i, r)
    BY <1>6 DEF ChooseVariant
  <2>2. r.text = ranges[i].text /\ r.valid = ranges[i].valid
    BY <1>3, <2>1 DEF Range
  <2> QED BY <2>1, <2>2, OtherFieldsKeepFlag
<1>7. ASSUME NEW i \in DOMAIN ranges, NEW c, SetField(i, [ranges[i] EXCEPT !.copies = c])
      PROVE  FlagInv'
  <2> DEFINE r == [ranges[i] EXCEPT !.copies = c]
  <2>1. r.text = ranges[i].text /\ r.valid = ranges[i].valid
    BY <1>3 DEF Range
  <2> QED BY <1>7, <2>1, OtherFieldsKeepFlag
<1>8. ASSUME NEW i \in 1..MaxRanges, More(i) \/ Fewer(i) PROVE FlagInv'
  BY <1>7, <1>8 DEF More, Fewer
<1>9. ASSUME NEW i \in 1..MaxRanges, NEW n \in 0..(MaxCopies + 1), TypeCopies(i, n)
      PROVE  FlagInv'
  BY <1>7, <1>9 DEF TypeCopies
<1>10. CASE UNCHANGED vars
  BY <1>10 DEF vars, FlagInv, Good, AllPages
<1> QED BY <1>1, <1>2, <1>4, <1>5, <1>6, <1>8, <1>9, <1>10 DEF Next

\* After any edits of any ranges of any length, the flag that leads to the review is
\* set exactly for "all pages" and for a text that is a series without repetition
\* (isValidRange and setRangeField together).
THEOREM FlagsAreTrue == Spec => []FlagIsTrue
<1>1. Init => FlagInv
  BY DEF Init, FlagInv
<1>2. FlagInv => FlagIsTrue
  BY DEF FlagInv, Good, FlagIsTrue
<1> QED BY <1>1, <1>2, Invariance, NextKeepsFlag, PTL DEF Spec
=============================================================================
