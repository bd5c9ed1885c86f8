----------------------------- MODULE FileRanges -----------------------------
(***************************************************************************)
(* The ranges of one file on the configuration stage                       *)
(* (web/components/orders/new/ConfigOrder.tsx, orders/FileRangeConfig.tsx, *)
(* common/input/NumberInput.tsx) and the validator of their texts          *)
(* (utils/helpers/isValidRange.ts).                                        *)
(*                                                                         *)
(* A text is a sequence of tokens: page numbers, hyphens and commas.       *)
(* White space is left out: next to a hyphen it changes nothing, elsewhere *)
(* it separates as a comma does; any other character is refused as a stray *)
(* hyphen is.  Colour, orientation and sides are set by setRangeField like *)
(* the number of copies and are left out, as is what is folded open.       *)
(***************************************************************************)
EXTENDS Integers, Sequences

CONSTANTS
    None,          \* range === null: all pages
    Papers,
    DefaultPaper,  \* the paper with isDefault
    Kinds,         \* the variants of each paper
    Pages,         \* numbers the user types
    ArrayLimit,    \* the longest array the browser makes
    MaxCopies,     \* 99
    MaxRanges,     \* bound on the ranges of the file
    MaxTokens      \* bound on the tokens of all texts together

Hyphen == -1
Comma  == -2
Tokens == Pages \cup {Hyphen, Comma}

ASSUME RangesAssumption ==
    /\ DefaultPaper \in Papers
    /\ Kinds # {}
    /\ Pages \subseteq Nat
    /\ MaxCopies \in Nat \ {0}
    /\ None \notin Seq(Tokens)

Variants == Papers \X Kinds
Paper(v) == v[1]

VARIABLE ranges  \* draft.ranges of the file

vars == ranges

Init == ranges = <<>>
-----------------------------------------------------------------------------
(* isValidRange.                                                           *)

IsPage(t) == t \in Pages

\* An item starts at position i of a text: a page, or two with a hyphen between.
IsSpan(text, i) == /\ i + 2 <= Len(text)
                   /\ IsPage(text[i]) /\ text[i + 1] = Hyphen /\ IsPage(text[i + 2])

\* Where the matches of the regular expression begin, from position i on, and in the
\* whole text: from the left, each as long as can be.
Scan(text) ==
    LET scan[i \in 1..(Len(text) + 3)] ==
          IF i > Len(text) THEN {}
          ELSE IF IsSpan(text, i) THEN {i} \cup scan[i + 3]
          ELSE (IF IsPage(text[i]) THEN {i} ELSE {}) \cup scan[i + 1]
    IN  scan

Starts(text) == Scan(text)[1]

Numbers(text, i) == IF IsSpan(text, i) THEN text[i]..text[i + 2] ELSE {text[i]}

\* A hyphen that is part of no match stays when matches and commas are removed.
StrayHyphen(text) ==
    \E i \in DOMAIN text : text[i] = Hyphen /\ i - 1 \notin {s \in Starts(text) : IsSpan(text, s)}

\* Variant for a control run: two items may share their last page.
isValidRangeOverlap(text) ==
    /\ text # <<>> /\ ~StrayHyphen(text)
    /\ \A s \in Starts(text) : IsSpan(text, s) => text[s] < text[s + 2]
    /\ \A s, t \in Starts(text) : s # t => text[s] # text[t]

isValidRange(text) ==
    /\ text # <<>> /\ ~StrayHyphen(text)
    /\ \A s \in Starts(text) : IsSpan(text, s) => text[s] < text[s + 2]
    /\ \A s, t \in Starts(text) : s # t => Numbers(text, s) \cap Numbers(text, t) = {}

\* The array of the pages of a span cannot be made: the validator throws.
Throws(text) ==
    /\ text # <<>> /\ ~StrayHyphen(text)
    /\ \E s \in Starts(text) : IsSpan(text, s) /\ text[s + 2] - text[s] + 1 > ArrayLimit
-----------------------------------------------------------------------------
AllPages(r) == r.text = None
SetField(i, r) == ranges' = [ranges EXCEPT ![i] = r]

\* Variant for a control run: always on the default paper.
AddDefault ==
    /\ \A i \in DOMAIN ranges : ~AllPages(ranges[i])
    /\ Len(ranges) < MaxRanges
    /\ \E v \in Variants :
          /\ Paper(v) = DefaultPaper
          /\ ranges' = Append(ranges, [text |-> IF ranges = <<>> THEN None ELSE <<>>,
                                       valid |-> ranges = <<>>,
                                       copies |-> 1, variant |-> v])

\* ConfigOrder: addRange, on the paper of the first range; the button is disabled
\* while a range has no text.
Add ==
    /\ \A i \in DOMAIN ranges : ~AllPages(ranges[i])
    /\ Len(ranges) < MaxRanges
    /\ \E v \in Variants :
          /\ IF ranges = <<>> THEN Paper(v) = DefaultPaper ELSE v = ranges[1].variant
          /\ ranges' = Append(ranges, [text |-> IF ranges = <<>> THEN None ELSE <<>>,
                                       valid |-> ranges = <<>>,
                                       copies |-> 1, variant |-> v])

\* deleteRange, by the key of the range.
Delete(i) ==
    /\ i \in DOMAIN ranges
    /\ ranges' = [n \in 1..(Len(ranges) - 1) |-> IF n < i THEN ranges[n] ELSE ranges[n + 1]]

\* Variant for a control run: "all pages" is offered for any empty text.
MayTakeAllEmpty(i) == AllPages(ranges[i]) \/ ranges[i].text = <<>>

\* The type selector: what it offers, and its choice, which empties the text.
MayTakeAll(i) == AllPages(ranges[i]) \/ (Len(ranges) = 1 /\ ranges[i].text = <<>>)

ChooseType(i, all) ==
    /\ i \in DOMAIN ranges
    /\ all => MayTakeAll(i)
    /\ SetField(i, [ranges[i] EXCEPT !.text = IF all THEN None ELSE <<>>, !.valid = all])

\* The text changes; one the validator throws at is not taken.
SetText(i, text) ==
    /\ ~Throws(text)
    /\ SetField(i, [ranges[i] EXCEPT !.text = text, !.valid = isValidRange(text)])

TokensTyped ==
    LET sum[n \in 0..Len(ranges)] ==
          IF n = 0 THEN 0
          ELSE sum[n - 1] + (IF AllPages(ranges[n]) THEN 0 ELSE Len(ranges[n].text))
    IN  sum[Len(ranges)]

\* The user types at the end of the text; two numbers in a row would be one.
Type(i, t) ==
    /\ i \in DOMAIN ranges /\ ~AllPages(ranges[i])
    /\ TokensTyped < MaxTokens
    /\ LET text == ranges[i].text IN
       /\ ~(IsPage(t) /\ text # <<>> /\ IsPage(text[Len(text)]))
       /\ SetText(i, Append(text, t))

Erase(i) ==
    /\ i \in DOMAIN ranges /\ ~AllPages(ranges[i]) /\ ranges[i].text # <<>>
    /\ SetText(i, SubSeq(ranges[i].text, 1, Len(ranges[i].text) - 1))

\* allowedPaperVariants: any while there is one range, else those of the paper of
\* the first.
Allowed(i) ==
    IF AllPages(ranges[i]) \/ Len(ranges) = 1 THEN Variants
    ELSE {v \in Variants : Paper(v) = Paper(ranges[1].variant)}

ChooseVariant(i, v) ==
    /\ i \in DOMAIN ranges
    /\ v \in Allowed(i)
    /\ SetField(i, [ranges[i] EXCEPT !.variant = v])

\* NumberInput: the buttons are disabled at the ends, a number that is typed is
\* clamped.
Clamp(n) == IF n < 1 THEN 1 ELSE IF n > MaxCopies THEN MaxCopies ELSE n

\* Variant for a control run: the button looks at the other end.
MoreUnchecked(i) ==
    /\ i \in DOMAIN ranges
    /\ ranges[i].copies >= 1
    /\ SetField(i, [ranges[i] EXCEPT !.copies = @ + 1])

More(i) ==
    /\ i \in DOMAIN ranges
    /\ ranges[i].copies < MaxCopies
    /\ SetField(i, [ranges[i] EXCEPT !.copies = @ + 1])

Fewer(i) ==
    /\ i \in DOMAIN ranges
    /\ ranges[i].copies > 1
    /\ SetField(i, [ranges[i] EXCEPT !.copies = @ - 1])

TypeCopies(i, n) ==
    /\ i \in DOMAIN ranges
    /\ SetField(i, [ranges[i] EXCEPT !.copies = Clamp(n)])

Next ==
    \/ Add
    \/ \E i \in 1..MaxRanges :
          \/ Delete(i) \/ Erase(i) \/ More(i) \/ Fewer(i)
          \/ \E all \in BOOLEAN : ChooseType(i, all)
          \/ \E t \in Tokens : Type(i, t)
          \/ \E v \in Variants : ChooseVariant(i, v)
          \/ \E n \in 0..(MaxCopies + 1) : TypeCopies(i, n)

Spec == Init /\ [][Next]_vars
-----------------------------------------------------------------------------
(* Properties.                                                             *)

\* A range, and how many copies of it: never none, never too many.
Range ==
    [text : Seq(Tokens) \cup {None}, valid : BOOLEAN, copies : 1..MaxCopies,
     variant : Variants]

TypeOK == ranges \in Seq(Range)

\* All ranges of a file are printed on one paper, and every range finds its own
\* variant among the options it offers (FileRangeConfig takes it without asking),
\* whichever range was first, whatever was deleted since.
OnePaper ==
    \A i, j \in DOMAIN ranges : Paper(ranges[i].variant) = Paper(ranges[j].variant)

\* "All pages" is the only range of its file: no page is printed by it and by
\* another.
AllPagesAlone == \A i \in DOMAIN ranges : AllPages(ranges[i]) => Len(ranges) = 1

\* The reference: between its commas a text has nothing, a page, or an ascending
\* span, and no page comes twice.
Pieces(text) ==
    {p \in (1..Len(text)) \X (1..Len(text)) :
        /\ p[1] <= p[2]
        /\ \A i \in p[1]..p[2] : text[i] # Comma
        /\ p[1] = 1 \/ text[p[1] - 1] = Comma
        /\ p[2] = Len(text) \/ text[p[2] + 1] = Comma}

PieceOK(text, p) ==
    \/ p[2] = p[1] /\ IsPage(text[p[1]])
    \/ /\ p[2] = p[1] + 2 /\ IsSpan(text, p[1])
       /\ text[p[1]] < text[p[2]]

IsSeries(text) ==
    /\ text # <<>>
    /\ \A p \in Pieces(text) : PieceOK(text, p)
    /\ \A p, q \in Pieces(text) :
          p # q => text[p[1]]..text[p[2]] \cap text[q[1]]..text[q[2]] = {}

\* The flag that opens the way to the review says of every range what its text
\* is now, after any sequence of edits.
FlagIsTrue ==
    \A i \in DOMAIN ranges :
       ranges[i].valid = (AllPages(ranges[i]) \/ IsSeries(ranges[i].text))
=============================================================================
