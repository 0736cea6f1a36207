--------------------------- MODULE AssemblerLemmas ---------------------------
(***************************************************************************)
(* Where the lines of a source stand, for a source of any length.  The     *)
(* recursive functions of AssemblerProps are unfolded, and what they       *)
(* compute is proved by induction over the lines; the induction is over a  *)
(* set of numbers, from the well-foundedness of <.  OpenUnfold and         *)
(* FilledUnfold show first that the functions their definitions ask for    *)
(* exist.                                                                  *)
(***************************************************************************)
EXTENDS AssemblerProps, RiscvLemmas, WellFoundedInduction, TLAPS

\* Induction over the natural numbers, with a set for the property.
LEMMA SetInduction ==
    ASSUME NEW S, 0 \in S, \A n \in Nat : n \in S => n + 1 \in S
    PROVE  Nat \subseteq S
<1>. DEFINE T == {n \in Nat : n \notin S}
<1>1. SUFFICES ASSUME T # {} PROVE FALSE
  OBVIOUS
<1>2. T \subseteq Nat
  OBVIOUS
<1>3. PICK x \in T : \A y \in T : ~(<<y, x>> \in OpToRel(<, Nat))
  <2>. HIDE DEF T
  <2>. QED
    BY <1>1, <1>2, WFMin, NatLessThanWellFounded
<1>4. x \in Nat /\ x # 0 /\ x - 1 \in Nat /\ x - 1 \in T
  OBVIOUS
<1>5. <<x - 1, x>> \in OpToRel(<, Nat)
  BY <1>4 DEF OpToRel
<1>. QED
  BY <1>3, <1>4, <1>5

\* Induction over an initial interval.
LEMMA IntervalInduction ==
    ASSUME NEW N \in Nat, NEW S, 0 \in S, \A n \in 0 .. N - 1 : n \in S => n + 1 \in S
    PROVE  0 .. N \subseteq S
<1>. DEFINE T == {n \in Nat : n <= N => n \in S}
<1>1. 0 \in T
  OBVIOUS
<1>2. \A n \in Nat : n \in T => n + 1 \in T
  OBVIOUS
<1>3. Nat \subseteq T
  <2>. HIDE DEF T
  <2>. QED
    BY <1>1, <1>2, SetInduction
<1>. QED
  BY <1>3

\* A source is a sequence of lines.
LEMMA SourceType ==
    ASSUME NEW src \in Sources
    PROVE  /\ Len(src) \in Nat /\ DOMAIN src = 1 .. Len(src)
           /\ \A k \in 1 .. Len(src) : IsStatement(src[k].stmt)
<1>. DEFINE lines == {src[k] : k \in DOMAIN src}
<1>1. src \in Seq(lines) /\ \A k \in DOMAIN src : IsStatement(src[k].stmt)
  BY SourceAssumption
<1>2. Len(src) \in Nat /\ DOMAIN src = 1 .. Len(src)
  <2>. HIDE DEF lines
  <2>. QED
    BY <1>1
<1>. QED
  BY <1>1, <1>2

\* A line takes a number of bytes.
LEMMA SizeType ==
    ASSUME NEW src \in Sources, NEW k \in 1 .. Len(src)
    PROVE  Size(src[k]) \in Nat
<1>1. IsStatement(src[k].stmt)
  BY SourceType
<1>2. CASE IsInstr(src[k])
  BY <1>2 DEF Size, Words
<1>3. CASE IsData(src[k])
  <2>1. ElementSize(src[k].stmt.dir) \in Nat
    BY <1>3 DEF IsData, ElementSize
  <2>2. Len(src[k].stmt.args) \in Nat
    BY <1>1, <1>3 DEF IsStatement, IsData
  <2>. QED
    BY <1>3, <2>1, <2>2 DEF Size, IsInstr, IsData
<1>. QED
  BY <1>2, <1>3 DEF Size

\* The definition of OpenOf has a solution.
LEMMA OpenUnfold ==
    ASSUME NEW src \in Sources
    PROVE  /\ OpenOf(src)[0] = "start"
           /\ \A k \in 1 .. Len(src) :
                 OpenOf(src)[k] = IF IsSection(src[k]) THEN src[k].stmt.dir ELSE OpenOf(src)[k - 1]
<1>. DEFINE N == Len(src)
            Next1(k, v) == IF IsSection(src[k]) THEN src[k].stmt.dir ELSE v
            Solves(f, n) == f = [k \in 0 .. n |-> IF k = 0 THEN "start" ELSE Next1(k, f[k - 1])]
            S == {n \in Nat : \E f : Solves(f, n)}
<1>1. Len(src) \in Nat
  BY SourceType
<1>2. 0 \in S
  <2>. DEFINE f == [k \in 0 .. 0 |-> "start"]
  <2>1. Solves(f, 0)
    OBVIOUS
  <2>. QED
    BY <2>1
<1>3. ASSUME NEW n \in Nat, n \in S PROVE n + 1 \in S
  <2>1. PICK f : Solves(f, n)
    BY <1>3
  <2>. DEFINE g == [k \in 0 .. n + 1 |-> IF k = n + 1 THEN Next1(k, f[n]) ELSE f[k]]
  <2>. HIDE DEF Next1
  <2>2. \A k \in 0 .. n + 1 : k # 0 => g[k] = Next1(k, g[k - 1])
    <3>1. TAKE k \in 0 .. n + 1
    <3>2. HAVE k # 0
    <3>3. CASE k = n + 1
      BY <3>3
    <3>4. CASE k # n + 1
      <4>1. k \in 0 .. n /\ k - 1 \in 0 .. n /\ k - 1 # n + 1
        BY <3>2, <3>4
      <4>2. f[k] = Next1(k, f[k - 1])
        BY <2>1, <3>2, <4>1
      <4>. QED
        BY <3>4, <4>1, <4>2
    <3>. QED
      BY <3>3, <3>4
  <2>3. g[0] = "start"
    BY <2>1
  <2>4. Solves(g, n + 1)
    BY <2>2, <2>3
  <2>. HIDE DEF g, Solves
  <2>. QED
    BY <2>4
<1>4. \E f : Solves(f, N)
  <2>. HIDE DEF Solves
  <2>1. Nat \subseteq S
    BY <1>2, <1>3, SetInduction
  <2>. QED
    BY <1>1, <2>1
<1>5. Solves(OpenOf(src), N)
  BY <1>4 DEF OpenOf
<1>. QED
  BY <1>1, <1>5

\* So has that of FilledOf.
LEMMA FilledUnfold ==
    ASSUME NEW src \in Sources, NEW section
    PROVE  /\ FilledOf(src, section)[0] = 0
           /\ \A k \in 1 .. Len(src) :
                 FilledOf(src, section)[k] =
                     FilledOf(src, section)[k - 1]
                       + (IF OpenOf(src)[k - 1] = section THEN Size(src[k]) ELSE 0)
<1>. DEFINE N == Len(src)
            Next1(k, v) == v + (IF OpenOf(src)[k - 1] = section THEN Size(src[k]) ELSE 0)
            Solves(f, n) == f = [k \in 0 .. n |-> IF k = 0 THEN 0 ELSE Next1(k, f[k - 1])]
            S == {n \in Nat : \E f : Solves(f, n)}
<1>1. Len(src) \in Nat
  BY SourceType
<1>2. 0 \in S
  <2>. DEFINE f == [k \in 0 .. 0 |-> 0]
  <2>1. Solves(f, 0)
    OBVIOUS
  <2>. QED
    BY <2>1
<1>3. ASSUME NEW n \in Nat, n \in S PROVE n + 1 \in S
  <2>1. PICK f : Solves(f, n)
    BY <1>3
  <2>. DEFINE g == [k \in 0 .. n + 1 |-> IF k = n + 1 THEN Next1(k, f[n]) ELSE f[k]]
  <2>. HIDE DEF Next1
  <2>2. \A k \in 0 .. n + 1 : k # 0 => g[k] = Next1(k, g[k - 1])
    <3>1. TAKE k \in 0 .. n + 1
    <3>2. HAVE k # 0
    <3>3. CASE k = n + 1
      BY <3>3
    <3>4. CASE k # n + 1
      <4>1. k \in 0 .. n /\ k - 1 \in 0 .. n /\ k - 1 # n + 1
        BY <3>2, <3>4
      <4>2. f[k] = Next1(k, f[k - 1])
        BY <2>1, <3>2, <4>1
      <4>. QED
        BY <3>4, <4>1, <4>2
    <3>. QED
      BY <3>3, <3>4
  <2>3. g[0] = 0
    BY <2>1
  <2>4. Solves(g, n + 1)
    BY <2>2, <2>3
  <2>. HIDE DEF g, Solves
  <2>. QED
    BY <2>4
<1>4. \E f : Solves(f, N)
  <2>. HIDE DEF Solves
  <2>1. Nat \subseteq S
    BY <1>2, <1>3, SetInduction
  <2>. QED
    BY <1>1, <2>1
<1>5. Solves(FilledOf(src, section), N)
  BY <1>4 DEF FilledOf
<1>. QED
  BY <1>1, <1>5

\* Some section is open behind every line.
LEMMA OpenType ==
    ASSUME NEW src \in Sources
    PROVE  \A k \in 0 .. Len(src) : OpenOf(src)[k] \in Sections
<1>. DEFINE S == {k \in 0 .. Len(src) : OpenOf(src)[k] \in Sections}
<1>1. Len(src) \in Nat
  BY SourceType
<1>2. 0 \in S
  BY <1>1, OpenUnfold DEF Sections
<1>3. ASSUME NEW n \in 0 .. Len(src) - 1, n \in S PROVE n + 1 \in S
  <2>1. n + 1 \in 1 .. Len(src) /\ (n + 1) - 1 = n
    BY <1>1
  <2>2. OpenOf(src)[n + 1] =
          IF IsSection(src[n + 1]) THEN src[n + 1].stmt.dir ELSE OpenOf(src)[n]
    BY <2>1, OpenUnfold
  <2>. QED
    BY <1>3, <2>1, <2>2 DEF IsSection, Sections
<1>. HIDE DEF S
<1>4. 0 .. Len(src) \subseteq S
  BY <1>1, <1>2, <1>3, IntervalInduction
<1>. QED
  BY <1>4 DEF S

\* A section holds a number of bytes, and only grows.
LEMMA FilledGrows ==
    ASSUME NEW src \in Sources, NEW section
    PROVE  /\ \A k \in 0 .. Len(src) : FilledOf(src, section)[k] \in Nat
           /\ \A k \in 0 .. Len(src) : \A j \in 0 .. k :
                 FilledOf(src, section)[j] <= FilledOf(src, section)[k]
<1>. DEFINE f == FilledOf(src, section)
            S == {k \in 0 .. Len(src) : f[k] \in Nat /\ \A j \in 0 .. k : f[j] \in Nat /\ f[j] <= f[k]}
<1>1. Len(src) \in Nat
  BY SourceType
<1>2. 0 \in S
  <2>1. f[0] = 0
    BY FilledUnfold
  <2>. HIDE DEF f
  <2>. QED
    BY <1>1, <2>1
<1>3. ASSUME NEW n \in 0 .. Len(src) - 1, n \in S PROVE n + 1 \in S
  <2>1. n + 1 \in 1 .. Len(src) /\ (n + 1) - 1 = n
    BY <1>1
  <2>2. f[n + 1] = f[n] + (IF OpenOf(src)[n] = section THEN Size(src[n + 1]) ELSE 0)
    BY <2>1, FilledUnfold
  <2>3. Size(src[n + 1]) \in Nat
    BY <2>1, SizeType
  <2>. HIDE DEF f
  <2>4. f[n + 1] \in Nat /\ f[n] <= f[n + 1]
    BY <1>3, <2>2, <2>3
  <2>5. \A j \in 0 .. n + 1 : j \in 0 .. n \/ j = n + 1
    BY <2>1
  <2>6. \A j \in 0 .. n + 1 : f[j] \in Nat /\ f[j] <= f[n + 1]
    BY <1>3, <2>4, <2>5
  <2>. QED
    BY <2>1, <2>4, <2>6
<1>4. 0 .. Len(src) \subseteq S
  <2>. HIDE DEF S
  <2>. QED
    BY <1>1, <1>2, <1>3, IntervalInduction
<1>. QED
  BY <1>4

\* Nothing is in a section before it is opened.
LEMMA Unopened ==
    ASSUME NEW src \in Sources, NEW section \in {"text", "data"}, NEW m \in 0 .. Len(src),
           \A j \in 1 .. m : ~(IsSection(src[j]) /\ src[j].stmt.dir = section)
    PROVE  OpenOf(src)[m] # section /\ FilledOf(src, section)[m] = 0
<1>. DEFINE S == {k \in 0 .. m : OpenOf(src)[k] # section /\ FilledOf(src, section)[k] = 0}
<1>1. Len(src) \in Nat /\ m \in Nat
  BY SourceType
<1>2. 0 \in S
  BY <1>1, OpenUnfold, FilledUnfold
<1>3. ASSUME NEW n \in 0 .. m - 1, n \in S PROVE n + 1 \in S
  <2>1. n + 1 \in 1 .. Len(src) /\ n + 1 \in 1 .. m /\ (n + 1) - 1 = n
    BY <1>1
  <2>2. OpenOf(src)[n + 1] =
          IF IsSection(src[n + 1]) THEN src[n + 1].stmt.dir ELSE OpenOf(src)[n]
    BY <2>1, OpenUnfold
  <2>3. FilledOf(src, section)[n + 1] =
          FilledOf(src, section)[n] + (IF OpenOf(src)[n] = section THEN Size(src[n + 1]) ELSE 0)
    BY <2>1, FilledUnfold
  <2>. QED
    BY <1>3, <2>1, <2>2, <2>3
<1>. HIDE DEF S
<1>4. 0 .. m \subseteq S
  BY <1>1, <1>2, <1>3, IntervalInduction
<1>. QED
  BY <1>1, <1>4 DEF S

\* In front of the data there are words only.
LEMMA FilledInWords ==
    ASSUME NEW src \in Sources, Tidy(src), NEW section \in {"start", "text"}
    PROVE  \A k \in 0 .. Len(src) : FilledOf(src, section)[k] % 4 = 0
<1>. DEFINE S == {k \in 0 .. Len(src) : FilledOf(src, section)[k] % 4 = 0}
<1>1. Len(src) \in Nat
  BY SourceType
<1>2. 0 \in S
  BY <1>1, FilledUnfold
<1>3. ASSUME NEW n \in 0 .. Len(src) - 1, n \in S PROVE n + 1 \in S
  <2>1. n + 1 \in 1 .. Len(src) /\ (n + 1) - 1 = n /\ n \in 0 .. Len(src)
    BY <1>1
  <2>2. FilledOf(src, section)[n + 1] =
          FilledOf(src, section)[n] + (IF OpenOf(src)[n] = section THEN Size(src[n + 1]) ELSE 0)
    BY <2>1, FilledUnfold
  <2>3. FilledOf(src, section)[n] \in Nat
    BY <2>1, FilledGrows
  <2>4. CASE OpenOf(src)[n] = section
    <3>1. ~IsData(src[n + 1])
      BY <2>1, <2>4, SourceType DEF Tidy, SectionOf
    <3>2. Size(src[n + 1]) \in {0, 4, 8}
      BY <3>1 DEF Size, Words
    <3>. QED
      BY <1>3, <2>1, <2>2, <2>3, <2>4, <3>2
  <2>. QED
    BY <1>3, <2>1, <2>2, <2>3, <2>4
<1>. HIDE DEF S
<1>4. 0 .. Len(src) \subseteq S
  BY <1>1, <1>2, <1>3, IntervalInduction
<1>. QED
  BY <1>4 DEF S

\* Where the next line stands behind the first k.
Place(src, k) ==
    LET section == OpenOf(src)[k] IN Base(section) + FilledOf(src, section)[k]

LEMMA PlaceType ==
    ASSUME NEW src \in Sources
    PROVE  /\ Place(src, 0) = 0
           /\ \A k \in 0 .. Len(src) : Place(src, k) \in Nat
           /\ \A k \in 1 .. Len(src) : Address(src, k) = Place(src, k - 1) /\ Address(src, k) \in Nat
<1>1. Len(src) \in Nat
  BY SourceType
<1>2. \A s \in Sections : Base(s) \in Nat
  BY AssemblerAssumption DEF Base, Sections
<1>3. \A k \in 0 .. Len(src) : Place(src, k) \in Nat
  BY <1>2, OpenType, FilledGrows DEF Place
<1>4. \A k \in 1 .. Len(src) : Address(src, k) = Place(src, k - 1)
  BY DEF Address, Place, SectionOf
<1>5. \A k \in 1 .. Len(src) : k - 1 \in 0 .. Len(src)
  BY <1>1
<1>6. Place(src, 0) = 0
  BY OpenUnfold, FilledUnfold DEF Place, Base
<1>. QED
  BY <1>3, <1>4, <1>5, <1>6

\* The line behind one that opens a section is the first of it.
LEMMA PlaceOpened ==
    ASSUME NEW src \in Sources, Tidy(src), NEW k \in 1 .. Len(src), IsSection(src[k])
    PROVE  Place(src, k) = Base(src[k].stmt.dir)
<1>. DEFINE d == src[k].stmt.dir
<1>1. Len(src) \in Nat /\ k - 1 \in 0 .. Len(src)
  BY SourceType
<1>2. d \in {"text", "data"} /\ OpenOf(src)[k] = d
  BY OpenUnfold DEF IsSection
<1>3. \A j \in 1 .. k - 1 : ~(IsSection(src[j]) /\ src[j].stmt.dir = d)
  <2>1. \A j \in 1 .. k - 1 : j \in DOMAIN src /\ k \in DOMAIN src /\ j # k
    BY <1>1, SourceType
  <2>. QED
    BY <2>1 DEF Tidy
<1>4. OpenOf(src)[k - 1] # d /\ FilledOf(src, d)[k - 1] = 0
  BY <1>1, <1>2, <1>3, Unopened
<1>5. FilledOf(src, d)[k] = 0
  BY <1>4, FilledUnfold
<1>6. Base(d) \in Nat
  BY <1>2, AssemblerAssumption DEF Base
<1>. QED
  BY <1>2, <1>5, <1>6 DEF Place

\* Any other line moves the next one by its size.
LEMMA PlaceMoved ==
    ASSUME NEW src \in Sources, NEW k \in 1 .. Len(src), ~IsSection(src[k])
    PROVE  Place(src, k) = Address(src, k) + Size(src[k])
<1>. DEFINE o == OpenOf(src)[k - 1]
<1>1. Len(src) \in Nat /\ k - 1 \in 0 .. Len(src)
  BY SourceType
<1>2. OpenOf(src)[k] = o
  BY OpenUnfold
<1>3. FilledOf(src, o)[k] = FilledOf(src, o)[k - 1] + Size(src[k])
  BY FilledUnfold
<1>4. FilledOf(src, o)[k - 1] \in Nat /\ Size(src[k]) \in Nat
  BY <1>1, FilledGrows, SizeType
<1>5. Base(o) \in Nat
  BY <1>1, OpenType, AssemblerAssumption DEF Base, Sections
<1>6. Place(src, k) = Base(o) + FilledOf(src, o)[k]
  BY <1>2 DEF Place
<1>7. Address(src, k) = Base(o) + FilledOf(src, o)[k - 1]
  BY DEF Address, SectionOf
<1>. HIDE DEF o
<1>. QED
  BY <1>3, <1>4, <1>5, <1>6, <1>7

\* Instructions stand on words, and data behind the text.
LEMMA PlaceKinds ==
    ASSUME NEW src \in Sources, Tidy(src), NEW k \in 1 .. Len(src)
    PROVE  /\ IsInstr(src[k]) => Address(src, k) % 4 = 0
           /\ IsData(src[k]) => Address(src, k) >= data_offset
<1>. DEFINE o == SectionOf(src, k)
<1>1. Len(src) \in Nat /\ k - 1 \in 0 .. Len(src) /\ k \in DOMAIN src
  BY SourceType
<1>2. Address(src, k) = Base(o) + FilledOf(src, o)[k - 1]
  BY DEF Address
<1>3. FilledOf(src, o)[k - 1] \in Nat
  BY <1>1, FilledGrows
<1>4. ASSUME IsInstr(src[k]) PROVE Address(src, k) % 4 = 0
  <2>1. o \in {"start", "text"}
    BY <1>1, <1>4 DEF Tidy
  <2>2. FilledOf(src, o)[k - 1] % 4 = 0
    BY <1>1, <2>1, FilledInWords
  <2>3. Base(o) \in Nat /\ Base(o) % 4 = 0
    BY <2>1, AssemblerAssumption DEF Base
  <2>. HIDE DEF o
  <2>. QED
    BY <1>2, <1>3, <2>2, <2>3
<1>5. ASSUME IsData(src[k]) PROVE Address(src, k) >= data_offset
  <2>1. o = "data"
    BY <1>1, <1>5 DEF Tidy
  <2>2. Base(o) = data_offset /\ data_offset \in Nat
    BY <2>1, AssemblerAssumption DEF Base
  <2>. HIDE DEF o
  <2>. QED
    BY <1>2, <1>3, <2>2
<1>. QED
  BY <1>4, <1>5

\* Of two lines with something in the same section, the later stands behind
\* the earlier.
LEMMA PlaceBehind ==
    ASSUME NEW src \in Sources, NEW k \in 1 .. Len(src), NEW j \in 1 .. k - 1,
           SectionOf(src, j) = SectionOf(src, k)
    PROVE  Address(src, j) + Size(src[j]) <= Address(src, k)
<1>. DEFINE o == SectionOf(src, k)
            f == FilledOf(src, o)
<1>1. /\ Len(src) \in Nat /\ k - 1 \in 0 .. Len(src) /\ j \in 0 .. k - 1
      /\ j \in 1 .. Len(src) /\ j - 1 \in 0 .. Len(src)
  BY SourceType
<1>2. Address(src, k) = Base(o) + f[k - 1] /\ Address(src, j) = Base(o) + f[j - 1]
  BY DEF Address
<1>3. f[j] = f[j - 1] + Size(src[j])
  BY <1>1, FilledUnfold DEF SectionOf
<1>4. f[j - 1] \in Nat /\ f[k - 1] \in Nat /\ f[j] <= f[k - 1] /\ Size(src[j]) \in Nat
  BY <1>1, FilledGrows, SizeType
<1>5. Base(o) \in Nat
  BY <1>1, OpenType, AssemblerAssumption DEF Base, Sections, SectionOf
<1>. HIDE DEF f, o
<1>. QED
  BY <1>2, <1>3, <1>4, <1>5
=============================================================================
