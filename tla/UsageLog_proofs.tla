--------------------------- MODULE UsageLog_proofs ---------------------------
(***************************************************************************)
(* What the usage log keeps, for every number of processes, answers, cut   *)
(* writes and deaths: a file that can be read tells of every append that   *)
(* returned, and one that cannot was cut some time before.                 *)
(***************************************************************************)
EXTENDS UsageLog, FiniteSetTheorems, SequenceTheorems, WellFoundedInduction, TLAPS

\* The callers that have an answer, and those that have not written it to its end.
Has(c) == call[c].pc # "idle"
Writing == {"append", "rest", "short"}

\* The types; of the figures that were printed no more is known than that they are some,
\* since they are sums.
Calling(figures) ==
  [pc : {"idle", "append", "rest", "short", "read", "returned", "failed"},
   client : Clients, entry : Seq(Entry), rolling : figures]

TypesOK ==
  /\ file \in Seq(Piece)
  /\ \E figures : call \in [Callers -> Calling(figures)]
  /\ \A c \in Callers : Has(c) => Len(call[c].entry) = 1
  /\ logged \subseteq Entry
  /\ answers \in 0 .. MaxAnswers /\ clock \in 0 .. MaxClock /\ troubles \in 0 .. MaxTroubles
  /\ cut \in BOOLEAN

\* Answers are numbered, and no number is given twice.
NumbersOK ==
  /\ \A c \in Callers : Has(c) => Own(c).id <= answers
  /\ \A c, d \in Callers : Has(c) /\ Has(d) /\ Own(c).id = Own(d).id => c = d
  /\ \A e \in logged : e.id <= answers

\* What is not written to its end is not logged, and what was begun is in the file.
WritesOK ==
  /\ \A c \in Callers : call[c].pc \in Writing => \A e \in logged : e.id # Own(c).id
  /\ \A c \in Callers : call[c].pc \in {"rest", "short"} =>
       \E k \in DOMAIN file : file[k] = [entry |-> Own(c), part |-> "head"]
  /\ \A k \in DOMAIN file : file[k].part = "tail" => file[k].entry \in logged

\* Every head is followed by its tail, as far as the file goes.
Whole(pieces) ==
  \A k \in DOMAIN pieces :
    IF k % 2 = 1 THEN pieces[k].part = "head"
    ELSE pieces[k] = [entry |-> pieces[k - 1].entry, part |-> "tail"]

Tails(pieces) == {k \in DOMAIN pieces : k % 2 = 0}

\* A file that is whole tells what was logged.
FileOK ==
  Whole(file) =>
    /\ logged = {file[k].entry : k \in Tails(file)}
    /\ \A j, k \in Tails(file) : file[j].entry.id = file[k].entry.id => j = k

\* As long as no write was cut short, only one under way leaves a line without end,
\* whatever else went wrong.
CalmOK ==
  ~cut =>
    /\ Whole(file)
    /\ \A c \in Callers : call[c].pc # "short"
    /\ Len(file) % 2 = 1 => \E c \in Callers : call[c].pc = "rest"

LogInv == TypesOK /\ NumbersOK /\ WritesOK /\ FileOK /\ CalmOK

-----------------------------------------------------------------------------
(* Sums *)

\* Induction, over the set of the numbers that have the property.
LEMMA NatSets ==
  ASSUME NEW T, 0 \in T, \A n \in T \cap Nat : n + 1 \in T
  PROVE  Nat \subseteq T
<1> DEFINE R == {ss \in Nat \X Nat : ss[1] < ss[2]}
<1>1. IsWellFoundedOn(R, Nat)
  BY NatLessThanWellFounded DEF OpToRel
<1> SUFFICES ASSUME Nat \ T # {}
             PROVE  FALSE
  OBVIOUS
<1>2. PICK x \in Nat \ T : \A y \in Nat \ T : ~ <<y, x>> \in R
  <2>1. Nat \ T \subseteq Nat
    OBVIOUS
  <2> QED BY <1>1, <2>1, WFMin
<1>3. x # 0 /\ x - 1 \in Nat /\ x - 1 < x
  BY <1>2
<1>4. x - 1 \in T
  BY <1>2, <1>3
<1> QED BY <1>2, <1>3, <1>4

\* The element the fold takes next.
Chosen(s) == CHOOSE x \in s : TRUE

\* What the fold asks of a table of sums.
Sums(f, S, g) ==
  g = [s \in SUBSET S |-> IF s = {} THEN 0 ELSE f[Chosen(s)] + g[s \ {Chosen(s)}]]

\* What the fold of the library comes to.
LEMMA SumIs ==
  ASSUME NEW f, NEW S
  PROVE  SumFunctionOnSet(f, S) = (CHOOSE g : Sums(f, S, g))[S]
BY DEF SumFunctionOnSet, FoldFunctionOnSet, MapThenFoldSet, Sums, Chosen

LEMMA TheRest ==
  ASSUME NEW S, IsFiniteSet(S), NEW s \in SUBSET S, s # {}
  PROVE  /\ Chosen(s) \in s /\ s \ {Chosen(s)} \in SUBSET S
         /\ Cardinality(s \ {Chosen(s)}) = Cardinality(s) - 1
         /\ Cardinality(s) \in Nat /\ Cardinality(s \ {Chosen(s)}) \in Nat
<1>1. Chosen(s) \in s
  BY DEF Chosen
<1>2. IsFiniteSet(s)
  BY FS_Subset
<1>3. /\ IsFiniteSet(s \ {Chosen(s)})
      /\ Cardinality(s \ {Chosen(s)}) = Cardinality(s) - 1
  BY <1>1, <1>2, FS_RemoveElement
<1> QED BY <1>1, <1>2, <1>3, FS_CardinalityType

LEMMA SumsExist ==
  ASSUME NEW f, NEW S, IsFiniteSet(S)
  PROVE  \E g : Sums(f, S, g)
<1> DEFINE Small(n) == {s \in SUBSET S : Cardinality(s) <= n}
           Good(g, n) == g = [s \in Small(n) |-> IF s = {} THEN 0 ELSE f[Chosen(s)] + g[s \ {Chosen(s)}]]
           T == {n \in Nat : \E g : Good(g, n)}
<1>1. 0 \in T
  <2> DEFINE g == [s \in Small(0) |-> 0]
  <2>1. \A s \in Small(0) : s = {}
    <3> SUFFICES ASSUME NEW s \in Small(0)
                 PROVE  s = {}
      OBVIOUS
    <3>1. s \subseteq S /\ Cardinality(s) <= 0
      OBVIOUS
    <3>2. IsFiniteSet(s)
      BY <3>1, FS_Subset
    <3> QED BY <3>1, <3>2, FS_CardinalityType, FS_EmptySet
  <2> HIDE DEF Small
  <2>2. Good(g, 0)
    BY <2>1
  <2> QED BY <2>2
<1>2. ASSUME NEW n \in T \cap Nat
      PROVE  n + 1 \in T
  <2>1. PICK g : Good(g, n)
    OBVIOUS
  <2> DEFINE h == [s \in Small(n + 1) |-> IF s = {} THEN 0 ELSE f[Chosen(s)] + g[s \ {Chosen(s)}]]
  <2>2. \A s \in Small(n) : s \in Small(n + 1)
    <3> SUFFICES ASSUME NEW s \in Small(n)
                 PROVE  Cardinality(s) <= n + 1
      OBVIOUS
    <3>1. IsFiniteSet(s) /\ Cardinality(s) \in Nat
      BY FS_Subset, FS_CardinalityType
    <3> QED BY <3>1
  <2>3. \A s \in Small(n + 1) : s # {} => s \ {Chosen(s)} \in Small(n)
    <3> SUFFICES ASSUME NEW s \in Small(n + 1), s # {}
                 PROVE  s \ {Chosen(s)} \in Small(n)
      OBVIOUS
    <3>1. s \in SUBSET S /\ Cardinality(s) <= n + 1
      OBVIOUS
    <3> QED BY <3>1, TheRest
  <2> HIDE DEF Small
  <2>4. \A s \in Small(n) : h[s] = g[s]
    BY <2>1, <2>2
  <2>5. Good(h, n + 1)
    BY <2>3, <2>4
  <2>6. n + 1 \in Nat
    OBVIOUS
  <2> HIDE DEF Good, h
  <2> QED BY <2>5, <2>6
<1>3. Nat \subseteq T
  BY <1>1, <1>2, NatSets
<1>4. Cardinality(S) \in Nat
  BY FS_CardinalityType
<1>5. PICK g : Good(g, Cardinality(S))
  BY <1>3, <1>4
<1>6. Small(Cardinality(S)) = SUBSET S
  BY FS_Subset
<1> QED BY <1>5, <1>6 DEF Sums

LEMMA SumsAgree ==
  ASSUME NEW f, NEW S, IsFiniteSet(S), NEW R \in SUBSET S,
         NEW g, Sums(f, S, g), NEW h, Sums(f, R, h)
  PROVE  g[R] = h[R]
<1> DEFINE T == {n \in Nat : \A s \in SUBSET R : Cardinality(s) = n => g[s] = h[s]}
<1>0. IsFiniteSet(R)
  BY FS_Subset
<1>1. 0 \in T
  <2>1. \A s \in SUBSET R : Cardinality(s) = 0 => s = {}
    BY <1>0, FS_Subset, FS_EmptySet
  <2>2. g[{}] = 0 /\ h[{}] = 0
    BY DEF Sums
  <2> QED BY <2>1, <2>2
<1>2. ASSUME NEW n \in T \cap Nat
      PROVE  n + 1 \in T
  <2> SUFFICES ASSUME NEW s \in SUBSET R, Cardinality(s) = n + 1
               PROVE  g[s] = h[s]
    OBVIOUS
  <2>1. s # {}
    BY FS_EmptySet
  <2>2. s \ {Chosen(s)} \in SUBSET R /\ Cardinality(s \ {Chosen(s)}) = n
    BY <1>0, <2>1, TheRest
  <2>3. g[s \ {Chosen(s)}] = h[s \ {Chosen(s)}]
    BY <2>2
  <2>4. g[s] = f[Chosen(s)] + g[s \ {Chosen(s)}]
    BY <2>1 DEF Sums
  <2>5. h[s] = f[Chosen(s)] + h[s \ {Chosen(s)}]
    BY <2>1 DEF Sums
  <2> QED BY <2>3, <2>4, <2>5
<1>3. Nat \subseteq T
  BY <1>1, <1>2, NatSets
<1>4. Cardinality(R) \in Nat
  BY <1>0, FS_CardinalityType
<1> QED BY <1>3, <1>4

\* A sum is the sum of one number and of the rest.
LEMMA SumStep ==
  ASSUME NEW f, NEW S, IsFiniteSet(S)
  PROVE  SumFunctionOnSet(f, S) = IF S = {} THEN 0 ELSE f[Chosen(S)] + SumFunctionOnSet(f, S \ {Chosen(S)})
<1> DEFINE g == CHOOSE g : Sums(f, S, g)
           R == S \ {Chosen(S)}
           h == CHOOSE h : Sums(f, R, h)
<1>1. Sums(f, S, g)
  BY SumsExist
<1>2. SumFunctionOnSet(f, S) = g[S] /\ SumFunctionOnSet(f, R) = h[R]
  BY SumIs
<1>3. CASE S = {}
  <2>1. g[{}] = 0
    BY <1>1 DEF Sums
  <2> QED BY <1>2, <1>3, <2>1
<1>4. CASE S # {}
  <2>1. IsFiniteSet(R) /\ R \in SUBSET S
    BY FS_Subset
  <2>2. Sums(f, R, h)
    BY <2>1, SumsExist
  <2> HIDE DEF g, h
  <2>3. g[R] = h[R]
    BY <1>1, <2>1, <2>2, SumsAgree
  <2>4. g[S] = f[Chosen(S)] + g[R]
    BY <1>1, <1>4 DEF Sums
  <2> QED BY <1>2, <1>4, <2>3, <2>4
<1> QED BY <1>3, <1>4

\* A sum of naturals is a natural ...
LEMMA SumType ==
  ASSUME NEW S, IsFiniteSet(S), NEW f, \A x \in S : f[x] \in Nat
  PROVE  SumFunctionOnSet(f, S) \in Nat
<1> DEFINE T == {n \in Nat : \A s \in SUBSET S : Cardinality(s) = n => SumFunctionOnSet(f, s) \in Nat}
<1>1. 0 \in T
  <2> SUFFICES ASSUME NEW s \in SUBSET S, Cardinality(s) = 0
               PROVE  SumFunctionOnSet(f, s) \in Nat
    OBVIOUS
  <2>1. IsFiniteSet(s) /\ s = {}
    BY FS_Subset, FS_EmptySet
  <2>2. SumFunctionOnSet(f, s) = 0
    BY <2>1, SumStep
  <2> QED BY <2>2
<1>2. ASSUME NEW n \in T \cap Nat
      PROVE  n + 1 \in T
  <2> SUFFICES ASSUME NEW s \in SUBSET S, Cardinality(s) = n + 1
               PROVE  SumFunctionOnSet(f, s) \in Nat
    OBVIOUS
  <2>1. IsFiniteSet(s) /\ s # {}
    BY FS_Subset, FS_EmptySet
  <2>2. /\ Chosen(s) \in S /\ s \ {Chosen(s)} \in SUBSET S
        /\ Cardinality(s \ {Chosen(s)}) = n
    BY <2>1, TheRest
  <2>3. SumFunctionOnSet(f, s \ {Chosen(s)}) \in Nat
    BY <2>2
  <2>4. f[Chosen(s)] \in Nat
    BY <2>2
  <2> QED BY <2>1, <2>3, <2>4, SumStep
<1>3. Nat \subseteq T
  BY <1>1, <1>2, NatSets
<1> QED BY <1>3, FS_CardinalityType

\* ... and any of them can be taken first.
LEMMA SumTakes ==
  ASSUME NEW S, IsFiniteSet(S), NEW f, \A x \in S : f[x] \in Nat, NEW x \in S
  PROVE  SumFunctionOnSet(f, S) = f[x] + SumFunctionOnSet(f, S \ {x})
<1> DEFINE Takes(s) == \A y \in s : SumFunctionOnSet(f, s) = f[y] + SumFunctionOnSet(f, s \ {y})
           T == {n \in Nat : \A s \in SUBSET S : Cardinality(s) = n => Takes(s)}
<1>1. 0 \in T
  <2> SUFFICES ASSUME NEW s \in SUBSET S, Cardinality(s) = 0
               PROVE  Takes(s)
    OBVIOUS
  <2>1. IsFiniteSet(s) /\ s = {}
    BY FS_Subset, FS_EmptySet
  <2> QED BY <2>1
<1>2. ASSUME NEW n \in T \cap Nat
      PROVE  n + 1 \in T
  <2> SUFFICES ASSUME NEW s \in SUBSET S, Cardinality(s) = n + 1, NEW y \in s
               PROVE  SumFunctionOnSet(f, s) = f[y] + SumFunctionOnSet(f, s \ {y})
    OBVIOUS
  <2> DEFINE z == Chosen(s)
  <2>1. IsFiniteSet(s) /\ s # {}
    BY FS_Subset
  <2>2. /\ z \in s /\ s \ {z} \in SUBSET S
        /\ Cardinality(s \ {z}) = n
    BY <2>1, TheRest
  <2>3. SumFunctionOnSet(f, s) = f[z] + SumFunctionOnSet(f, s \ {z})
    BY <2>1, SumStep
  <2> HIDE DEF z
  <2>4. CASE y = z
    BY <2>3, <2>4
  <2>5. CASE y # z
    <3>1. SumFunctionOnSet(f, s \ {z}) = f[y] + SumFunctionOnSet(f, (s \ {z}) \ {y})
      BY <2>2, <2>5
    <3>2. IsFiniteSet(s \ {y}) /\ s \ {y} \in SUBSET S /\ Cardinality(s \ {y}) = n
      <4>1. IsFiniteSet(s \ {y}) /\ Cardinality(s \ {y}) = Cardinality(s) - 1
        BY <2>1, FS_RemoveElement
      <4> QED BY <4>1
    <3>3. SumFunctionOnSet(f, s \ {y}) = f[z] + SumFunctionOnSet(f, (s \ {y}) \ {z})
      BY <2>2, <2>5, <3>2
    <3>4. (s \ {y}) \ {z} = (s \ {z}) \ {y}
      OBVIOUS
    <3>5. SumFunctionOnSet(f, (s \ {z}) \ {y}) \in Nat
      <4>1. IsFiniteSet((s \ {z}) \ {y})
        BY <2>1, FS_Subset
      <4> QED BY <4>1, SumType
    <3>6. f[y] \in Nat /\ f[z] \in Nat
      BY <2>2
    <3> QED BY <2>3, <3>1, <3>3, <3>4, <3>5, <3>6
  <2> QED BY <2>4, <2>5
<1>3. Nat \subseteq T
  BY <1>1, <1>2, NatSets
<1> QED BY <1>3, FS_CardinalityType

\* Fewer and smaller numbers have no greater sum.
LEMMA SumGrows ==
  ASSUME NEW R, IsFiniteSet(R), NEW e, \A x \in R : e[x] \in Nat,
         NEW S, IsFiniteSet(S), NEW f, \A x \in S : f[x] \in Nat,
         NEW at, \A x \in R : at[x] \in S /\ e[x] <= f[at[x]],
         \A x, y \in R : at[x] = at[y] => x = y
  PROVE  SumFunctionOnSet(e, R) <= SumFunctionOnSet(f, S)
<1> DEFINE Image(r) == {at[x] : x \in r}
           T == {n \in Nat : \A r \in SUBSET R, s \in SUBSET S :
                   Cardinality(r) = n /\ Image(r) \subseteq s
                     => SumFunctionOnSet(e, r) <= SumFunctionOnSet(f, s)}
<1>1. 0 \in T
  <2> SUFFICES ASSUME NEW r \in SUBSET R, NEW s \in SUBSET S, Cardinality(r) = 0
               PROVE  SumFunctionOnSet(e, r) <= SumFunctionOnSet(f, s)
    OBVIOUS
  <2>1. IsFiniteSet(r) /\ r = {} /\ IsFiniteSet(s)
    BY FS_Subset, FS_EmptySet
  <2>2. SumFunctionOnSet(e, r) = 0
    BY <2>1, SumStep
  <2>3. SumFunctionOnSet(f, s) \in Nat
    BY <2>1, SumType
  <2> QED BY <2>2, <2>3
<1>2. ASSUME NEW n \in T \cap Nat
      PROVE  n + 1 \in T
  <2> SUFFICES ASSUME NEW r \in SUBSET R, NEW s \in SUBSET S, Cardinality(r) = n + 1,
                      Image(r) \subseteq s
               PROVE  SumFunctionOnSet(e, r) <= SumFunctionOnSet(f, s)
    OBVIOUS
  <2>1. IsFiniteSet(r) /\ r # {} /\ IsFiniteSet(s)
    BY FS_Subset, FS_EmptySet
  <2>2. PICK x \in r : TRUE
    BY <2>1
  <2>3. at[x] \in s /\ e[x] <= f[at[x]] /\ e[x] \in Nat /\ f[at[x]] \in Nat
    BY <2>2
  <2>4. Cardinality(r \ {x}) = n /\ IsFiniteSet(r \ {x}) /\ IsFiniteSet(s \ {at[x]})
    <3>1. IsFiniteSet(r \ {x}) /\ Cardinality(r \ {x}) = Cardinality(r) - 1
      BY <2>1, <2>2, FS_RemoveElement
    <3>2. IsFiniteSet(s \ {at[x]})
      BY <2>1, FS_Subset
    <3> QED BY <3>1, <3>2
  <2>5. Image(r \ {x}) \subseteq s \ {at[x]}
    <3> SUFFICES ASSUME NEW y \in r \ {x}
                 PROVE  at[y] \in s \ {at[x]}
      OBVIOUS
    <3> QED BY <2>2
  <2>6. SumFunctionOnSet(e, r \ {x}) <= SumFunctionOnSet(f, s \ {at[x]})
    <3>1. r \ {x} \in SUBSET R /\ s \ {at[x]} \in SUBSET S
      OBVIOUS
    <3> HIDE DEF Image
    <3> QED BY <2>4, <2>5, <3>1
  <2>7. SumFunctionOnSet(e, r) = e[x] + SumFunctionOnSet(e, r \ {x})
    BY <2>1, <2>2, SumTakes
  <2>8. SumFunctionOnSet(f, s) = f[at[x]] + SumFunctionOnSet(f, s \ {at[x]})
    BY <2>1, <2>3, SumTakes
  <2>9. SumFunctionOnSet(e, r \ {x}) \in Nat /\ SumFunctionOnSet(f, s \ {at[x]}) \in Nat
    BY <2>4, SumType
  <2> QED BY <2>3, <2>6, <2>7, <2>8, <2>9
<1>3. Nat \subseteq T
  BY <1>1, <1>2, NatSets
<1>4. Cardinality(R) \in Nat /\ Image(R) \subseteq S
  BY FS_CardinalityType
<1> HIDE DEF Image
<1> QED BY <1>3, <1>4

-----------------------------------------------------------------------------
(* Places in the file *)

USE UsageLogAssumption

LEMMA Parity ==
  ASSUME NEW k \in Nat
  PROVE  /\ k % 2 \in {0, 1}
         /\ k % 2 = 0 <=> (k + 1) % 2 = 1
         /\ k % 2 = 1 <=> (k + 1) % 2 = 0
OBVIOUS

LEMMA Halves ==
  ASSUME NEW n \in Nat, n % 2 = 0
  PROVE  /\ n \div 2 \in Nat
         /\ n = 2 * (n \div 2)
         /\ \A i \in 1 .. n \div 2 : 2 * i \in 1 .. n /\ (2 * i) % 2 = 0 /\ (2 * i - 1) % 2 = 1
         /\ \A k \in 1 .. n : k % 2 = 0 => \E i \in 1 .. n \div 2 : k = 2 * i
         /\ \A k \in 1 .. n : k % 2 = 1 => \E i \in 1 .. n \div 2 : k = 2 * i - 1
<1>1. n \div 2 \in Nat /\ n = 2 * (n \div 2)
  OBVIOUS
<1>2. ASSUME NEW i \in 1 .. n \div 2
      PROVE  2 * i \in 1 .. n /\ (2 * i) % 2 = 0 /\ (2 * i - 1) % 2 = 1
  BY <1>1
<1>3. ASSUME NEW k \in 1 .. n, k % 2 = 0
      PROVE  \E i \in 1 .. n \div 2 : k = 2 * i
  <2>1. k \div 2 \in 1 .. n \div 2 /\ k = 2 * (k \div 2)
    BY <1>1, <1>3
  <2> QED BY <2>1
<1>4. ASSUME NEW k \in 1 .. n, k % 2 = 1
      PROVE  \E i \in 1 .. n \div 2 : k = 2 * i - 1
  <2>1. (k + 1) \div 2 \in 1 .. n \div 2 /\ k = 2 * ((k + 1) \div 2) - 1
    BY <1>1, <1>4
  <2> QED BY <2>1
<1> QED BY <1>1, <1>2, <1>3, <1>4

LEMMA AppendPiece ==
  ASSUME NEW pieces \in Seq(Piece), NEW p \in Piece
  PROVE  /\ Append(pieces, p) \in Seq(Piece) /\ Len(pieces) \in Nat
         /\ Len(Append(pieces, p)) = Len(pieces) + 1
         /\ DOMAIN pieces = 1 .. Len(pieces)
         /\ DOMAIN Append(pieces, p) = 1 .. Len(pieces) + 1
         /\ \A k \in 1 .. Len(pieces) : Append(pieces, p)[k] = pieces[k]
         /\ Append(pieces, p)[Len(pieces) + 1] = p
<1>1. /\ Append(pieces, p) \in Seq(Piece) /\ Len(Append(pieces, p)) = Len(pieces) + 1
      /\ \A k \in 1 .. Len(pieces) : Append(pieces, p)[k] = pieces[k]
      /\ Append(pieces, p)[Len(pieces) + 1] = p
  BY AppendProperties
<1>2. Len(pieces) \in Nat /\ DOMAIN pieces = 1 .. Len(pieces)
  BY LenProperties
<1>3. DOMAIN Append(pieces, p) = 1 .. Len(Append(pieces, p))
  BY <1>1, LenProperties
<1> QED BY <1>1, <1>2, <1>3

\* A file that grows stays whole if the piece goes with the one before it.
LEMMA WholeAppend ==
  ASSUME NEW pieces \in Seq(Piece), NEW p \in Piece
  PROVE  Whole(Append(pieces, p))
           <=> /\ Whole(pieces)
               /\ IF Len(pieces) % 2 = 0 THEN p.part = "head"
                  ELSE p = [entry |-> pieces[Len(pieces)].entry, part |-> "tail"]
<1> DEFINE next == Append(pieces, p)
           n == Len(pieces)
           Right(s, k) == IF k % 2 = 1 THEN s[k].part = "head"
                          ELSE s[k] = [entry |-> s[k - 1].entry, part |-> "tail"]
<1>1. /\ n \in Nat /\ DOMAIN pieces = 1 .. n /\ DOMAIN next = 1 .. n + 1
      /\ \A k \in 1 .. n : next[k] = pieces[k]
      /\ next[n + 1] = p
  BY AppendPiece
<1> HIDE DEF next, n
<1>2. ASSUME NEW k \in 1 .. n
      PROVE  Right(next, k) <=> Right(pieces, k)
  <2>1. next[k] = pieces[k] /\ k \in Nat
    BY <1>1
  <2>2. CASE k % 2 = 1
    BY <2>1, <2>2
  <2>3. CASE k % 2 = 0
    <3>1. k - 1 \in 1 .. n
      BY <1>1, <2>3
    <3> QED BY <1>1, <2>1, <2>3, <3>1
  <2> QED BY <2>1, <2>2, <2>3, Parity
<1>3. Right(next, n + 1) <=> IF n % 2 = 0 THEN p.part = "head"
                             ELSE p = [entry |-> pieces[n].entry, part |-> "tail"]
  <2>1. CASE n % 2 = 0
    <3>1. (n + 1) % 2 = 1
      BY <1>1, <2>1, Parity
    <3> QED BY <1>1, <2>1, <3>1
  <2>2. CASE n % 2 = 1
    <3>1. (n + 1) % 2 = 0 /\ n \in 1 .. n /\ n + 1 - 1 = n
      BY <1>1, <2>2, Parity
    <3>2. next[n + 1 - 1] = pieces[n]
      BY <1>1, <3>1
    <3> QED BY <1>1, <2>2, <3>1, <3>2
  <2> QED BY <1>1, <2>1, <2>2, Parity
<1>4. Whole(next) <=> \A k \in 1 .. n + 1 : Right(next, k)
  BY <1>1 DEF Whole
<1>5. Whole(pieces) <=> \A k \in 1 .. n : Right(pieces, k)
  BY <1>1 DEF Whole
<1> HIDE DEF Right
<1>6. \A k \in 1 .. n + 1 : k = n + 1 \/ k \in 1 .. n
  BY <1>1
<1>7. 1 .. n \subseteq 1 .. n + 1 /\ n + 1 \in 1 .. n + 1
  BY <1>1
<1>8. Whole(next) <=> Whole(pieces) /\ Right(next, n + 1)
  BY <1>2, <1>4, <1>5, <1>6, <1>7
<1> QED BY <1>3, <1>8 DEF next, n

\* A file can be read when it is whole and ends with a tail.
LEMMA ReadableIs ==
  ASSUME TypesOK
  PROVE  Readable <=> Whole(file) /\ Len(file) % 2 = 0
<1> DEFINE n == Len(file)
           h == n \div 2
<1>1. /\ file \in Seq(Piece) /\ n \in Nat /\ DOMAIN file = 1 .. n
      /\ \A k \in 1 .. n : file[k] \in Piece
  BY LenProperties, ElementOfSeq DEF TypesOK
<1> HIDE DEF n
<1> SUFFICES ASSUME n % 2 = 0
             PROVE  Whole(file) <=> \A i \in 1 .. h :
                      /\ file[2 * i - 1].part = "head" /\ file[2 * i].part = "tail"
                      /\ file[2 * i - 1].entry = file[2 * i].entry
  BY DEF Readable, n
<1>2. /\ h \in Nat /\ n = 2 * h
      /\ \A i \in 1 .. h : 2 * i \in 1 .. n /\ (2 * i) % 2 = 0 /\ (2 * i - 1) % 2 = 1
      /\ \A k \in 1 .. n : k % 2 = 0 => \E i \in 1 .. h : k = 2 * i
      /\ \A k \in 1 .. n : k % 2 = 1 => \E i \in 1 .. h : k = 2 * i - 1
  BY <1>1, Halves
<1> HIDE DEF h
<1>3. ASSUME Whole(file), NEW i \in 1 .. h
      PROVE  /\ file[2 * i - 1].part = "head" /\ file[2 * i].part = "tail"
             /\ file[2 * i - 1].entry = file[2 * i].entry
  <2>1. 2 * i \in 1 .. n /\ 2 * i - 1 \in 1 .. n /\ (2 * i) % 2 = 0 /\ (2 * i - 1) % 2 = 1
    <3>1. 2 * i \in 1 .. n /\ (2 * i) % 2 = 0 /\ (2 * i - 1) % 2 = 1
      BY <1>2
    <3> QED BY <3>1, <1>1
  <2>2. file[2 * i - 1].part = "head"
    BY <1>1, <1>3, <2>1 DEF Whole
  <2>3. file[2 * i] = [entry |-> file[2 * i - 1].entry, part |-> "tail"]
    <3> DEFINE k == 2 * i
    <3>1. k \in DOMAIN file /\ k % 2 = 0
      BY <1>1, <2>1
    <3> HIDE DEF k
    <3>2. file[k] = [entry |-> file[k - 1].entry, part |-> "tail"]
      BY <1>3, <3>1 DEF Whole
    <3> QED BY <3>2 DEF k
  <2> QED BY <2>2, <2>3
<1>4. ASSUME \A i \in 1 .. h : /\ file[2 * i - 1].part = "head" /\ file[2 * i].part = "tail"
                               /\ file[2 * i - 1].entry = file[2 * i].entry,
             NEW k \in 1 .. n
      PROVE  IF k % 2 = 1 THEN file[k].part = "head"
             ELSE file[k] = [entry |-> file[k - 1].entry, part |-> "tail"]
  <2>1. CASE k % 2 = 1
    <3>1. PICK i \in 1 .. h : k = 2 * i - 1
      BY <1>2, <2>1
    <3>2. file[k].part = "head"
      BY <1>4, <3>1
    <3> QED BY <2>1, <3>2
  <2>2. CASE k % 2 = 0
    <3>1. PICK i \in 1 .. h : k = 2 * i
      BY <1>2, <2>2
    <3>2. file[k].part = "tail" /\ file[k].entry = file[k - 1].entry /\ file[k] \in Piece
      BY <1>1, <1>4, <3>1
    <3> QED BY <2>2, <3>2 DEF Piece
  <2> QED BY <2>1, <2>2, Parity
<1>5. Whole(file) <=> \A k \in 1 .. n : IF k % 2 = 1 THEN file[k].part = "head"
                                 ELSE file[k] = [entry |-> file[k - 1].entry, part |-> "tail"]
  BY <1>1 DEF Whole
<1> QED BY <1>3, <1>4, <1>5

\* A begun line of a file that is whole is its last: its tail would be logged.
LEMMA HeadIsLast ==
  ASSUME TypesOK, WritesOK, Whole(file), NEW c \in Callers, call[c].pc \in {"rest", "short"}
  PROVE  /\ Len(file) % 2 = 1 /\ Len(file) \in DOMAIN file
         /\ file[Len(file)] = [entry |-> Own(c), part |-> "head"]
<1> DEFINE n == Len(file)
<1>1. n \in Nat /\ DOMAIN file = 1 .. n
  BY LenProperties DEF TypesOK
<1> HIDE DEF n
<1>2. PICK k \in 1 .. n : file[k] = [entry |-> Own(c), part |-> "head"]
  BY <1>1 DEF WritesOK
<1>3. k % 2 = 1
  BY <1>1, <1>2, Parity DEF Whole
<1>4. k = n
  <2> SUFFICES ASSUME k # n
               PROVE  FALSE
    OBVIOUS
  <2>1. k + 1 \in 1 .. n /\ (k + 1) % 2 = 0 /\ k + 1 - 1 = k
    BY <1>1, <1>3, Parity
  <2>2. file[k + 1] = [entry |-> file[k + 1 - 1].entry, part |-> "tail"]
    BY <1>1, <2>1 DEF Whole
  <2>3. file[k + 1].entry = Own(c) /\ file[k + 1].part = "tail"
    BY <1>2, <2>1, <2>2
  <2>4. Own(c) \in logged
    BY <1>1, <2>1, <2>3 DEF WritesOK
  <2> QED BY <2>4 DEF WritesOK, Writing
<1> QED BY <1>1, <1>2, <1>3, <1>4 DEF n

-----------------------------------------------------------------------------
(* Calls *)

LEMMA CallFields ==
  ASSUME TypesOK, NEW c \in Callers
  PROVE  Has(c) => Own(c) \in Entry /\ Own(c).id \in Nat
<1>1. PICK figures : call \in [Callers -> Calling(figures)]
  BY DEF TypesOK
<1>2. call[c].entry \in Seq(Entry)
  BY <1>1 DEF Calling
<1>3. ASSUME Has(c)
      PROVE  Own(c) \in Entry /\ Own(c).id \in Nat
  <2>1. Len(call[c].entry) = 1
    BY <1>3 DEF TypesOK
  <2>2. Own(c) \in Entry
    BY <1>2, <2>1, ElementOfSeq DEF Own
  <2> QED BY <2>2 DEF Entry
<1> QED BY <1>3

\* The calls keep their types.
CallsTyped ==
  /\ \E figures : call \in [Callers -> Calling(figures)]
  /\ \A c \in Callers : Has(c) => Len(call[c].entry) = 1

\* A call goes on.
LEMMA GotoCall ==
  ASSUME TypesOK, NEW c \in Callers, Has(c),
         NEW pc \in {"append", "rest", "short", "read", "returned", "failed"}, Goto(c, pc)
  PROVE  /\ CallsTyped'
         /\ \A d \in Callers : /\ Own(d)' = Own(d) /\ (Has(d)' <=> Has(d))
                               /\ call'[d].pc = IF d = c THEN pc ELSE call[d].pc
                               /\ call'[d].rolling = call[d].rolling
<1>1. PICK figures : call \in [Callers -> Calling(figures)]
  BY DEF TypesOK
<1>2. \A d \in Callers : call'[d] = IF d = c THEN [call[c] EXCEPT !.pc = pc] ELSE call[d]
  BY <1>1 DEF Goto
<1>3. \A d \in Callers : /\ call'[d].entry = call[d].entry
                         /\ call'[d].pc = IF d = c THEN pc ELSE call[d].pc
                         /\ call'[d].rolling = call[d].rolling
  BY <1>1, <1>2 DEF Calling
<1>4. [call[c] EXCEPT !.pc = pc] \in Calling(figures)
  BY <1>1 DEF Calling
<1>5. call' \in [Callers -> Calling(figures)]
  BY <1>1, <1>4 DEF Goto
<1>6. \A d \in Callers : Has(d)' <=> Has(d)
  BY <1>3 DEF Has
<1>7. \A d \in Callers : Has(d)' => Len(call'[d].entry) = 1
  BY <1>3, <1>6 DEF TypesOK
<1> QED BY <1>3, <1>5, <1>6, <1>7 DEF Own, CallsTyped

\* A call returns a figure.
LEMMA ReturnCall ==
  ASSUME TypesOK, NEW c \in Callers, Has(c), NEW figure,
         call' = [call EXCEPT ![c].pc = "returned", ![c].rolling = figure]
  PROVE  /\ CallsTyped'
         /\ \A d \in Callers : /\ Own(d)' = Own(d) /\ (Has(d)' <=> Has(d))
                               /\ call'[d].pc = IF d = c THEN "returned" ELSE call[d].pc
         /\ call'[c].rolling = figure
         /\ \A d \in Callers \ {c} : call'[d].rolling = call[d].rolling
<1>1. PICK figures : call \in [Callers -> Calling(figures)]
  BY DEF TypesOK
<1> DEFINE more == figures \union {figure}
           back == [call[c] EXCEPT !.pc = "returned", !.rolling = figure]
<1>2. \A d \in Callers : call'[d] = IF d = c THEN back ELSE call[d]
  BY <1>1
<1>3. /\ \A d \in Callers : call[d] \in Calling(more)
      /\ back \in Calling(more) /\ back.entry = call[c].entry /\ back.pc = "returned"
      /\ back.rolling = figure
  BY <1>1 DEF Calling
<1> HIDE DEF back, more
<1>4. call' \in [Callers -> Calling(more)]
  <2>1. call' = [d \in Callers |-> call'[d]]
    BY <1>1
  <2> QED BY <1>2, <1>3, <2>1
<1>5. ASSUME NEW d \in Callers
      PROVE  /\ call'[d].entry = call[d].entry
             /\ call'[d].pc = IF d = c THEN "returned" ELSE call[d].pc
             /\ call'[d].rolling = IF d = c THEN figure ELSE call[d].rolling
             /\ call'[d].pc # "idle" <=> call[d].pc # "idle"
  <2>1. CASE d = c
    <3>1. call'[d] = back /\ call[d].pc # "idle"
      BY <1>2, <2>1 DEF Has
    <3> QED BY <1>3, <2>1, <3>1
  <2>2. CASE d # c
    <3>1. call'[d] = call[d]
      BY <1>2, <2>2
    <3> QED BY <2>2, <3>1
  <2> QED BY <2>1, <2>2
<1>6. \A d \in Callers : Has(d)' <=> Has(d)
  BY <1>5 DEF Has
<1>7. \A d \in Callers : Has(d)' => Len(call'[d].entry) = 1
  BY <1>5, <1>6 DEF TypesOK
<1> QED BY <1>4, <1>5, <1>6, <1>7 DEF Own, CallsTyped

\* A call is over.
LEMMA LeaveCall ==
  ASSUME TypesOK, NEW c \in Callers, call' = [call EXCEPT ![c] = NoCall]
  PROVE  /\ CallsTyped'
         /\ call'[c].pc = "idle" /\ call'[c].rolling = 0 /\ ~Has(c)'
         /\ \A d \in Callers \ {c} : call'[d] = call[d] /\ Own(d)' = Own(d)
<1>1. PICK figures : call \in [Callers -> Calling(figures)]
  BY DEF TypesOK
<1>2. NoCall \in Calling(figures \union {0}) /\ NoCall.pc = "idle" /\ NoCall.rolling = 0
      /\ \A d \in Callers : call[d] \in Calling(figures \union {0})
  BY <1>1 DEF NoCall, Calling, Clients
<1>3. call'[c] = NoCall /\ \A d \in Callers \ {c} : call'[d] = call[d]
  BY <1>1
<1>4. call' \in [Callers -> Calling(figures \union {0})]
  <2>1. call' = [d \in Callers |-> call'[d]]
    BY <1>1
  <2> QED BY <1>2, <1>3, <2>1
<1>5. ~Has(c)' /\ \A d \in Callers : Has(d)' => Len(call'[d].entry) = 1
  BY <1>2, <1>3 DEF TypesOK, Has
<1> QED BY <1>2, <1>3, <1>4, <1>5 DEF Own, CallsTyped

-----------------------------------------------------------------------------
(* Steps *)

LEMMA InitInv == Init => LogInv
<1> SUFFICES ASSUME Init
             PROVE  LogInv
  OBVIOUS
<1>1. /\ file = <<>> /\ logged = {} /\ answers = 0 /\ clock = 0 /\ troubles = 0 /\ ~cut
      /\ cut \in BOOLEAN /\ call = [c \in Callers |-> NoCall]
  BY DEF Init
<1>2. \A c \in Callers : call[c].pc = "idle" /\ ~Has(c)
  BY <1>1 DEF NoCall, Has
<1>3. call \in [Callers -> Calling({0})]
  BY <1>1 DEF NoCall, Calling, Clients
<1>4. TypesOK
  BY <1>1, <1>2, <1>3 DEF TypesOK
<1>5. DOMAIN file = {} /\ Len(file) = 0
  BY <1>1
<1>6. Tails(file) = {}
  BY <1>5 DEF Tails
<1> QED BY <1>1, <1>2, <1>4, <1>5, <1>6 DEF LogInv, NumbersOK, WritesOK, FileOK, CalmOK, Whole, Writing

\* A step that neither writes nor logs, and that begins no call.
LEMMA QuietStep ==
  ASSUME LogInv, UNCHANGED <<file, logged, answers>>, TypesOK',
         \A d \in Callers :
           /\ Has(d)' => Has(d) /\ Own(d)' = Own(d)
           /\ call'[d].pc \in Writing => call[d].pc \in Writing
           /\ call'[d].pc \in {"rest", "short"} => call[d].pc \in {"rest", "short"},
         ~cut' => /\ ~cut
                  /\ \A d \in Callers : /\ call'[d].pc = "short" => call[d].pc = "short"
                                        /\ call[d].pc = "rest" => call'[d].pc = "rest"
  PROVE  LogInv'
<1>1. \A d \in Callers : call'[d].pc \in Writing => Has(d)'
  BY DEF Has, Writing
<1>2. NumbersOK'
  BY DEF LogInv, NumbersOK
<1>3. WritesOK'
  <2>1. \A d \in Callers : call'[d].pc \in Writing => Own(d)' = Own(d)
    BY <1>1
  <2>2. \A d \in Callers : call'[d].pc \in {"rest", "short"} => Own(d)' = Own(d)
    BY <2>1 DEF Writing
  <2> QED BY <2>1, <2>2 DEF LogInv, WritesOK
<1>4. FileOK'
  BY DEF LogInv, FileOK, Whole, Tails
<1>5. CalmOK'
  BY DEF LogInv, CalmOK, Whole
<1> QED BY <1>2, <1>3, <1>4, <1>5 DEF LogInv

LEMMA QuietTypes ==
  ASSUME TypesOK, CallsTyped', UNCHANGED <<file, logged, answers>>,
         clock' \in 0 .. MaxClock, troubles' \in 0 .. MaxTroubles, cut' \in BOOLEAN
  PROVE  TypesOK'
BY DEF TypesOK, CallsTyped

LEMMA TroubleIs ==
  ASSUME TypesOK, Trouble
  PROVE  troubles' \in 0 .. MaxTroubles
BY DEF TypesOK, Trouble

LEMMA FailsInv ==
  ASSUME LogInv, NEW c \in Callers, CutShort(c) \/ AppendFails(c)
  PROVE  LogInv'
<1>1. TypesOK
  BY DEF LogInv
<1>2. PICK pc \in {"short", "read", "failed"} :
        /\ Goto(c, pc) /\ UNCHANGED <<file, logged, answers, clock>>
        /\ pc = "short" => call[c].pc = "rest"
        /\ call[c].pc \in {"append", "rest", "short"}
        /\ Trouble \/ UNCHANGED troubles
        /\ cut' = TRUE \/ (cut' = cut /\ call[c].pc # "rest" /\ pc # "short")
  BY DEF CutShort, AppendFails
<1>3. Has(c)
  BY <1>2 DEF Has
<1>4. /\ CallsTyped'
      /\ \A d \in Callers : /\ Own(d)' = Own(d) /\ (Has(d)' <=> Has(d))
                            /\ call'[d].pc = IF d = c THEN pc ELSE call[d].pc
  BY <1>1, <1>2, <1>3, GotoCall
<1>5. /\ troubles' \in 0 .. MaxTroubles /\ cut' \in BOOLEAN
      /\ ~cut' => ~cut /\ call[c].pc # "rest" /\ pc # "short"
  <2>1. troubles' \in 0 .. MaxTroubles
    BY <1>1, <1>2, TroubleIs DEF TypesOK
  <2>2. cut \in BOOLEAN
    BY <1>1 DEF TypesOK
  <2>3. CASE cut' = TRUE
    BY <2>1, <2>3
  <2>4. CASE cut' = cut /\ call[c].pc # "rest" /\ pc # "short"
    BY <2>1, <2>2, <2>4
  <2> QED BY <1>2, <2>3, <2>4
<1>6. TypesOK'
  BY <1>1, <1>2, <1>4, <1>5, QuietTypes DEF TypesOK
<1>7. \A d \in Callers :
        /\ call'[d].pc \in Writing => call[d].pc \in Writing
        /\ call'[d].pc \in {"rest", "short"} => call[d].pc \in {"rest", "short"}
  BY <1>2, <1>4 DEF Writing
<1>8. ~cut' => /\ ~cut
               /\ \A d \in Callers : /\ call'[d].pc = "short" => call[d].pc = "short"
                                     /\ call[d].pc = "rest" => call'[d].pc = "rest"
  BY <1>4, <1>5
<1> QED BY <1>2, <1>4, <1>6, <1>7, <1>8, QuietStep

LEMMA LeaveInv ==
  ASSUME LogInv, NEW c \in Callers, Dies(c) \/ GoOn(c)
  PROVE  LogInv'
<1>1. TypesOK
  BY DEF LogInv
<1>2. /\ call' = [call EXCEPT ![c] = NoCall] /\ UNCHANGED <<file, logged, answers, clock, cut>>
      /\ Trouble \/ UNCHANGED troubles
      /\ call[c].pc \in {"returned", "failed", "append", "short", "read"}
  BY DEF Dies, GoOn
<1>3. /\ CallsTyped' /\ call'[c].pc = "idle" /\ ~Has(c)'
      /\ \A d \in Callers \ {c} : call'[d] = call[d] /\ Own(d)' = Own(d)
  BY <1>1, <1>2, LeaveCall
<1>4. troubles' \in 0 .. MaxTroubles
  BY <1>1, <1>2, TroubleIs DEF TypesOK
<1>5. TypesOK'
  BY <1>1, <1>2, <1>3, <1>4, QuietTypes DEF TypesOK
<1>6. \A d \in Callers :
        /\ Has(d)' => Has(d) /\ Own(d)' = Own(d)
        /\ call'[d].pc \in Writing => call[d].pc \in Writing
        /\ call'[d].pc \in {"rest", "short"} => call[d].pc \in {"rest", "short"}
  BY <1>3 DEF Writing, Has
<1>7. ~cut' => /\ ~cut
               /\ \A d \in Callers : /\ call'[d].pc = "short" => call[d].pc = "short"
                                     /\ call[d].pc = "rest" => call'[d].pc = "rest"
  BY <1>2, <1>3
<1> QED BY <1>2, <1>5, <1>6, <1>7, QuietStep

LEMMA ReadInv ==
  ASSUME LogInv, NEW c \in Callers, ReadLog(c) \/ ReadRaises(c)
  PROVE  LogInv'
<1>1. TypesOK
  BY DEF LogInv
<1>2. /\ call[c].pc = "read" /\ UNCHANGED <<file, logged, answers, clock, cut>>
      /\ Trouble \/ UNCHANGED troubles
      /\ \/ Goto(c, "failed")
         \/ \E figure : call' = [call EXCEPT ![c].pc = "returned", ![c].rolling = figure]
  BY DEF ReadLog, ReadRaises
<1>3. Has(c)
  BY <1>2 DEF Has
<1>4. PICK pc \in {"returned", "failed"} :
        /\ CallsTyped'
        /\ \A d \in Callers : /\ Own(d)' = Own(d) /\ (Has(d)' <=> Has(d))
                              /\ call'[d].pc = IF d = c THEN pc ELSE call[d].pc
  BY <1>1, <1>2, <1>3, GotoCall, ReturnCall
<1>5. troubles' \in 0 .. MaxTroubles
  BY <1>1, <1>2, TroubleIs DEF TypesOK
<1>6. TypesOK'
  BY <1>1, <1>2, <1>4, <1>5, QuietTypes DEF TypesOK
<1>7. \A d \in Callers :
        /\ call'[d].pc \in Writing => call[d].pc \in Writing
        /\ call'[d].pc \in {"rest", "short"} => call[d].pc \in {"rest", "short"}
        /\ call'[d].pc = "short" => call[d].pc = "short"
        /\ call[d].pc = "rest" => call'[d].pc = "rest"
  BY <1>2, <1>4 DEF Writing
<1> QED BY <1>2, <1>4, <1>5, <1>6, <1>7, QuietStep

LEMMA RestInv ==
  ASSUME LogInv, Tick \/ UNCHANGED vars
  PROVE  LogInv'
<1>1. UNCHANGED <<file, call, logged, answers, cut, troubles>> /\ clock' \in 0 .. MaxClock
  BY DEF LogInv, TypesOK, Tick, vars
<1>2. TypesOK'
  BY <1>1 DEF LogInv, TypesOK, Has
<1> QED BY <1>1, <1>2, QuietStep DEF Has, Own

\* A new answer has a new number.
LEMMA AnsweredInv ==
  ASSUME LogInv, NEW c \in Callers, Answered(c)
  PROVE  LogInv'
<1>1. TypesOK /\ NumbersOK /\ WritesOK /\ FileOK /\ CalmOK
  BY DEF LogInv
<1>2. PICK n \in Sizes, client \in Clients :
        call' = [call EXCEPT ![c].pc = "append",
                             ![c].client = client,
                             ![c].entry = <<[id |-> answers + 1, at |-> clock, total_tokens |-> n]>>]
  BY DEF Answered
<1> DEFINE e == [id |-> answers + 1, at |-> clock, total_tokens |-> n]
<1>3. /\ call[c].pc = "idle" /\ answers \in Nat /\ answers' = answers + 1
      /\ answers' \in 0 .. MaxAnswers
      /\ UNCHANGED <<file, logged, clock, cut, troubles>>
  BY <1>1 DEF Answered, TypesOK
<1>4. e \in Entry /\ e.id = answers + 1
  BY <1>1, <1>3 DEF Entry, TypesOK
<1> HIDE DEF e
<1>5. PICK figures : call \in [Callers -> Calling(figures)]
  BY <1>1 DEF TypesOK
<1>6. <<e>> \in Seq(Entry) /\ Len(<<e>>) = 1 /\ <<e>>[1] = e
  BY <1>4
<1> DEFINE begun == [call[c] EXCEPT !.pc = "append", !.client = client, !.entry = <<e>>]
<1>7. /\ \A d \in Callers : call'[d] = IF d = c THEN begun ELSE call[d]
      /\ call' = [d \in Callers |-> call'[d]]
  BY <1>2, <1>5 DEF e
<1>8. begun \in Calling(figures) /\ begun.pc = "append" /\ begun.entry = <<e>>
  BY <1>5, <1>6 DEF Calling
<1> HIDE DEF begun
<1>9. call' \in [Callers -> Calling(figures)]
  BY <1>5, <1>7, <1>8
<1>10. /\ call'[c].pc = "append" /\ call'[c].entry = <<e>> /\ Has(c)' /\ Own(c)' = e
  BY <1>6, <1>7, <1>8 DEF Has, Own
<1>11. \A d \in Callers \ {c} : call'[d] = call[d] /\ (Has(d)' <=> Has(d)) /\ Own(d)' = Own(d)
  BY <1>7 DEF Has, Own
<1>12. TypesOK'
  <2>1. \A d \in Callers : Has(d)' => Len(call'[d].entry) = 1
    BY <1>1, <1>6, <1>10, <1>11 DEF TypesOK
  <2> QED BY <1>1, <1>3, <1>9, <2>1 DEF TypesOK
<1>13. \A d \in Callers : Has(d) => Own(d).id \in Nat /\ Own(d).id <= answers
  BY <1>1, CallFields DEF NumbersOK
<1>14. \A f \in logged : f.id \in Nat /\ f.id <= answers
  BY <1>1 DEF NumbersOK, TypesOK, Entry
<1>15. NumbersOK'
  <2>1. \A d \in Callers : Has(d)' => Own(d)'.id <= answers'
    BY <1>3, <1>4, <1>10, <1>11, <1>13
  <2>2. ASSUME NEW d \in Callers, NEW b \in Callers, Has(d)', Has(b)', Own(d)'.id = Own(b)'.id
        PROVE  d = b
    <3>1. CASE d = c /\ b # c
      BY <1>3, <1>4, <1>10, <1>11, <1>13, <2>2, <3>1
    <3>2. CASE d # c /\ b = c
      BY <1>3, <1>4, <1>10, <1>11, <1>13, <2>2, <3>2
    <3>3. CASE d # c /\ b # c
      BY <1>1, <1>11, <2>2, <3>3 DEF NumbersOK
    <3> QED BY <3>1, <3>2, <3>3
  <2>3. \A f \in logged' : f.id <= answers'
    BY <1>3, <1>14
  <2> QED BY <2>1, <2>2, <2>3 DEF NumbersOK
<1>16. WritesOK'
  <2>1. \A d \in Callers : call'[d].pc \in Writing => \A f \in logged' : f.id # Own(d)'.id
    BY <1>1, <1>3, <1>4, <1>10, <1>11, <1>14 DEF WritesOK
  <2>2. \A d \in Callers : call'[d].pc \in {"rest", "short"} =>
          \E k \in DOMAIN file' : file'[k] = [entry |-> Own(d)', part |-> "head"]
    BY <1>1, <1>3, <1>10, <1>11 DEF WritesOK
  <2> QED BY <1>1, <1>3, <2>1, <2>2 DEF WritesOK
<1>17. FileOK'
  BY <1>1, <1>3 DEF FileOK, Whole, Tails
<1>18. CalmOK'
  <2>1. \A d \in Callers : /\ call'[d].pc = "short" => call[d].pc = "short"
                           /\ call[d].pc = "rest" => call'[d].pc = "rest"
    BY <1>3, <1>10, <1>11
  <2> QED BY <1>1, <1>3, <2>1 DEF CalmOK, Whole
<1> QED BY <1>12, <1>15, <1>16, <1>17, <1>18 DEF LogInv

\* A line is begun at the end of the file.
LEMMA WriteHeadInv ==
  ASSUME LogInv, NEW c \in Callers, WriteHead(c)
  PROVE  LogInv'
<1>1. TypesOK /\ NumbersOK /\ WritesOK /\ FileOK /\ CalmOK
  BY DEF LogInv
<1> DEFINE p == [entry |-> Own(c), part |-> "head"]
           n == Len(file)
<1>2. /\ call[c].pc = "append" /\ Goto(c, "rest") /\ UNCHANGED <<logged, answers, clock, cut, troubles>>
      /\ \A d \in Callers \ {c} : call[d].pc # "rest"
      /\ file' = Append(file, p)
  BY DEF WriteHead, Writes
<1>3. Has(c)
  BY <1>2 DEF Has
<1>4. p \in Piece
  BY <1>1, <1>3, CallFields DEF Piece
<1>5. /\ file \in Seq(Piece) /\ file' \in Seq(Piece) /\ n \in Nat /\ Len(file') = n + 1
      /\ DOMAIN file = 1 .. n /\ DOMAIN file' = 1 .. n + 1
      /\ \A k \in 1 .. n : file'[k] = file[k]
      /\ file'[n + 1] = p
  BY <1>1, <1>2, <1>4, AppendPiece DEF TypesOK
<1>6. /\ CallsTyped'
      /\ \A d \in Callers : /\ Own(d)' = Own(d) /\ (Has(d)' <=> Has(d))
                            /\ call'[d].pc = IF d = c THEN "rest" ELSE call[d].pc
  BY <1>1, <1>2, <1>3, GotoCall
<1>7. TypesOK'
  BY <1>1, <1>2, <1>5, <1>6 DEF TypesOK, CallsTyped
<1>8. NumbersOK'
  BY <1>1, <1>2, <1>6 DEF NumbersOK
<1>9. Whole(file') <=> Whole(file) /\ n % 2 = 0
  BY <1>2, <1>4, <1>5, WholeAppend
<1> HIDE DEF n
<1>10. 1 .. n \subseteq 1 .. n + 1 /\ n + 1 \in 1 .. n + 1
       /\ \A k \in 1 .. n + 1 : k = n + 1 \/ k \in 1 .. n
  BY <1>5
<1>11. WritesOK'
  <2>1. \A d \in Callers : call'[d].pc \in Writing => \A f \in logged' : f.id # Own(d)'.id
    BY <1>1, <1>2, <1>6 DEF WritesOK, Writing
  <2>2. ASSUME NEW d \in Callers, call'[d].pc \in {"rest", "short"}
        PROVE  \E k \in DOMAIN file' : file'[k] = [entry |-> Own(d)', part |-> "head"]
    <3>1. CASE d = c
      BY <1>5, <1>6, <1>10, <3>1
    <3>2. CASE d # c
      <4>1. PICK k \in 1 .. n : file[k] = [entry |-> Own(d), part |-> "head"]
        BY <1>1, <1>5, <1>6, <2>2, <3>2 DEF WritesOK
      <4> QED BY <1>5, <1>6, <1>10, <4>1
    <3> QED BY <3>1, <3>2
  <2>3. \A k \in DOMAIN file' : file'[k].part = "tail" => file'[k].entry \in logged'
    BY <1>1, <1>2, <1>5, <1>10 DEF WritesOK
  <2> QED BY <2>1, <2>2, <2>3 DEF WritesOK
<1>12. FileOK'
  <2> SUFFICES ASSUME Whole(file')
               PROVE  /\ logged' = {file'[k].entry : k \in Tails(file')}
                      /\ \A j, k \in Tails(file') : file'[j].entry.id = file'[k].entry.id => j = k
    BY DEF FileOK
  <2>1. Whole(file) /\ (n + 1) % 2 = 1
    BY <1>5, <1>9, Parity
  <2>2. Tails(file') = Tails(file)
    BY <1>5, <1>10, <2>1 DEF Tails
  <2>3. \A k \in Tails(file) : file'[k] = file[k]
    BY <1>5 DEF Tails
  <2>4. /\ logged = {file[k].entry : k \in Tails(file)}
        /\ \A j, k \in Tails(file) : file[j].entry.id = file[k].entry.id => j = k
    BY <1>1, <2>1 DEF FileOK
  <2>5. {file'[k].entry : k \in Tails(file)} = {file[k].entry : k \in Tails(file)}
    BY <2>3
  <2>6. ASSUME NEW j \in Tails(file'), NEW k \in Tails(file'), file'[j].entry.id = file'[k].entry.id
        PROVE  j = k
    BY <2>2, <2>3, <2>4, <2>6
  <2>7. logged' = {file'[k].entry : k \in Tails(file')}
    BY <1>2, <2>2, <2>4, <2>5
  <2> QED BY <2>6, <2>7
<1>13. CalmOK'
  <2> SUFFICES ASSUME ~cut'
               PROVE  /\ Whole(file')
                      /\ \A d \in Callers : call'[d].pc # "short"
                      /\ Len(file') % 2 = 1 => \E d \in Callers : call'[d].pc = "rest"
    BY DEF CalmOK
  <2>1. /\ Whole(file) /\ \A d \in Callers : call[d].pc # "short"
        /\ n % 2 = 1 => \E d \in Callers : call[d].pc = "rest"
    BY <1>1, <1>2 DEF CalmOK, n
  <2>2. n % 2 = 0
    BY <1>2, <1>5, <2>1, Parity
  <2> QED BY <1>6, <1>9, <2>1, <2>2
<1> QED BY <1>7, <1>8, <1>11, <1>12, <1>13 DEF LogInv

\* A line is ended: in a file that is whole it is the one that was begun last.
LEMMA WriteTailInv ==
  ASSUME LogInv, NEW c \in Callers, WriteTail(c)
  PROVE  LogInv'
<1>1. TypesOK /\ NumbersOK /\ WritesOK /\ FileOK /\ CalmOK
  BY DEF LogInv
<1> DEFINE p == [entry |-> Own(c), part |-> "tail"]
           n == Len(file)
<1>2. /\ call[c].pc \in {"rest", "short"} /\ Goto(c, "read")
      /\ UNCHANGED <<answers, clock, cut, troubles>>
      /\ \A d \in Callers \ {c} : call[d].pc # "rest"
      /\ file' = Append(file, p) /\ logged' = logged \union {Own(c)}
  BY DEF WriteTail, Writes
<1>3. Has(c)
  BY <1>2 DEF Has
<1>4. p \in Piece /\ Own(c) \in Entry
  BY <1>1, <1>3, CallFields DEF Piece
<1>5. /\ file \in Seq(Piece) /\ file' \in Seq(Piece) /\ n \in Nat /\ Len(file') = n + 1
      /\ DOMAIN file = 1 .. n /\ DOMAIN file' = 1 .. n + 1
      /\ \A k \in 1 .. n : file'[k] = file[k]
      /\ file'[n + 1] = p
  BY <1>1, <1>2, <1>4, AppendPiece DEF TypesOK
<1>6. /\ CallsTyped'
      /\ \A d \in Callers : /\ Own(d)' = Own(d) /\ (Has(d)' <=> Has(d))
                            /\ call'[d].pc = IF d = c THEN "read" ELSE call[d].pc
  BY <1>1, <1>2, <1>3, GotoCall
<1>7. TypesOK'
  BY <1>1, <1>2, <1>4, <1>5, <1>6 DEF TypesOK, CallsTyped
<1>8. NumbersOK'
  BY <1>1, <1>2, <1>3, <1>6 DEF NumbersOK
<1>9. Whole(file') => Whole(file)
  BY <1>2, <1>4, <1>5, WholeAppend
<1>10. Whole(file) => n % 2 = 1 /\ file[n] = [entry |-> Own(c), part |-> "head"]
  BY <1>1, <1>2, HeadIsLast
<1>11. Whole(file) => Whole(file')
  <2> SUFFICES ASSUME Whole(file)
               PROVE  Whole(file')
    OBVIOUS
  <2>1. p = [entry |-> file[n].entry, part |-> "tail"] /\ n % 2 # 0
    BY <1>10
  <2> QED BY <1>2, <1>4, <1>5, <2>1, WholeAppend
<1> HIDE DEF n
<1>12. 1 .. n \subseteq 1 .. n + 1 /\ n + 1 \in 1 .. n + 1
       /\ \A k \in 1 .. n + 1 : k = n + 1 \/ k \in 1 .. n
  BY <1>5
<1>13. WritesOK'
  <2>1. ASSUME NEW d \in Callers, call'[d].pc \in Writing, NEW f \in logged'
        PROVE  f.id # Own(d)'.id
    <3>1. d # c /\ call[d].pc \in Writing /\ Has(d)
      BY <1>6, <2>1 DEF Writing, Has
    <3>2. Own(d).id # Own(c).id
      BY <1>1, <1>3, <3>1 DEF NumbersOK
    <3> QED BY <1>1, <1>2, <1>6, <3>1, <3>2 DEF WritesOK
  <2>2. ASSUME NEW d \in Callers, call'[d].pc \in {"rest", "short"}
        PROVE  \E k \in DOMAIN file' : file'[k] = [entry |-> Own(d)', part |-> "head"]
    <3>1. d # c
      BY <1>6, <2>2
    <3>2. PICK k \in 1 .. n : file[k] = [entry |-> Own(d), part |-> "head"]
      BY <1>1, <1>5, <1>6, <2>2, <3>1 DEF WritesOK
    <3> QED BY <1>5, <1>6, <1>12, <3>2
  <2>3. \A k \in DOMAIN file' : file'[k].part = "tail" => file'[k].entry \in logged'
    BY <1>1, <1>2, <1>5, <1>12 DEF WritesOK
  <2> QED BY <2>1, <2>2, <2>3 DEF WritesOK
<1>14. FileOK'
  <2> SUFFICES ASSUME Whole(file')
               PROVE  /\ logged' = {file'[k].entry : k \in Tails(file')}
                      /\ \A j, k \in Tails(file') : file'[j].entry.id = file'[k].entry.id => j = k
    BY DEF FileOK
  <2>1. Whole(file) /\ (n + 1) % 2 = 0
    BY <1>5, <1>9, <1>10, Parity
  <2>2. /\ logged = {file[k].entry : k \in Tails(file)}
        /\ \A j, k \in Tails(file) : file[j].entry.id = file[k].entry.id => j = k
    BY <1>1, <2>1 DEF FileOK
  <2>3. Tails(file') = Tails(file) \union {n + 1}
    BY <1>5, <1>12, <2>1 DEF Tails
  <2>4. \A k \in Tails(file) : file'[k] = file[k] /\ file[k].entry \in logged
    BY <1>5, <2>2 DEF Tails
  <2>5. file'[n + 1].entry = Own(c)
    BY <1>5
  <2>6. \A k \in Tails(file) : file[k].entry.id # Own(c).id
    BY <1>1, <1>2, <2>4 DEF WritesOK, Writing
  <2>7. logged' = {file'[k].entry : k \in Tails(file')}
    <3>1. ASSUME NEW e \in logged'
          PROVE  \E k \in Tails(file') : e = file'[k].entry
      <4>1. CASE e = Own(c)
        BY <2>3, <2>5, <4>1
      <4>2. CASE e \in logged
        <5>1. PICK k \in Tails(file) : e = file[k].entry
          BY <2>2, <4>2
        <5> QED BY <2>3, <2>4, <5>1
      <4> QED BY <1>2, <3>1, <4>1, <4>2
    <3>2. ASSUME NEW k \in Tails(file')
          PROVE  file'[k].entry \in logged'
      <4>1. CASE k = n + 1
        BY <1>2, <2>5, <4>1
      <4>2. CASE k \in Tails(file)
        BY <1>2, <2>4, <4>2
      <4> QED BY <2>3, <3>2, <4>1, <4>2
    <3> QED BY <3>1, <3>2
  <2>8. ASSUME NEW j \in Tails(file'), NEW k \in Tails(file'), file'[j].entry.id = file'[k].entry.id
        PROVE  j = k
    BY <2>2, <2>3, <2>4, <2>5, <2>6, <2>8
  <2> QED BY <2>7, <2>8
<1>15. CalmOK'
  <2> SUFFICES ASSUME ~cut'
               PROVE  /\ Whole(file')
                      /\ \A d \in Callers : call'[d].pc # "short"
                      /\ Len(file') % 2 = 1 => \E d \in Callers : call'[d].pc = "rest"
    BY DEF CalmOK
  <2>1. Whole(file) /\ \A d \in Callers : call[d].pc # "short"
    BY <1>1, <1>2 DEF CalmOK
  <2>2. Len(file') % 2 = 0
    BY <1>5, <1>10, <2>1, Parity
  <2>3. Len(file') % 2 # 1
    BY <2>2
  <2>4. \A d \in Callers : call'[d].pc # "short"
    BY <1>6, <2>1
  <2> QED BY <1>11, <2>1, <2>3, <2>4
<1> QED BY <1>7, <1>8, <1>13, <1>14, <1>15 DEF LogInv

LEMMA NextInv == LogInv /\ [Next]_vars => LogInv'
<1> SUFFICES ASSUME LogInv, [Next]_vars
             PROVE  LogInv'
  OBVIOUS
<1>1. ASSUME NEW c \in Callers,
             \/ Answered(c) \/ WriteHead(c) \/ WriteTail(c) \/ CutShort(c)
             \/ AppendFails(c) \/ Dies(c) \/ ReadLog(c) \/ ReadRaises(c) \/ GoOn(c)
      PROVE  LogInv'
  BY <1>1, AnsweredInv, WriteHeadInv, WriteTailInv, FailsInv, LeaveInv, ReadInv
<1> QED BY <1>1, RestInv DEF Next

LEMMA LogInvariant == Spec => []LogInv
<1> QED BY InitInv, NextInv, PTL DEF Spec

-----------------------------------------------------------------------------
(* What follows *)

\* The lines that are read are the entries that were logged, one each, since no number
\* is given twice.
LEMMA LinesAreEntries ==
  ASSUME LogInv, Readable
  PROVE  \E h \in Nat :
           /\ DOMAIN Entries = 1 .. h
           /\ \A e : e \in logged <=> \E i \in 1 .. h : Entries[i] = e
           /\ \A i, j \in 1 .. h : Entries[i] = Entries[j] => i = j
<1> DEFINE n == Len(file)
           h == n \div 2
<1>1. TypesOK /\ Whole(file) /\ n % 2 = 0
  BY ReadableIs DEF LogInv
<1>2. n \in Nat /\ DOMAIN file = 1 .. n
  BY <1>1, LenProperties DEF TypesOK
<1>3. /\ h \in Nat
      /\ \A i \in 1 .. h : 2 * i \in 1 .. n /\ (2 * i) % 2 = 0
      /\ \A k \in 1 .. n : k % 2 = 0 => \E i \in 1 .. h : k = 2 * i
  BY <1>1, <1>2, Halves
<1>4. Entries = [i \in 1 .. h |-> file[2 * i].entry]
  BY DEF Entries
<1>5. /\ logged = {file[k].entry : k \in Tails(file)}
      /\ \A j, k \in Tails(file) : file[j].entry.id = file[k].entry.id => j = k
  BY <1>1 DEF LogInv, FileOK
<1> HIDE DEF n, h
<1>6. \A i \in 1 .. h : 2 * i \in Tails(file) /\ Entries[i] = file[2 * i].entry
  BY <1>2, <1>3, <1>4 DEF Tails
<1>7. \A k \in Tails(file) : \E i \in 1 .. h : k = 2 * i
  BY <1>2, <1>3 DEF Tails
<1>8. \A e : e \in logged <=> \E i \in 1 .. h : Entries[i] = e
  BY <1>5, <1>6, <1>7
<1>9. ASSUME NEW i \in 1 .. h, NEW j \in 1 .. h, Entries[i] = Entries[j]
      PROVE  i = j
  <2>1. 2 * i = 2 * j
    BY <1>5, <1>6, <1>9
  <2> QED BY <2>1, <1>3
<1> QED BY <1>3, <1>4, <1>8, <1>9

\* So there are as many lines as entries.
LEMMA AsManyLines ==
  ASSUME LogInv, Readable
  PROVE  ToSet(Entries) = logged /\ Len(Entries) = Cardinality(logged)
<1>1. PICK h \in Nat :
        /\ DOMAIN Entries = 1 .. h
        /\ \A e : e \in logged <=> \E i \in 1 .. h : Entries[i] = e
        /\ \A i, j \in 1 .. h : Entries[i] = Entries[j] => i = j
  BY LinesAreEntries
<1> DEFINE f == Entries
<1> HIDE DEF f
<1>2. /\ f = [i \in 1 .. h |-> f[i]] /\ DOMAIN f = 1 .. h
      /\ \A e : e \in logged <=> \E i \in 1 .. h : f[i] = e
      /\ \A i, j \in 1 .. h : f[i] = f[j] => i = j
  <2>1. f = [i \in DOMAIN f |-> f[i]]
    BY DEF f, Entries
  <2> QED BY <1>1, <2>1 DEF f
<1>3. f \in [1 .. h -> logged]
  BY <1>2
<1>4. f \in Bijection(1 .. h, logged)
  BY <1>2, <1>3 DEF Bijection, Injection, Surjection, IsInjective
<1>5. IsFiniteSet(1 .. h) /\ Cardinality(1 .. h) = h
  <2>1. 1 \in Int /\ h \in Int
    OBVIOUS
  <2>2. IsFiniteSet(1 .. h) /\ Cardinality(1 .. h) = IF 1 > h THEN 0 ELSE h - 1 + 1
    BY <2>1, FS_Interval
  <2> QED BY <2>2
<1>6. Cardinality(logged) = h
  <2>1. ExistsBijection(1 .. h, logged)
    BY <1>4 DEF ExistsBijection
  <2> QED BY <1>5, <2>1, FS_Bijection
<1>7. Len(f) = h
  BY <1>2
<1>8. ToSet(f) = logged
  BY <1>2 DEF ToSet
<1> QED BY <1>6, <1>7, <1>8 DEF f

-----------------------------------------------------------------------------
(* The figures *)

LEMMA TokensOfIs ==
  ASSUME NEW S
  PROVE  TokensOf(S) = SumFunctionOnSet([e \in S |-> e.total_tokens], S)
<1>1. Tokens([e \in S |-> e]) = [e \in S |-> e.total_tokens]
  BY DEF Tokens
<1> QED BY <1>1 DEF TokensOf, TotalTokens, SumFunction

LEMMA SizesAreNumbers ==
  ASSUME NEW S \in SUBSET Entry
  PROVE  \A e \in S : e.total_tokens \in Nat /\ e.at \in Nat
<1>1. MaxClock \in Nat /\ Sizes \subseteq Nat
  OBVIOUS
<1>2. \A e \in S : e.total_tokens \in Sizes /\ e.at \in 0 .. MaxClock
  BY DEF Entry
<1>3. 0 .. MaxClock \subseteq Nat
  BY <1>1
<1> QED BY <1>1, <1>2, <1>3

LEMMA TokensGrow ==
  ASSUME NEW R, NEW S \in SUBSET Entry, R \subseteq S, IsFiniteSet(S)
  PROVE  TokensOf(R) <= TokensOf(S) /\ TokensOf(R) \in Nat /\ TokensOf(S) \in Nat
<1> DEFINE e == [x \in R |-> x.total_tokens]
           f == [x \in S |-> x.total_tokens]
           at == [x \in R |-> x]
<1>1. \A x \in S : f[x] \in Nat
  BY SizesAreNumbers
<1>2. /\ \A x \in R : e[x] \in Nat /\ at[x] \in S /\ e[x] <= f[at[x]]
      /\ \A x, y \in R : at[x] = at[y] => x = y
  BY <1>1
<1>3. IsFiniteSet(R)
  BY FS_Subset
<1> HIDE DEF e, f, at
<1>4. SumFunctionOnSet(e, R) <= SumFunctionOnSet(f, S)
  BY <1>1, <1>2, <1>3, SumGrows
<1>5. SumFunctionOnSet(e, R) \in Nat /\ SumFunctionOnSet(f, S) \in Nat
  BY <1>1, <1>2, <1>3, SumType
<1> QED BY <1>4, <1>5, TokensOfIs DEF e, f

\* One entry's tokens are no more than those of a set it is in.
LEMMA TokensOfOne ==
  ASSUME NEW S \in SUBSET Entry, IsFiniteSet(S), NEW x \in S
  PROVE  x.total_tokens <= TokensOf(S)
<1> DEFINE f == [y \in S |-> y.total_tokens]
<1>1. \A y \in S : f[y] \in Nat
  BY SizesAreNumbers
<1>2. f[x] = x.total_tokens
  OBVIOUS
<1> HIDE DEF f
<1>3. SumFunctionOnSet(f, S) = f[x] + SumFunctionOnSet(f, S \ {x})
  BY <1>1, SumTakes
<1>4. SumFunctionOnSet(f, S \ {x}) \in Nat
  <2>1. IsFiniteSet(S \ {x})
    BY FS_Subset
  <2> QED BY <1>1, <2>1, SumType
<1>5. SumFunctionOnSet(f, S) = TokensOf(S)
  BY TokensOfIs DEF f
<1> QED BY <1>1, <1>2, <1>3, <1>4, <1>5

\* What the two figures are, of a file that can be read.
LEMMA FiguresAre ==
  ASSUME LogInv, IsFiniteSet(logged), Readable, NEW now \in Nat
  PROVE  /\ TotalTokens(Entries) = TokensOf(logged)
         /\ Rolling(Entries, now) \in Nat /\ Rolling(Entries, now) <= TokensOf(logged)
         /\ \A e \in logged : e.at <= now /\ now <= e.at + WindowTicks
              => e.total_tokens <= Rolling(Entries, now)
<1>1. PICK h \in Nat :
        /\ DOMAIN Entries = 1 .. h
        /\ \A e : e \in logged <=> \E i \in 1 .. h : Entries[i] = e
        /\ \A i, j \in 1 .. h : Entries[i] = Entries[j] => i = j
  BY LinesAreEntries
<1>2. logged \in SUBSET Entry
  BY DEF LogInv, TypesOK
<1> DEFINE lines == 1 .. h
           counted == {i \in lines : Entries[i].at <= now /\ now <= Entries[i].at + WindowTicks}
           e == Tokens(Entries)
           f == [x \in logged |-> x.total_tokens]
           place == [i \in lines |-> Entries[i]]
           line == [x \in logged |-> CHOOSE i \in lines : Entries[i] = x]
<1>3. /\ TotalTokens(Entries) = SumFunctionOnSet(e, lines)
      /\ Rolling(Entries, now) = SumFunctionOnSet(e, counted)
      /\ TokensOf(logged) = SumFunctionOnSet(f, logged)
  BY <1>1, TokensOfIs DEF TotalTokens, SumFunction, Rolling, Tokens
<1>4. \A i \in lines : e[i] = Entries[i].total_tokens /\ place[i] = Entries[i] /\ Entries[i] \in logged
  BY <1>1 DEF Tokens
<1>5. \A x \in logged : line[x] \in lines /\ Entries[line[x]] = x /\ f[x] = x.total_tokens
  BY <1>1
<1>6. counted \subseteq lines
  OBVIOUS
<1>7. \A i \in lines : i \in counted <=> Entries[i].at <= now /\ now <= Entries[i].at + WindowTicks
  OBVIOUS
<1>8. IsFiniteSet(lines) /\ IsFiniteSet(counted)
  <2>1. 1 \in Int /\ h \in Int
    OBVIOUS
  <2>2. IsFiniteSet(lines)
    BY <2>1, FS_Interval
  <2> QED BY <1>6, <2>2, FS_Subset
<1>9. \A x \in logged : x.total_tokens \in Nat
  BY <1>2, SizesAreNumbers
<1> HIDE DEF counted, e, f, place, line, lines
<1>10. /\ \A i \in lines : e[i] \in Nat /\ place[i] \in logged /\ e[i] = f[place[i]]
       /\ \A i, j \in lines : place[i] = place[j] => i = j
  BY <1>1, <1>4, <1>5, <1>9 DEF lines
<1>11. /\ \A x \in logged : f[x] \in Nat /\ line[x] \in lines /\ f[x] = e[line[x]]
       /\ \A x, y \in logged : line[x] = line[y] => x = y
  BY <1>4, <1>5, <1>9
<1>12. /\ \A i \in lines : e[i] <= f[place[i]]
       /\ \A x \in logged : f[x] <= e[line[x]]
  BY <1>10, <1>11
<1>13. SumFunctionOnSet(e, lines) = SumFunctionOnSet(f, logged)
  <2>1. SumFunctionOnSet(e, lines) <= SumFunctionOnSet(f, logged)
    BY <1>8, <1>10, <1>11, <1>12, SumGrows
  <2>2. SumFunctionOnSet(f, logged) <= SumFunctionOnSet(e, lines)
    BY <1>8, <1>10, <1>11, <1>12, SumGrows
  <2>3. SumFunctionOnSet(e, lines) \in Nat /\ SumFunctionOnSet(f, logged) \in Nat
    BY <1>8, <1>10, <1>11, SumType
  <2> QED BY <2>1, <2>2, <2>3
<1>14. SumFunctionOnSet(e, counted) \in Nat /\ SumFunctionOnSet(e, counted) <= SumFunctionOnSet(f, logged)
  <2>1. /\ \A i \in counted : e[i] \in Nat /\ place[i] \in logged /\ e[i] <= f[place[i]]
        /\ \A i, j \in counted : place[i] = place[j] => i = j
    BY <1>6, <1>10, <1>12
  <2>2. SumFunctionOnSet(e, counted) <= SumFunctionOnSet(f, logged)
    BY <1>8, <1>11, <2>1, SumGrows
  <2> QED BY <1>8, <2>1, <2>2, SumType
<1>15. ASSUME NEW x \in logged, x.at <= now, now <= x.at + WindowTicks
       PROVE  x.total_tokens <= SumFunctionOnSet(e, counted)
  <2>1. line[x] \in counted /\ e[line[x]] = x.total_tokens
    BY <1>4, <1>5, <1>7, <1>15
  <2>2. \A i \in counted : e[i] \in Nat
    BY <1>6, <1>10
  <2>3. SumFunctionOnSet(e, counted) = e[line[x]] + SumFunctionOnSet(e, counted \ {line[x]})
    BY <1>8, <2>1, <2>2, SumTakes
  <2>4. SumFunctionOnSet(e, counted \ {line[x]}) \in Nat
    <3>1. IsFiniteSet(counted \ {line[x]})
      BY <1>8, FS_Subset
    <3> QED BY <2>2, <3>1, SumType
  <2> QED BY <1>9, <2>1, <2>3, <2>4
<1> QED BY <1>3, <1>13, <1>14, <1>15

\* What a call prints, and what it follows from: an entry is stamped before it is logged.
FigureIsFair(c) ==
  /\ Own(c) \in logged /\ clock <= Own(c).at + WindowTicks => call[c].rolling >= Own(c).total_tokens
  /\ call[c].rolling <= TokensOf(logged \union {Own(c)})

FiguresOK ==
  /\ IsFiniteSet(logged)
  /\ \A c \in Callers : call[c].rolling \in Nat
  /\ \A c \in Callers : Has(c) => Own(c).at <= clock
  /\ \A c \in Callers : call[c].pc = "returned" => FigureIsFair(c)

LEMMA InitFigures == Init => FiguresOK
<1> SUFFICES ASSUME Init
             PROVE  FiguresOK
  OBVIOUS
<1>1. \A c \in Callers : call[c].pc = "idle" /\ call[c].rolling = 0
  BY DEF Init, NoCall
<1> QED BY <1>1, FS_EmptySet DEF Init, FiguresOK, Has

\* A figure stays fair while others log and time passes.
LEMMA FigureStaysFair ==
  ASSUME LogInv, LogInv', FiguresOK, IsFiniteSet(logged'), logged \subseteq logged', clock <= clock',
         NEW c \in Callers, call[c].pc = "returned",
         Own(c)' = Own(c), call'[c].rolling = call[c].rolling, Own(c) \in logged' => Own(c) \in logged
  PROVE  FigureIsFair(c)'
<1>1. Has(c) /\ Own(c) \in Entry /\ FigureIsFair(c) /\ call[c].rolling \in Nat
  BY CallFields DEF LogInv, FiguresOK, Has
<1>2. clock \in Nat /\ clock' \in Nat /\ WindowTicks \in Nat /\ Own(c).at \in Nat
  BY <1>1, SizesAreNumbers DEF LogInv, TypesOK
<1>3. clock' <= Own(c).at + WindowTicks => clock <= Own(c).at + WindowTicks
  BY <1>2
<1> DEFINE now == logged \union {Own(c)}
           next == logged' \union {Own(c)}
<1>4. TokensOf(now) <= TokensOf(next) /\ TokensOf(now) \in Nat /\ TokensOf(next) \in Nat
  <2>1. next \in SUBSET Entry
    BY <1>1 DEF LogInv, TypesOK
  <2>2. IsFiniteSet(next)
    BY FS_AddElement
  <2>3. now \subseteq next
    OBVIOUS
  <2> HIDE DEF now, next
  <2> QED BY <2>1, <2>2, <2>3, TokensGrow
<1>5. call[c].rolling <= TokensOf(next)
  <2>1. call[c].rolling <= TokensOf(now)
    BY <1>1 DEF FigureIsFair
  <2> QED BY <1>1, <1>4, <2>1
<1> QED BY <1>1, <1>3, <1>5 DEF FigureIsFair

\* A step that prints no figure, and logs no entry of a call that did.
LEMMA OtherFigures ==
  ASSUME LogInv, LogInv', FiguresOK, IsFiniteSet(logged'), logged \subseteq logged', clock <= clock',
         \A d \in Callers : call'[d].rolling \in {call[d].rolling, 0},
         \A d \in Callers : Has(d)' => Own(d)'.at <= clock',
         \A d \in Callers : call'[d].pc = "returned" =>
           /\ call[d].pc = "returned" /\ Own(d)' = Own(d) /\ call'[d].rolling = call[d].rolling
           /\ Own(d) \in logged' => Own(d) \in logged
  PROVE  FiguresOK'
<1>1. \A d \in Callers : call'[d].rolling \in Nat
  BY DEF FiguresOK
<1>2. \A d \in Callers : call'[d].pc = "returned" => FigureIsFair(d)'
  BY FigureStaysFair
<1> QED BY <1>1, <1>2 DEF FiguresOK

\* Calls that go on without a figure.
LEMMA GotoFigures ==
  ASSUME LogInv, LogInv', FiguresOK, UNCHANGED clock, NEW c \in Callers, Has(c),
         NEW pc \in {"append", "rest", "short", "read", "failed"}, Goto(c, pc),
         logged' = logged \/ logged' = logged \union {Own(c)}
  PROVE  FiguresOK'
<1>1. TypesOK /\ NumbersOK
  BY DEF LogInv
<1>2. \A d \in Callers : /\ Own(d)' = Own(d) /\ (Has(d)' <=> Has(d))
                         /\ call'[d].pc = IF d = c THEN pc ELSE call[d].pc
                         /\ call'[d].rolling = call[d].rolling
  BY <1>1, GotoCall
<1>3. IsFiniteSet(logged') /\ logged \subseteq logged'
  BY FS_AddElement DEF FiguresOK
<1>4. clock <= clock'
  BY <1>1 DEF TypesOK
<1>5. ASSUME NEW d \in Callers, call'[d].pc = "returned"
      PROVE  call[d].pc = "returned" /\ (Own(d) \in logged' => Own(d) \in logged)
  <2>1. d # c /\ call[d].pc = "returned" /\ Has(d)
    BY <1>2, <1>5 DEF Has
  <2>2. Own(d) # Own(c)
    BY <1>1, <2>1 DEF NumbersOK
  <2> QED BY <2>1, <2>2
<1>6. \A d \in Callers : Has(d)' => Own(d)'.at <= clock'
  BY <1>2 DEF FiguresOK
<1> QED BY <1>2, <1>3, <1>4, <1>5, <1>6, OtherFigures

LEMMA LeaveFigures ==
  ASSUME LogInv, LogInv', FiguresOK, NEW c \in Callers, Dies(c) \/ GoOn(c)
  PROVE  FiguresOK'
<1>1. TypesOK
  BY DEF LogInv
<1>2. call' = [call EXCEPT ![c] = NoCall] /\ UNCHANGED <<logged, clock>>
  BY DEF Dies, GoOn
<1>3. /\ call'[c].pc = "idle" /\ call'[c].rolling = 0 /\ ~Has(c)'
      /\ \A d \in Callers \ {c} : call'[d] = call[d] /\ Own(d)' = Own(d)
  BY <1>1, <1>2, LeaveCall
<1>4. IsFiniteSet(logged') /\ logged \subseteq logged' /\ clock <= clock'
  BY <1>1, <1>2 DEF FiguresOK, TypesOK
<1>5. \A d \in Callers : Has(d)' => Own(d)'.at <= clock'
  BY <1>2, <1>3 DEF FiguresOK, Has
<1> QED BY <1>2, <1>3, <1>4, <1>5, OtherFigures

LEMMA TickFigures ==
  ASSUME LogInv, LogInv', FiguresOK, Tick \/ UNCHANGED vars
  PROVE  FiguresOK'
<1>1. UNCHANGED <<call, logged>> /\ clock \in Nat /\ clock' \in Nat /\ clock <= clock'
  BY DEF LogInv, TypesOK, Tick, vars
<1>2. \A d \in Callers : Own(d)' = Own(d) /\ (Has(d)' <=> Has(d))
  BY <1>1 DEF Own, Has
<1>3. \A d \in Callers : Has(d)' => Own(d)'.at <= clock'
  <2> SUFFICES ASSUME NEW d \in Callers, Has(d)
               PROVE  Own(d).at <= clock'
    BY <1>2
  <2>1. Own(d).at \in Nat /\ Own(d).at <= clock
    BY CallFields, SizesAreNumbers DEF LogInv, FiguresOK
  <2> QED BY <1>1, <2>1
<1>4. IsFiniteSet(logged')
  BY <1>1 DEF FiguresOK
<1> QED BY <1>1, <1>2, <1>3, <1>4, OtherFigures

LEMMA AnsweredFigures ==
  ASSUME LogInv, LogInv', FiguresOK, NEW c \in Callers, Answered(c)
  PROVE  FiguresOK'
<1>1. TypesOK
  BY DEF LogInv
<1>2. PICK figures : call \in [Callers -> Calling(figures)]
  BY <1>1 DEF TypesOK
<1>3. PICK n \in Sizes, client \in Clients :
        call' = [call EXCEPT ![c].pc = "append",
                             ![c].client = client,
                             ![c].entry = <<[id |-> answers + 1, at |-> clock, total_tokens |-> n]>>]
  BY DEF Answered
<1>4. UNCHANGED <<logged, clock>> /\ clock \in Nat
  BY <1>1 DEF Answered, TypesOK
<1>5. /\ call'[c].pc = "append" /\ call'[c].rolling = call[c].rolling
      /\ call'[c].entry = <<[id |-> answers + 1, at |-> clock, total_tokens |-> n]>>
      /\ \A d \in Callers \ {c} : call'[d] = call[d]
  BY <1>2, <1>3 DEF Calling
<1>6. Own(c)'.at = clock
  BY <1>5 DEF Own
<1>7. \A d \in Callers \ {c} : Own(d)' = Own(d) /\ (Has(d)' <=> Has(d))
  BY <1>5 DEF Own, Has
<1>8. \A d \in Callers : Has(d)' => Own(d)'.at <= clock'
  BY <1>4, <1>6, <1>7 DEF FiguresOK
<1>9. IsFiniteSet(logged') /\ logged \subseteq logged' /\ clock <= clock'
  BY <1>4 DEF FiguresOK
<1> QED BY <1>4, <1>5, <1>7, <1>8, <1>9, OtherFigures

\* The figure of a call that read the log, or failed to.
LEMMA ReadFigures ==
  ASSUME LogInv, LogInv', FiguresOK, NEW c \in Callers, ReadLog(c) \/ ReadRaises(c)
  PROVE  FiguresOK'
<1>1. TypesOK /\ IsFiniteSet(logged)
  BY DEF LogInv, FiguresOK
<1>2. Has(c) /\ UNCHANGED <<logged, clock>>
  BY DEF ReadLog, ReadRaises, Has
<1>3. Own(c) \in Entry /\ clock \in Nat /\ logged \in SUBSET Entry
  BY <1>1, <1>2, CallFields DEF TypesOK
<1>4. CASE Goto(c, "failed")
  BY <1>2, <1>4, GotoFigures
<1>5. CASE ~Goto(c, "failed")
  <2> DEFINE all == logged \union {Own(c)}
  <2>1. all \in SUBSET Entry /\ IsFiniteSet(all) /\ logged \subseteq all /\ Own(c) \in all
    BY <1>1, <1>3, FS_AddElement
  <2> HIDE DEF all
  <2>2. PICK figure :
          /\ figure \in Nat
          /\ call' = [call EXCEPT ![c].pc = "returned", ![c].rolling = figure]
          /\ Own(c) \in logged /\ clock <= Own(c).at + WindowTicks => figure >= Own(c).total_tokens
          /\ figure <= TokensOf(all)
    <3>1. CASE ReadLog(c)
      <4>1. Readable /\ call' = [call EXCEPT ![c].pc = "returned", ![c].rolling = Rolling(Entries, clock)]
        BY <1>5, <3>1 DEF ReadLog
      <4>2. /\ Rolling(Entries, clock) \in Nat /\ Rolling(Entries, clock) <= TokensOf(logged)
            /\ \A e \in logged : e.at <= clock /\ clock <= e.at + WindowTicks
                 => e.total_tokens <= Rolling(Entries, clock)
        BY <1>1, <1>3, <4>1, FiguresAre
      <4>3. Rolling(Entries, clock) <= TokensOf(all)
        <5>1. TokensOf(logged) <= TokensOf(all) /\ TokensOf(logged) \in Nat /\ TokensOf(all) \in Nat
          BY <2>1, TokensGrow
        <5> QED BY <4>2, <5>1
      <4>4. Own(c) \in logged /\ clock <= Own(c).at + WindowTicks
              => Rolling(Entries, clock) >= Own(c).total_tokens
        <5>1. Own(c).at <= clock
          BY <1>2 DEF FiguresOK
        <5>2. Own(c).total_tokens \in Nat
          BY <1>3, SizesAreNumbers
        <5> QED BY <4>2, <5>1, <5>2
      <4> QED BY <4>1, <4>2, <4>3, <4>4
    <3>2. CASE ReadRaises(c)
      <4>1. call' = [call EXCEPT ![c].pc = "returned", ![c].rolling = Own(c).total_tokens]
        BY <1>5, <3>2 DEF ReadRaises
      <4>2. Own(c).total_tokens \in Nat
        BY <1>3, SizesAreNumbers
      <4>3. Own(c).total_tokens <= TokensOf(all)
        BY <2>1, TokensOfOne
      <4>4. Own(c).total_tokens >= Own(c).total_tokens
        BY <4>2
      <4> QED BY <4>1, <4>2, <4>3, <4>4
    <3> QED BY <3>1, <3>2
  <2>3. /\ \A d \in Callers : /\ Own(d)' = Own(d) /\ (Has(d)' <=> Has(d))
                              /\ call'[d].pc = IF d = c THEN "returned" ELSE call[d].pc
        /\ call'[c].rolling = figure
        /\ \A d \in Callers \ {c} : call'[d].rolling = call[d].rolling
    <3>1. call' = [call EXCEPT ![c].pc = "returned", ![c].rolling = figure]
      BY <2>2
    <3>2. TypesOK /\ Has(c)
      BY <1>1, <1>2
    <3> QED BY <3>1, <3>2, ReturnCall
  <2>4. \A d \in Callers : call'[d].rolling \in Nat
    BY <2>2, <2>3 DEF FiguresOK
  <2>5. \A d \in Callers : Has(d)' => Own(d)'.at <= clock'
    BY <1>2, <2>3 DEF FiguresOK
  <2>6. ASSUME NEW d \in Callers, call'[d].pc = "returned"
        PROVE  FigureIsFair(d)'
    <3>1. CASE d = c
      BY <1>2, <2>2, <2>3, <3>1 DEF FigureIsFair, all
    <3>2. CASE d # c
      <4>1. call[d].pc = "returned" /\ call'[d].rolling = call[d].rolling /\ clock <= clock'
        BY <1>2, <1>3, <2>3, <2>6, <3>2
      <4> QED BY <1>1, <1>2, <2>3, <4>1, FigureStaysFair
    <3> QED BY <3>1, <3>2
  <2> QED BY <1>1, <1>2, <2>4, <2>5, <2>6 DEF FiguresOK
<1> QED BY <1>4, <1>5

LEMMA NextFigures == LogInv /\ LogInv' /\ FiguresOK /\ [Next]_vars => FiguresOK'
<1> SUFFICES ASSUME LogInv, LogInv', FiguresOK, [Next]_vars
             PROVE  FiguresOK'
  OBVIOUS
<1>1. ASSUME NEW c \in Callers, WriteHead(c) \/ WriteTail(c) \/ CutShort(c) \/ AppendFails(c)
      PROVE  FiguresOK'
  <2>1. PICK pc \in {"append", "rest", "short", "read", "failed"} :
          /\ Goto(c, pc) /\ UNCHANGED clock
          /\ logged' = logged \/ logged' = logged \union {Own(c)}
    BY <1>1 DEF WriteHead, WriteTail, CutShort, AppendFails
  <2>2. Has(c)
    BY <1>1 DEF WriteHead, WriteTail, CutShort, AppendFails, Has
  <2> QED BY <2>1, <2>2, GotoFigures
<1>2. ASSUME NEW c \in Callers,
             \/ Answered(c) \/ WriteHead(c) \/ WriteTail(c) \/ CutShort(c)
             \/ AppendFails(c) \/ Dies(c) \/ ReadLog(c) \/ ReadRaises(c) \/ GoOn(c)
      PROVE  FiguresOK'
  BY <1>1, <1>2, AnsweredFigures, LeaveFigures, ReadFigures
<1> QED BY <1>2, TickFigures DEF Next

LEMMA FiguresInvariant == Spec => [](LogInv /\ FiguresOK)
<1>1. Init => LogInv /\ FiguresOK
  BY InitInv, InitFigures
<1>2. LogInv /\ FiguresOK /\ [Next]_vars => LogInv' /\ FiguresOK'
  BY NextInv, NextFigures
<1> QED BY <1>1, <1>2, PTL DEF Spec

\* The state keeps its types, the printed figures included.
LEMMA TypesAre == LogInv /\ FiguresOK => UsageTypeOK
<1> SUFFICES ASSUME LogInv, FiguresOK
             PROVE  UsageTypeOK
  OBVIOUS
<1>1. PICK figures : call \in [Callers -> Calling(figures)]
  BY DEF LogInv, TypesOK
<1>2. \A c \in Callers : call[c] \in CallState
  BY <1>1 DEF FiguresOK, Calling, CallState
<1>3. call \in [Callers -> CallState]
  BY <1>1, <1>2
<1> QED BY <1>3 DEF LogInv, TypesOK, UsageTypeOK, Has

-----------------------------------------------------------------------------
(* The theorems *)

\* Whenever the file can be read, it holds the entry of every append that returned, once,
\* and none of an append that failed half-way, and its total is theirs.
THEOREM ReportsAreComplete == Spec => []LogIsComplete
<1>1. LogInv /\ FiguresOK => LogIsComplete
  <2> SUFFICES ASSUME LogInv, FiguresOK, Readable
               PROVE  /\ ToSet(Entries) = logged /\ Len(Entries) = Cardinality(logged)
                      /\ TotalTokens(Entries) = TokensOf(logged)
    BY DEF LogIsComplete
  <2>1. IsFiniteSet(logged) /\ clock \in Nat
    BY DEF FiguresOK, LogInv, TypesOK
  <2> QED BY <2>1, AsManyLines, FiguresAre
<1> QED BY <1>1, FiguresInvariant, PTL

\* The rolling figure that a call prints counts that call while it is inside the window,
\* and counts no more than what was answered; and the state keeps its types.
THEOREM RollingFiguresAreFair == Spec => []RollingCountsTheCall
<1>1. LogInv /\ FiguresOK => RollingCountsTheCall
  BY TypesAre DEF RollingCountsTheCall, FiguresOK, FigureIsFair
<1> QED BY <1>1, FiguresInvariant, PTL

\* A call whose answer was paid for fails only for one of these reasons: it reads the log
\* after a write was cut short, or while another process writes, or it is one of
\* anthropic.react that a file error hits.
THEOREM AnswersAreLostForAReason == Spec => AnswersAreLostToTroubles
<1> DEFINE Reason(c) == \/ call[c].pc = "read" /\ (cut \/ \E d \in Callers : call[d].pc = "rest")
                        \/ ~Warns(c) /\ (troubles' > troubles \/ call[c].pc = "short")
<1>1. ASSUME LogInv, [Next]_vars, NEW c \in Callers, call[c].pc # "failed", call'[c].pc = "failed"
      PROVE  Reason(c)
  <2>1. TypesOK /\ CalmOK /\ Next
    BY <1>1 DEF LogInv, vars
  <2>2. PICK figures : call \in [Callers -> Calling(figures)]
    BY <2>1 DEF TypesOK
  <2>3. PICK d \in Callers :
          \/ Answered(d) \/ WriteHead(d) \/ WriteTail(d) \/ CutShort(d)
          \/ AppendFails(d) \/ Dies(d) \/ ReadLog(d) \/ ReadRaises(d) \/ GoOn(d)
    BY <1>1, <2>1 DEF Next, Tick
  <2>4. d = c
    <3>1. \A b \in Callers \ {d} : call'[b] = call[b]
      <4>1. CASE Answered(d) \/ Dies(d) \/ GoOn(d)
        BY <2>2, <4>1 DEF Answered, Dies, GoOn
      <4>2. CASE WriteHead(d) \/ WriteTail(d) \/ CutShort(d) \/ AppendFails(d)
        BY <2>2, <4>2 DEF WriteHead, WriteTail, CutShort, AppendFails, Goto
      <4>3. CASE ReadLog(d) \/ ReadRaises(d)
        BY <2>2, <4>3 DEF ReadLog, ReadRaises, Goto
      <4> QED BY <2>3, <4>1, <4>2, <4>3
    <3>2. c \in Callers /\ call'[c] # call[c]
      BY <1>1
    <3> QED BY <3>1, <3>2
  <2>5. ~(Answered(c) \/ WriteHead(c) \/ WriteTail(c) \/ CutShort(c) \/ Dies(c) \/ GoOn(c))
    <3>1. ~Answered(c)
      <4> SUFFICES ASSUME Answered(c)
                   PROVE  FALSE
        OBVIOUS
      <4>1. PICK n \in Sizes, client \in Clients :
              call' = [call EXCEPT ![c].pc = "append",
                                   ![c].client = client,
                                   ![c].entry = <<[id |-> answers + 1, at |-> clock, total_tokens |-> n]>>]
        BY DEF Answered
      <4>2. call'[c].pc = "append"
        BY <1>1, <2>2, <4>1 DEF Calling
      <4> QED BY <1>1, <4>2
    <3>2. ~(Dies(c) \/ GoOn(c))
      <4>1. NoCall.pc = "idle"
        BY DEF NoCall
      <4> QED BY <1>1, <2>2, <4>1 DEF Dies, GoOn
    <3>3. ~(WriteHead(c) \/ WriteTail(c) \/ CutShort(c))
      BY <1>1, <2>2 DEF WriteHead, WriteTail, CutShort, Goto, Calling
    <3> QED BY <3>1, <3>2, <3>3
  <2>6. CASE AppendFails(c) \/ ReadRaises(c)
    <3>1. ~Warns(c)
      BY <1>1, <2>2, <2>6 DEF AppendFails, ReadRaises, Goto, Calling
    <3>2. troubles' > troubles \/ call[c].pc = "short"
      BY <2>1, <2>6 DEF AppendFails, ReadRaises, Trouble, TypesOK
    <3> QED BY <3>1, <3>2
  <2>7. CASE ReadLog(c)
    <3>1. ~Readable /\ call[c].pc = "read"
      BY <1>1, <2>2, <2>7 DEF ReadLog, Calling
    <3>2. SUFFICES ASSUME ~cut
                   PROVE  \E b \in Callers : call[b].pc = "rest"
      BY <3>1
    <3>3. Whole(file) /\ Len(file) \in Nat
      BY <2>1, <3>2, LenProperties DEF CalmOK, TypesOK
    <3>4. Len(file) % 2 = 1
      BY <2>1, <3>1, <3>3, ReadableIs, Parity
    <3> QED BY <2>1, <3>2, <3>4 DEF CalmOK
  <2> QED BY <2>3, <2>4, <2>5, <2>6, <2>7
<1>2. LogInv /\ [Next]_vars
        => [\A c \in Callers : call[c].pc # "failed" /\ call'[c].pc = "failed" => Reason(c)]_vars
  BY <1>1
<1> QED BY <1>2, LogInvariant, PTL DEF Spec, AnswersAreLostToTroubles

=============================================================================
