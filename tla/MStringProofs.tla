--------------------------- MODULE MStringProofs ----------------------------
(***************************************************************************)
(* Proofs about msplit, bins, base64 and mb64, for strings and inputs of   *)
(* any length.                                                             *)
(*                                                                         *)
(* msplit: its counters stay consistent with the string and the array for  *)
(* any separators, initial size and growth (WordsFit), and the words it    *)
(* returns are those of the definition as far as the last character of the *)
(* string allows (SplitGivesWords): up to the place where the word being   *)
(* read begins, the array holds one word for every run, in order.  What it *)
(* writes outside of its memory are the terminators that mstr.c leaves no  *)
(* room for, and nothing else.  bins inherits the words: what it has       *)
(* printed belongs to the pieces it was given.                             *)
(*                                                                         *)
(* base64: what mbase64_encode has made of data, mbase64_decode gives back: *)
(* the argument is one block, then the padding, which decodes to the zeros *)
(* the encoder filled the block with, and then the indexes.  From it, mb64 *)
(* prints the encoding of its input for buffers and pieces of any size.    *)
(***************************************************************************)
EXTENDS MBins, MMb64, FiniteSetTheorems, TLAPS

-----------------------------------------------------------------------------
(***************************************************************************)
(* The counters of msplit.                                                 *)
(***************************************************************************)
SplitTypeOK ==
    /\ splitting \in {"no", "scan", "done"}
    /\ input_string \in Seq(Characters)
    /\ seps \subseteq Characters
    /\ i \in Nat /\ word_length \in Nat /\ inword \in BOOLEAN
    /\ array_length \in Nat
    /\ split_array \in Seq(Seq(Characters))

\* The counters, and the words, which are at most as many as the array has slots.
CountersOK ==
    /\ inword => /\ word_length \in 1 .. i
                 /\ i < Len(input_string)
                 /\ \A k \in i - word_length + 1 .. i : input_string[k] \notin seps
                 /\ Len(split_array) < array_length
    /\ \A k \in DOMAIN split_array : Len(split_array[k]) > 0
    /\ Len(split_array) <= array_length

\* The invariant adds to WordsFit that the words found have slots and that an array in
\* use has a positive capacity.
SplitIInv ==
    /\ SplitTypeOK
    /\ CountersOK
    /\ outside = WithoutRoom
    /\ splitting # "no" => array_length > 0

\* The values that msplit and free_msplit reset the sequences to.
LEMMA EmptySequence ==
    /\ <<>> \in Seq(Characters) /\ <<>> \in Seq(Seq(Characters))
    /\ Len(<<>>) = 0 /\ DOMAIN <<>> = {}
  OBVIOUS

\* The strings the model enumerates are sequences.
LEMMA BoundedIsSeq ==
    ASSUME NEW S, NEW n \in Nat, NEW s \in BoundedSeq(S, n)
    PROVE  s \in Seq(S)
<1>1. PICK m \in 0 .. n : s \in [1 .. m -> S]
  BY DEF BoundedSeq, SeqOf
<1> QED
  BY <1>1

\* A word copied out of the string has the length that was counted.
LEMMA CopiedWord ==
    ASSUME NEW S, NEW s \in Seq(S), NEW p \in Nat, NEW n \in 1 .. p, p <= Len(s)
    PROVE  SubSeq(s, p - n + 1, p) \in Seq(S) /\ Len(SubSeq(s, p - n + 1, p)) = n
<1>1. \A k \in p - n + 1 .. p : k \in 1 .. Len(s)
  OBVIOUS
<1>2. \A k \in p - n + 1 .. p : s[k] \in S
  BY <1>1
<1> QED
  BY <1>2

\* The grown array has room for one word more than there is.
LEMMA GrownFits ==
    ASSUME SplitTypeOK, array_length > 0, Len(split_array) <= array_length
    PROVE  Grown \in Nat /\ Grown > 0 /\ Len(split_array) < Grown
<1>1. \A a \in Nat \ {0}, f \in Nat \ {0, 1} : a * f \in Nat /\ a * f > a
  <2> SUFFICES ASSUME NEW a \in Nat \ {0}, NEW f \in Nat \ {0, 1}
               PROVE  a * f \in Nat /\ a * f > a
    OBVIOUS
  <2>1. a * f = a + a * (f - 1)
    OBVIOUS
  <2>2. a * (f - 1) \in Nat /\ a * (f - 1) > 0
    OBVIOUS
  <2> QED
    BY <2>1, <2>2
<1>2. array_length \in Nat \ {0} /\ SPLIT_GROW_FACTOR \in Nat \ {0, 1}
  BY SplitConstants DEF SplitTypeOK
<1>3. array_length * SPLIT_GROW_FACTOR \in Nat /\ array_length * SPLIT_GROW_FACTOR > array_length
  BY <1>1, <1>2
<1>4. Len(split_array) \in Nat
  BY DEF SplitTypeOK
<1> QED
  BY <1>2, <1>3, <1>4 DEF Grown

\* Before the first call there is nothing to be consistent with.
LEMMA SplitInitial == SplitInit => SplitIInv
<1> SUFFICES ASSUME SplitInit PROVE SplitIInv
  OBVIOUS
<1>1. SplitTypeOK
  BY EmptySequence, Zenon DEF SplitInit, SplitTypeOK
<1>2. CountersOK
  BY EmptySequence DEF SplitInit, CountersOK
<1>3. outside = WithoutRoom
  BY EmptySequence DEF SplitInit, WithoutRoom
<1> QED
  BY <1>1, <1>2, <1>3 DEF SplitInit, SplitIInv

\* A call finds room for words and has not counted any character.
LEMMA BeginFits ==
    ASSUME NEW string \in Seq(Characters), NEW s \in SUBSET Characters, IsFiniteSet(s),
           msplit(string, s)
    PROVE  SplitIInv'
<1>1. SplitTypeOK'
  BY SplitConstants, EmptySequence, Zenon DEF msplit, SplitTypeOK
<1>2. CountersOK' /\ array_length' > 0
  BY SplitConstants, EmptySequence DEF msplit, CountersOK
<1>3. (outside = WithoutRoom)'
  <2>1. /\ splitting' = "scan" /\ seps' = s /\ split_array' = <<>>
        /\ outside' = Outside("seps", 0, Cardinality(s), SepsSize(s))
    BY DEF msplit
  <2>2. Outside("seps", 0, Cardinality(s), SepsSize(s))
        = {[block |-> "seps", nr |-> 0, at |-> Cardinality(S)] : S \in {s} \ {default_sep}}
    <3>1. Cardinality(s) \in Nat
      BY FS_CardinalityType
    <3>2. CASE s = default_sep
      BY <3>1, <3>2 DEF Outside, SepsSize
    <3>3. CASE s # default_sep
      BY <3>1, <3>3 DEF Outside, SepsSize
    <3> QED
      BY <3>2, <3>3
  <2> QED
    BY <2>1, <2>2, EmptySequence DEF WithoutRoom
<1> QED
  BY <1>1, <1>2, <1>3 DEF SplitIInv

\* The word that ends is what has been counted, and the array has a slot for it.
LEMMA ReadWord ==
    ASSUME SplitIInv, EndOfWord
    PROVE  LET p == Counted.i
               n == Counted.word_length
               word == SubSeq(input_string, p - n + 1, p)
           IN  /\ p \in Nat /\ n \in 1 .. p /\ p <= Len(input_string)
               /\ word \in Seq(Characters) /\ Len(word) = n
               /\ Len(split_array) < array_length
<1> DEFINE p == Counted.i
           n == Counted.word_length
<1>1. /\ p \in Nat /\ n \in 1 .. p /\ p <= Len(input_string) /\ Len(split_array) < array_length
  BY DEF EndOfWord, Scanning, AtEnd, Counted, SplitIInv, SplitTypeOK, CountersOK
<1> QED
  BY <1>1, CopiedWord DEF SplitIInv, SplitTypeOK

\* Every step keeps the counters consistent, one iteration of the loop at a time.
LEMMA SplitStepFits ==
    ASSUME SplitIInv, SplitStep
    PROVE  SplitTypeOK' /\ CountersOK' /\ array_length' > 0
<1> USE DEF SplitIInv
<1>0. splitting = "scan" /\ array_length > 0
  BY DEF SplitStep, EndOfWord, BetweenWords, BeginWord, InsideWord, FinishSplit, Scanning
<1>1. CASE EndOfWord
  <2> DEFINE p == Counted.i
             n == Counted.word_length
             word == SubSeq(input_string, p - n + 1, p)
  <2>1. /\ p \in Nat /\ n \in 1 .. p /\ p <= Len(input_string)
        /\ word \in Seq(Characters) /\ Len(word) = n /\ Len(split_array) < array_length
    BY <1>1, ReadWord
  <2> HIDE DEF p, n, word
  <2>2. /\ split_array' = Append(split_array, word)
        /\ inword' = FALSE /\ word_length' = n /\ i' = p + 1
        /\ UNCHANGED <<splitting, input_string, seps, array_length>>
    BY <1>1 DEF EndOfWord, p, n, word
  <2>3. SplitTypeOK'
    <3>1. split_array' \in Seq(Seq(Characters))
      BY <2>1, <2>2 DEF SplitTypeOK
    <3>2. i' \in Nat /\ word_length' \in Nat
      BY <2>1, <2>2
    <3> QED
      BY <2>2, <3>1, <3>2 DEF SplitTypeOK
  <2>4. \A k \in DOMAIN split_array' : Len(split_array'[k]) > 0
    BY <2>1, <2>2 DEF SplitTypeOK, CountersOK
  <2>5. Len(split_array') <= array_length'
    BY <2>1, <2>2 DEF SplitTypeOK
  <2> QED
    BY <1>0, <2>2, <2>3, <2>4, <2>5 DEF CountersOK
<1>2. CASE BetweenWords
  <2>1. i' \in Nat /\ word_length' \in Nat
    BY <1>2 DEF BetweenWords, Counted, SplitTypeOK
  <2> QED
    BY <1>0, <1>2, <2>1 DEF BetweenWords, SplitTypeOK, CountersOK
<1>3. CASE BeginWord
  <2>1. Grown \in Nat /\ Grown > 0 /\ Len(split_array) < Grown
    BY <1>3, GrownFits DEF BeginWord, Scanning, CountersOK
  <2>2. i + 1 < Len(input_string) /\ input_string[i + 1] \notin seps
    BY <1>3 DEF BeginWord, Scanning, found_sep, AtEnd, SplitTypeOK
  <2>3. SplitTypeOK'
    BY <1>3, <2>1 DEF BeginWord, SplitTypeOK
  <2>4. \A k \in i' - word_length' + 1 .. i' : input_string'[k] \notin seps'
    BY <1>3, <2>2 DEF BeginWord, SplitTypeOK
  <2> QED
    BY <1>3, <2>1, <2>2, <2>3, <2>4 DEF BeginWord, SplitTypeOK, CountersOK
<1>4. CASE InsideWord
  <2>1. i + 1 < Len(input_string) /\ input_string[i + 1] \notin seps
    BY <1>4 DEF InsideWord, Scanning, found_sep, AtEnd, SplitTypeOK
  <2>2. SplitTypeOK'
    BY <1>4 DEF InsideWord, SplitTypeOK
  <2>3. \A k \in i' - word_length' + 1 .. i' : input_string'[k] \notin seps'
    BY <1>4, <2>1 DEF InsideWord, SplitTypeOK, CountersOK
  <2> QED
    BY <1>0, <1>4, <2>1, <2>2, <2>3 DEF InsideWord, SplitTypeOK, CountersOK
<1>5. CASE FinishSplit
  BY <1>0, <1>5 DEF FinishSplit, SplitTypeOK, CountersOK
<1> QED
  BY <1>1, <1>2, <1>3, <1>4, <1>5 DEF SplitStep

\* Every step that writes a terminator writes it next to its block, or inside of the
\* array when the words do not fill it.
LEMMA SplitStepRoom ==
    ASSUME SplitIInv, SplitStep
    PROVE  (outside = WithoutRoom)'
<1>0. outside = WithoutRoom /\ Len(split_array) \in Nat /\ array_length \in Nat
      /\ DOMAIN split_array = 1 .. Len(split_array) /\ Len(split_array) <= array_length
  BY DEF SplitIInv, SplitTypeOK, CountersOK
<1>1. CASE EndOfWord
  <2> DEFINE m == Len(split_array) + 1
             word == SubSeq(input_string, Counted.i - Counted.word_length + 1, Counted.i)
             at(k) == [block |-> "word", nr |-> k, at |-> Len(split_array[k])]
             next == [block |-> "word", nr |-> m, at |-> Len(word)]
  <2>1. /\ Len(word) = Counted.word_length /\ Len(word) \in Nat /\ word \in Seq(Characters)
        /\ Len(split_array) < array_length
    BY <1>1, ReadWord
  <2>2. outside' = outside \cup {next}
    <3> DEFINE wl == Counted.word_length
    <3>1. outside' = outside \cup Outside("array", 0, Len(split_array), array_length)
                         \cup Outside("word", m, wl, wl)
      BY <1>1 DEF EndOfWord
    <3>2. wl = Len(word) /\ wl \in Nat
      BY <2>1
    <3> HIDE DEF word, wl
    <3>3. Outside("array", 0, Len(split_array), array_length) = {}
      BY <1>0, <2>1 DEF Outside
    <3>4. Outside("word", m, wl, wl) = {next}
      BY <3>2 DEF Outside
    <3> QED
      BY <3>1, <3>3, <3>4
  <2>3. /\ split_array' = Append(split_array, word)
        /\ splitting = "scan" /\ splitting' = "scan" /\ seps' = seps
    BY <1>1 DEF EndOfWord, Scanning
  <2>4. {at(k)' : k \in DOMAIN split_array'} = {at(k) : k \in DOMAIN split_array} \cup {next}
    <3> HIDE DEF word
    <3>1. split_array \in Seq(Seq(Characters))
      BY DEF SplitIInv, SplitTypeOK
    <3>2. /\ DOMAIN split_array' = (1 .. Len(split_array)) \cup {m}
          /\ split_array'[m] = word
          /\ \A k \in 1 .. Len(split_array) : split_array'[k] = split_array[k]
      BY <2>1, <2>3, <3>1
    <3> QED
      BY <1>0, <3>2
  <2> HIDE DEF next
  <2> QED
    BY <1>0, <2>2, <2>3, <2>4 DEF WithoutRoom
<1>2. CASE BetweenWords \/ BeginWord \/ InsideWord
  <2>1. UNCHANGED <<outside, splitting, seps, split_array>> /\ splitting = "scan"
    BY <1>2 DEF BetweenWords, BeginWord, InsideWord, Scanning
  <2> QED
    BY <1>0, <2>1 DEF WithoutRoom
<1>3. CASE FinishSplit
  <2>1. /\ splitting = "scan" /\ splitting' = "done" /\ UNCHANGED <<seps, split_array, array_length>>
        /\ outside' = outside \cup Outside("array", 0, Len(split_array), array_length)
    BY <1>3 DEF FinishSplit
  <2>2. Outside("array", 0, Len(split_array), array_length)
        = {[block |-> "array", nr |-> 0, at |-> k] : k \in {array_length} \cap {Len(split_array)}}
    <3>1. CASE Len(split_array) < array_length
      BY <1>0, <3>1 DEF Outside
    <3>2. CASE Len(split_array) = array_length
      BY <1>0, <3>2 DEF Outside
    <3>3. \A m, k \in Nat : m <= k => m < k \/ m = k
      OBVIOUS
    <3> QED
      BY <1>0, <3>1, <3>2, <3>3, Zenon
  <2> QED
    BY <1>0, <2>1, <2>2 DEF WithoutRoom
<1> QED
  BY <1>1, <1>2, <1>3 DEF SplitStep

\* Every step keeps the invariant.
LEMMA SplitInductive == SplitIInv /\ [SplitNext]_splitVars => SplitIInv'
<1> SUFFICES ASSUME SplitIInv, [SplitNext]_splitVars
             PROVE  SplitIInv'
  OBVIOUS
<1>1. ASSUME NEW string \in BoundedSeq(Characters, MaxString), NEW s \in Separators,
             msplit(string, s)
      PROVE  SplitIInv'
  BY <1>1, SplitConstants, BoundedIsSeq, BeginFits
<1>2. CASE SplitStep
  BY <1>2, SplitStepFits, SplitStepRoom DEF SplitIInv
<1>3. CASE free_msplit
  <2>1. SplitTypeOK'
    BY <1>3, EmptySequence, Zenon DEF free_msplit, SplitTypeOK
  <2>2. CountersOK'
    BY <1>3, EmptySequence DEF free_msplit, CountersOK
  <2>3. (outside = WithoutRoom)'
    BY <1>3, EmptySequence DEF free_msplit, WithoutRoom
  <2> QED
    BY <1>3, <2>1, <2>2, <2>3 DEF free_msplit, SplitIInv
<1>4. CASE UNCHANGED splitVars
  <2>1. SplitTypeOK' /\ CountersOK'
    BY <1>4 DEF splitVars, SplitIInv, SplitTypeOK, CountersOK
  <2>2. (outside = WithoutRoom)'
    BY <1>4 DEF splitVars, SplitIInv, WithoutRoom
  <2> QED
    BY <1>4, <2>1, <2>2 DEF splitVars, SplitIInv
<1> QED
  BY <1>1, <1>2, <1>3, <1>4 DEF SplitNext

\* msplit never writes a word behind the array, never copies more than it has seen
\* of the string (its assertion i >= word_length) and never finds an empty word; and
\* of all its writes, those outside of what it has allocated are exactly the
\* terminators of the caller's separators, of every word and of an array that the
\* words fill (mstr.c has no room for them), each in the place next to its block.
THEOREM WordsAlwaysFit == SplitSpec => []WordsFit
<1>1. SplitIInv => WordsFit
  BY DEF SplitIInv, CountersOK, WordsFit
<1> QED
  BY <1>1, SplitInitial, SplitInductive, PTL DEF SplitSpec

-----------------------------------------------------------------------------
(***************************************************************************)
(* The words, in their order.                                              *)
(***************************************************************************)
\* The runs that begin in the first p characters, and those before a run.
Found(s, S, p) == {r \in Runs(s, S) : r[1] <= p}
\* The runs that begin before a run: it is the next word after theirs.
Before(s, S, r) == {q \in Runs(s, S) : q[1] < r[1]}

\* A sequence has at its place k the word that belongs there.
IsWord(words, s, S, k) ==
    \E r \in Runs(s, S) : /\ Cardinality(Before(s, S, r)) = k - 1
                          /\ words[k] = SubSeq(s, r[1], r[2])

\* It has the word with the last character of the string, a separator, at its end.
IsLong(words, s, S, k) ==
    /\ s[Len(s)] \in S
    /\ \E r \in Runs(s, S) : /\ Cardinality(Before(s, S, r)) = k - 1
                             /\ words[k] = Append(SubSeq(s, r[1], r[2]), s[Len(s)])

\* The characters from b to e are a run.
IsRun(s, S, b, e) ==
    /\ b \in 1 .. Len(s) /\ e \in b .. Len(s)
    /\ \A k \in b .. e : s[k] \notin S
    /\ b # 1 => s[b - 1] \in S
    /\ e # Len(s) => s[e + 1] \in S

\* What it means to be a run, by its first and its last position.
LEMMA RunBounds ==
    ASSUME NEW C, NEW s \in Seq(C), NEW S, NEW r \in Runs(s, S)
    PROVE  /\ r = <<r[1], r[2]>>
           /\ r[1] \in 1 .. Len(s) /\ r[2] \in r[1] .. Len(s)
           /\ \A k \in r[1] .. r[2] : s[k] \notin S
           /\ r[1] # 1 => s[r[1] - 1] \in S
           /\ r[2] # Len(s) => s[r[2] + 1] \in S
<1>1. DOMAIN s = 1 .. Len(s) /\ Len(s) \in Nat
  OBVIOUS
<1>2. r \in (DOMAIN s) \X (DOMAIN s) /\ r[1] <= r[2]
  BY DEF Runs
<1>3. r = <<r[1], r[2]>> /\ r[1] \in 1 .. Len(s) /\ r[2] \in r[1] .. Len(s)
  BY <1>1, <1>2
<1>4. r[1] # 1 => r[1] - 1 \in DOMAIN s
  BY <1>1, <1>3
<1>5. r[2] # Len(s) => r[2] + 1 \in DOMAIN s
  BY <1>1, <1>3
<1> QED
  BY <1>3, <1>4, <1>5 DEF Runs

\* What the ends of an interval of positions have to do with the string's ends.
LEMMA Positions ==
    ASSUME NEW n \in Nat, NEW b \in 1 .. n, NEW e \in b .. n
    PROVE  /\ e \in 1 .. n /\ b <= e
           /\ b - 1 \in 1 .. n => b # 1
           /\ e + 1 \in 1 .. n => e # n
  OBVIOUS

\* A maximal stretch without separators is one of the runs.
LEMMA RunIntro ==
    ASSUME NEW C, NEW s \in Seq(C), NEW S, NEW b, NEW e, IsRun(s, S, b, e)
    PROVE  <<b, e>> \in Runs(s, S)
<1>0. /\ b \in 1 .. Len(s) /\ e \in b .. Len(s)
      /\ \A k \in b .. e : s[k] \notin S
      /\ b # 1 => s[b - 1] \in S
      /\ e # Len(s) => s[e + 1] \in S
  BY Zenon DEF IsRun
<1>1. DOMAIN s = 1 .. Len(s) /\ Len(s) \in Nat
  OBVIOUS
<1>2. /\ e \in DOMAIN s /\ b \in DOMAIN s /\ b <= e
      /\ b - 1 \in DOMAIN s => b # 1
      /\ e + 1 \in DOMAIN s => e # Len(s)
  BY <1>0, <1>1, Positions, Zenon
<1>3. <<b, e>> \in (DOMAIN s) \X (DOMAIN s)
  BY <1>2, Zenon
<1>4. /\ b - 1 \in DOMAIN s => s[b - 1] \in S
      /\ e + 1 \in DOMAIN s => s[e + 1] \in S
  BY <1>0, <1>2, Zenon
<1> QED
  BY <1>0, <1>2, <1>3, <1>4, Zenon DEF Runs

\* There are finitely many runs.
LEMMA RunsFinite ==
    ASSUME NEW C, NEW s \in Seq(C), NEW S
    PROVE  IsFiniteSet(Runs(s, S))
<1>1. DOMAIN s = 1 .. Len(s) /\ Len(s) \in Int /\ 1 \in Int
  OBVIOUS
<1>2. IsFiniteSet(DOMAIN s)
  BY <1>1, FS_Interval, Zenon
<1>3. IsFiniteSet((DOMAIN s) \X (DOMAIN s))
  BY <1>2, FS_Product, Zenon
<1>4. Runs(s, S) \subseteq (DOMAIN s) \X (DOMAIN s)
  BY DEF Runs
<1> QED
  BY <1>3, <1>4, FS_Subset, Zenon

\* A run is known by where it begins.
LEMMA SameStart ==
    ASSUME NEW C, NEW s \in Seq(C), NEW S, NEW r \in Runs(s, S), NEW q \in Runs(s, S),
           r[1] = q[1]
    PROVE  r = q
<1>1. Len(s) \in Nat
  OBVIOUS
<1>2. /\ r = <<r[1], r[2]>> /\ r[1] \in 1 .. Len(s) /\ r[2] \in r[1] .. Len(s)
      /\ \A k \in r[1] .. r[2] : s[k] \notin S
      /\ r[2] # Len(s) => s[r[2] + 1] \in S
  BY RunBounds
<1>3. /\ q = <<q[1], q[2]>> /\ q[1] \in 1 .. Len(s) /\ q[2] \in q[1] .. Len(s)
      /\ \A k \in q[1] .. q[2] : s[k] \notin S
      /\ q[2] # Len(s) => s[q[2] + 1] \in S
  BY RunBounds
<1>4. ~(r[2] < q[2])
  <2> SUFFICES ASSUME r[2] < q[2] PROVE FALSE
    OBVIOUS
  <2>1. r[2] # Len(s) /\ r[2] + 1 \in q[1] .. q[2]
    BY <1>1, <1>2, <1>3
  <2> QED
    BY <1>2, <1>3, <2>1
<1>5. ~(q[2] < r[2])
  <2> SUFFICES ASSUME q[2] < r[2] PROVE FALSE
    OBVIOUS
  <2>1. q[2] # Len(s) /\ q[2] + 1 \in r[1] .. r[2]
    BY <1>1, <1>2, <1>3
  <2> QED
    BY <1>2, <1>3, <2>1
<1>6. r[2] = q[2]
  BY <1>1, <1>2, <1>3, <1>4, <1>5
<1> QED
  BY <1>2, <1>3, <1>6

\* The k-th of Words is the word of the run with k - 1 runs before it.
LEMMA NthWord ==
    ASSUME NEW C, NEW s \in Seq(C), NEW S, NEW r \in Runs(s, S), NEW k \in Int,
           Cardinality(Before(s, S, r)) = k - 1
    PROVE  /\ k \in 1 .. Cardinality(Runs(s, S))
           /\ Words(s, S)[k] = SubSeq(s, r[1], r[2])
<1> DEFINE runs == Runs(s, S)
<1>1. IsFiniteSet(runs) /\ Cardinality(runs) \in Nat
  BY RunsFinite, FS_CardinalityType
<1>2. ASSUME NEW q \in runs, NEW t \in runs, q[1] < t[1]
      PROVE  Cardinality(Before(s, S, q)) < Cardinality(Before(s, S, t))
  <2>1. q[1] \in Int /\ t[1] \in Int /\ \A u \in runs : u[1] \in Int
    <3>1. \A u \in runs : u[1] \in 1 .. Len(s)
      BY RunBounds
    <3> QED
      BY <3>1
  <2>2. Before(s, S, q) \subseteq Before(s, S, t) /\ q \in Before(s, S, t) /\ q \notin Before(s, S, q)
    BY <1>2, <2>1 DEF Before
  <2>3. IsFiniteSet(Before(s, S, t))
    BY <1>1, FS_Subset, Before(s, S, t) \subseteq runs DEF Before
  <2>4. /\ Cardinality(Before(s, S, q)) <= Cardinality(Before(s, S, t))
        /\ Cardinality(Before(s, S, q)) # Cardinality(Before(s, S, t))
        /\ IsFiniteSet(Before(s, S, q))
    BY <2>2, <2>3, FS_Subset, Zenon
  <2>5. Cardinality(Before(s, S, q)) \in Nat /\ Cardinality(Before(s, S, t)) \in Nat
    BY <2>3, <2>4, FS_CardinalityType, Zenon
  <2> QED
    BY <2>4, <2>5
<1>3. ASSUME NEW q \in runs, Cardinality(Before(s, S, q)) = k - 1
      PROVE  q = r
  <2>1. q[1] \in 1 .. Len(s) /\ r[1] \in 1 .. Len(s)
    BY RunBounds
  <2>2. ~(q[1] < r[1]) /\ ~(r[1] < q[1])
    BY <1>2, <1>3
  <2> QED
    BY <2>1, <2>2, SameStart
<1>4. k \in 1 .. Cardinality(runs)
  <2>1. Before(s, S, r) \subseteq runs /\ r \notin Before(s, S, r)
    <3>1. r[1] \in 1 .. Len(s)
      BY RunBounds
    <3> QED
      BY <3>1 DEF Before
  <2>2. Cardinality(Before(s, S, r)) \in Nat /\ Cardinality(Before(s, S, r)) < Cardinality(runs)
    BY <1>1, <2>1, FS_Subset, FS_CardinalityType
  <2> QED
    BY <1>1, <2>2
<1>5. (CHOOSE q \in runs : Cardinality(Before(s, S, q)) = k - 1) = r
  BY <1>3
<1> QED
  BY <1>4, <1>5 DEF Words, Before

\* There are as many words as runs.
LEMMA WordsLength ==
    ASSUME NEW C, NEW s \in Seq(C), NEW S
    PROVE  /\ Cardinality(Runs(s, S)) \in Nat
           /\ Len(Words(s, S)) = Cardinality(Runs(s, S))
           /\ DOMAIN Words(s, S) = 1 .. Cardinality(Runs(s, S))
           /\ Words(s, S) = [k \in 1 .. Cardinality(Runs(s, S)) |-> Words(s, S)[k]]
<1> DEFINE before(r) == Cardinality({q \in Runs(s, S) : q[1] < r[1]})
           nth(k) == CHOOSE r \in Runs(s, S) : before(r) = k - 1
           word(k) == SubSeq(s, nth(k)[1], nth(k)[2])
<1>1. Cardinality(Runs(s, S)) \in Nat
  BY RunsFinite, FS_CardinalityType
<1>2. Words(s, S) = [k \in 1 .. Cardinality(Runs(s, S)) |-> word(k)]
  BY DEF Words
<1> HIDE DEF word
<1> QED
  BY <1>1, <1>2

-----------------------------------------------------------------------------
\* A run of which the characters before it are known to be searched is the next one.
LEMMA NextRun ==
    ASSUME NEW C, NEW s \in Seq(C), NEW S, NEW b, NEW e, IsRun(s, S, b, e)
    PROVE  /\ <<b, e>> \in Runs(s, S)
           /\ Before(s, S, <<b, e>>) = Found(s, S, b - 1)
           /\ \A p \in {e, e + 1} : /\ Found(s, S, b - 1) \subseteq Found(s, S, p)
                                    /\ <<b, e>> \in Found(s, S, p)
                                    /\ Cardinality(Found(s, S, p)) = Cardinality(Found(s, S, b - 1)) + 1
<1>0. /\ b \in 1 .. Len(s) /\ e \in b .. Len(s)
      /\ \A k \in b .. e : s[k] \notin S
      /\ b # 1 => s[b - 1] \in S
      /\ e # Len(s) => s[e + 1] \in S
  BY Zenon DEF IsRun
<1>1. Len(s) \in Nat /\ b \in Nat /\ e \in Nat /\ b <= e
  BY <1>0
<1>2. <<b, e>> \in Runs(s, S)
  BY RunIntro, Zenon
<1>3. ASSUME NEW q \in Runs(s, S)
      PROVE  /\ q[1] \in Int
             /\ q[1] <= e + 1 /\ ~(q[1] <= b - 1) => q = <<b, e>>
  <2>1. /\ q[1] \in 1 .. Len(s) /\ q[2] \in q[1] .. Len(s)
        /\ \A k \in q[1] .. q[2] : s[k] \notin S
        /\ q[1] # 1 => s[q[1] - 1] \in S
    BY RunBounds
  <2>2. q[1] = b => q = <<b, e>>
    BY <1>2, SameStart
  <2>3. ~(b < q[1] /\ q[1] <= e)
    <3> SUFFICES ASSUME b < q[1], q[1] <= e PROVE FALSE
      OBVIOUS
    <3>1. q[1] - 1 \in b .. e /\ q[1] # 1
      BY <1>0, <1>1, <2>1
    <3> QED
      BY <1>0, <2>1, <3>1
  <2>4. q[1] # e + 1
    <3> SUFFICES ASSUME q[1] = e + 1 PROVE FALSE
      OBVIOUS
    <3>1. e # Len(s) /\ q[1] \in q[1] .. q[2]
      BY <1>1, <2>1
    <3> QED
      BY <1>0, <2>1, <3>1
  <2> QED
    BY <1>1, <2>1, <2>2, <2>3, <2>4
<1>4. Before(s, S, <<b, e>>) = Found(s, S, b - 1)
  BY <1>1, <1>3 DEF Before, Found
<1>5. ASSUME NEW p \in {e, e + 1}
      PROVE  Found(s, S, p) = Found(s, S, b - 1) \cup {<<b, e>>}
  BY <1>1, <1>2, <1>3 DEF Found
<1>6. <<b, e>> \notin Found(s, S, b - 1)
  BY <1>1 DEF Found
<1>7. IsFiniteSet(Found(s, S, b - 1))
  BY RunsFinite, FS_Subset, Found(s, S, b - 1) \subseteq Runs(s, S) DEF Found
<1>8. Cardinality(Found(s, S, b - 1) \cup {<<b, e>>}) = Cardinality(Found(s, S, b - 1)) + 1
  BY <1>6, <1>7, FS_AddElement
<1> QED
  BY <1>2, <1>4, <1>5, <1>8

\* No run begins at a separator.
LEMMA NoRun ==
    ASSUME NEW C, NEW s \in Seq(C), NEW S, NEW p \in Nat, p < Len(s), s[p + 1] \in S
    PROVE  Found(s, S, p + 1) = Found(s, S, p)
<1>1. ASSUME NEW q \in Runs(s, S) PROVE q[1] \in Int /\ q[1] # p + 1
  <2>1. /\ q[1] \in 1 .. Len(s) /\ q[2] \in q[1] .. Len(s)
        /\ \A k \in q[1] .. q[2] : s[k] \notin S
    BY RunBounds
  <2>2. q[1] \in q[1] .. q[2]
    BY <2>1
  <2> QED
    BY <2>1, <2>2
<1> QED
  BY <1>1 DEF Found

\* At the start none of the runs has been found, at the end all.
LEMMA AllFound ==
    ASSUME NEW C, NEW s \in Seq(C), NEW S
    PROVE  /\ Found(s, S, 0) = {}
           /\ \A p \in Nat : p >= Len(s) => Found(s, S, p) = Runs(s, S)
<1>1. ASSUME NEW q \in Runs(s, S) PROVE q[1] \in 1 .. Len(s)
  BY RunBounds
<1> QED
  BY <1>1 DEF Found

-----------------------------------------------------------------------------
\* Where the words that have been copied end: behind it is the word being read.
Behind == IF inword THEN i - word_length ELSE i

\* In the loop, the words up to there are in the array.
WordsBehind ==
    /\ Behind = 0 \/ input_string[Behind] \in seps
    /\ Len(split_array) = Cardinality(Found(input_string, seps, Behind))
    /\ \A k \in 1 .. Len(split_array) : IsWord(split_array, input_string, seps, k)

\* After it, all words are, but the last may be missing or have a separator at its end.
WordsFound ==
    LET n == Cardinality(Runs(input_string, seps))
    IN  /\ n \in {Len(split_array), Len(split_array) + 1}
        /\ EndsCleanly(input_string, seps) => n = Len(split_array)
        /\ \A k \in 1 .. Len(split_array) :
              \/ IsWord(split_array, input_string, seps, k)
              \/ k = n /\ ~EndsCleanly(input_string, seps) /\ IsLong(split_array, input_string, seps, k)

\* What the array holds, in the loop and after it.
WordsInv ==
    splitting # "no" =>
        /\ i < Len(input_string) => WordsBehind
        /\ i >= Len(input_string) => WordsFound
        /\ splitting = "done" => i >= Len(input_string)

\* msplit begins with no words.
LEMMA BeginWords ==
    ASSUME NEW string \in Seq(Characters), NEW s \in SUBSET Characters, msplit(string, s)
    PROVE  WordsInv'
<1>1. /\ input_string' = string /\ seps' = s /\ i' = 0 /\ inword' = FALSE
      /\ split_array' = <<>> /\ splitting' = "scan"
  BY DEF msplit
<1>2. Len(split_array') = 0 /\ Behind' = 0 /\ Len(string) \in Nat
  BY <1>1 DEF Behind
<1>3. Found(string, s, 0) = {} /\ Cardinality({}) = 0
  BY AllFound, FS_EmptySet
<1>4. WordsBehind'
  <2>1. Cardinality(Found(input_string', seps', Behind')) = 0
    BY <1>1, <1>2, <1>3
  <2>2. \A k \in 1 .. 0 : IsWord(split_array', input_string', seps', k)
    OBVIOUS
  <2> QED
    BY <1>2, <2>1, <2>2 DEF WordsBehind
<1>5. i' >= Len(input_string') => WordsFound'
  <2> SUFFICES ASSUME i' >= Len(input_string') PROVE WordsFound'
    OBVIOUS
  <2>1. Runs(string, s) = {}
    BY <1>1, <1>2, <1>3, AllFound
  <2> QED
    BY <1>1, <1>2, <1>3, <2>1 DEF WordsFound
<1> QED
  BY <1>1, <1>4, <1>5 DEF WordsInv

\* A part of a string up to its last character.
LEMMA LastCharacter ==
    ASSUME NEW C, NEW s \in Seq(C), NEW b \in 1 .. Len(s) - 1
    PROVE  SubSeq(s, b, Len(s)) = Append(SubSeq(s, b, Len(s) - 1), s[Len(s)])
  OBVIOUS

\* Words already in the array stay words when another is added.
LEMMA AddWord ==
    ASSUME NEW D, NEW words \in Seq(D), NEW w \in D, NEW s, NEW S, NEW k \in 1 .. Len(words),
           IsWord(words, s, S, k)
    PROVE  IsWord(Append(words, w), s, S, k)
<1>1. Append(words, w)[k] = words[k]
  OBVIOUS
<1> QED
  BY <1>1 DEF IsWord

\* The end of a word: what is copied is the next word, if the loop has seen its end.
LEMMA EndOfWordWords ==
    ASSUME SplitIInv, WordsInv, EndOfWord
    PROVE  WordsInv'
<1> DEFINE s == input_string
           L == Len(s)
           b == i - word_length + 1
           word == SubSeq(s, Counted.i - Counted.word_length + 1, Counted.i)
           words == split_array
<1>1. /\ s \in Seq(Characters) /\ seps \subseteq Characters /\ words \in Seq(Seq(Characters))
      /\ i \in Nat /\ word_length \in 1 .. i /\ i < L /\ L \in Nat
      /\ splitting = "scan" /\ inword /\ found_sep
      /\ \A k \in b .. i : s[k] \notin seps
  BY DEF SplitIInv, SplitTypeOK, CountersOK, WithoutRoom, EndOfWord, Scanning
<1>2. Behind = b - 1 /\ b \in 1 .. i /\ b \in 1 .. L
  BY <1>1 DEF Behind
<1>3. /\ b # 1 => s[b - 1] \in seps
      /\ Len(words) = Cardinality(Found(s, seps, b - 1))
      /\ \A k \in 1 .. Len(words) : IsWord(words, s, seps, k)
  BY <1>1, <1>2 DEF WordsInv, WordsBehind
<1>4. /\ UNCHANGED <<splitting, input_string, seps>> /\ inword' = FALSE
      /\ split_array' = Append(words, word)
      /\ i' = Counted.i + 1
  BY DEF EndOfWord
<1>5. Counted.i = (IF i = L - 1 THEN L ELSE i) /\ word = SubSeq(s, b, Counted.i)
  BY <1>1 DEF Counted, AtEnd
<1>6. word \in Seq(Characters) /\ Len(word) = Counted.i - b + 1
  <2>1. /\ Counted.i \in Nat /\ Counted.word_length \in 1 .. Counted.i /\ Counted.i <= L
        /\ Counted.i - Counted.word_length + 1 = b
    BY <1>1 DEF Counted, AtEnd
  <2> HIDE DEF b
  <2>2. word \in Seq(Characters) /\ Len(word) = Counted.word_length
    BY <1>1, <2>1, CopiedWord
  <2> QED
    BY <2>1, <2>2, <1>1, <1>2
<1> HIDE DEF b, s, L, words, word
<1>7. /\ Len(words) \in Nat /\ Len(split_array') = Len(words) + 1
      /\ split_array'[Len(words) + 1] = word
      /\ \A k \in 1 .. Len(words) : split_array'[k] = words[k] /\ IsWord(split_array', s, seps, k)
  BY <1>1, <1>3, <1>4, <1>6, AddWord
<1>8. ASSUME NEW e, IsRun(s, seps, b, e)
      PROVE  /\ word = SubSeq(s, b, e) => IsWord(split_array', s, seps, Len(split_array'))
             /\ \A p \in {e, e + 1} : Cardinality(Found(s, seps, p)) = Len(words) + 1
  <2>1. /\ <<b, e>> \in Runs(s, seps) /\ Cardinality(Before(s, seps, <<b, e>>)) = Len(words)
        /\ \A p \in {e, e + 1} : Cardinality(Found(s, seps, p)) = Len(words) + 1
    <3>1. /\ <<b, e>> \in Runs(s, seps)
          /\ Before(s, seps, <<b, e>>) = Found(s, seps, b - 1)
          /\ \A p \in {e, e + 1} :
                Cardinality(Found(s, seps, p)) = Cardinality(Found(s, seps, b - 1)) + 1
      BY <1>1, <1>8, NextRun
    <3> QED
      BY <1>3, <3>1, Zenon
  <2>2. Len(words) = Len(split_array') - 1
    BY <1>7
  <2> QED
    BY <1>7, <1>8, <2>1, <2>2 DEF IsWord
<1>9. CASE i # L - 1
  <2>1. Counted.i = i /\ i \in b .. L /\ i # L /\ i + 1 < L
    BY <1>1, <1>2, <1>5, <1>9
  <2>2. s[i + 1] \in seps
    BY <1>1, <1>9 DEF found_sep, AtEnd, s, L
  <2>3. IsRun(s, seps, b, i)
    BY <1>1, <1>2, <1>3, <2>1, <2>2 DEF IsRun, L
  <2>4. /\ IsWord(split_array', s, seps, Len(split_array'))
        /\ Cardinality(Found(s, seps, i + 1)) = Len(words) + 1
    BY <1>5, <1>8, <2>1, <2>3
  <2>5. Behind' = i + 1 /\ i' = i + 1
    BY <1>4, <2>1 DEF Behind
  <2>6. \A k \in 1 .. Len(split_array') : IsWord(split_array', s, seps, k)
    BY <1>7, <2>4
  <2>7. WordsBehind'
    BY <1>4, <1>7, <2>2, <2>4, <2>5, <2>6 DEF WordsBehind, s
  <2> QED
    BY <1>1, <1>4, <2>1, <2>5, <2>7 DEF WordsInv, s, L
<1>10. CASE i = L - 1
  <2>1. Counted.i = L /\ i' = L + 1 /\ word = SubSeq(s, b, L)
    BY <1>1, <1>4, <1>5, <1>10
  <2>2. \A e \in {L, L + 1} : Found(s, seps, e) = Runs(s, seps)
    BY <1>1, AllFound DEF L, s
  <2> SUFFICES WordsFound'
    BY <1>1, <1>4, <2>1 DEF WordsInv, s, L
  <2>3. CASE s[L] \notin seps
    <3>1. \A k \in b .. L : s[k] \notin seps
      BY <1>1, <1>2, <1>10, <2>3
    <3>2. L \in b .. L
      BY <1>1, <1>2
    <3>3. IsRun(s, seps, b, L)
      BY <1>1, <1>2, <1>3, <3>1, <3>2 DEF IsRun, L
    <3>4. /\ IsWord(split_array', s, seps, Len(split_array'))
          /\ Cardinality(Runs(s, seps)) = Len(words) + 1
      BY <1>8, <2>1, <2>2, <3>3
    <3>5. \A k \in 1 .. Len(split_array') : IsWord(split_array', s, seps, k)
      BY <1>7, <3>4
    <3> QED
      BY <1>4, <1>7, <3>4, <3>5 DEF WordsFound, s
  <2>4. CASE s[L] \in seps
    <3>1. i \in b .. L /\ i # L /\ i + 1 = L
      BY <1>1, <1>2, <1>10
    <3>2. Cardinality(Runs(s, seps)) = Len(words) + 1
      <4>1. IsRun(s, seps, b, i)
        BY <1>1, <1>2, <1>3, <2>4, <3>1 DEF IsRun, L
      <4> QED
        BY <1>8, <2>2, <3>1, <4>1
    <3>3. ~EndsCleanly(s, seps)
      <4>1. L > 0 /\ L - 1 # 0 /\ L # 0 /\ L - 1 = i /\ s[i] \notin seps
        BY <1>1, <1>2, <1>10
      <4> QED
        BY <2>4, <4>1 DEF EndsCleanly, L
    <3>4. IsLong(split_array', s, seps, Len(split_array'))
      <4>1. /\ <<b, i>> \in Runs(s, seps)
            /\ Cardinality(Before(s, seps, <<b, i>>)) = Len(split_array') - 1
        <5>1. IsRun(s, seps, b, i)
          BY <1>1, <1>2, <1>3, <2>4, <3>1 DEF IsRun, L
        <5>2. /\ <<b, i>> \in Runs(s, seps)
              /\ Before(s, seps, <<b, i>>) = Found(s, seps, b - 1)
          BY <1>1, <5>1, NextRun
        <5>3. Cardinality(Before(s, seps, <<b, i>>)) = Len(words)
          BY <1>3, <5>2, Zenon
        <5> QED
          BY <1>7, <5>2, <5>3
      <4>2. SubSeq(s, b, L) = Append(SubSeq(s, b, i), s[L])
        BY <1>1, <1>2, <1>10, LastCharacter DEF L
      <4>3. split_array'[Len(split_array')] = Append(SubSeq(s, b, i), s[L])
        BY <1>7, <2>1, <4>2
      <4> DEFINE q == <<b, i>>
      <4>4. q[1] = b /\ q[2] = i
        OBVIOUS
      <4> HIDE DEF q
      <4> QED
        BY <2>4, <4>1, <4>3, <4>4 DEF IsLong, L, q
    <3>5. WordsFound'
      BY <1>4, <1>7, <3>2, <3>3, <3>4 DEF WordsFound, s
    <3> QED
      BY <3>5
  <2> QED
    BY <2>3, <2>4
<1> QED
  BY <1>9, <1>10

\* Between words: a word of one character at the end of the string is passed over.
LEMMA BetweenWordsWords ==
    ASSUME SplitIInv, WordsInv, BetweenWords
    PROVE  WordsInv'
<1> DEFINE s == input_string
           L == Len(s)
<1>1. /\ s \in Seq(Characters) /\ seps \subseteq Characters
      /\ i \in Nat /\ i < L /\ L \in Nat
      /\ splitting = "scan" /\ ~inword /\ found_sep /\ Len(split_array) \in Nat
  BY DEF SplitIInv, SplitTypeOK, BetweenWords, Scanning
<1>2. /\ i # 0 => s[i] \in seps
      /\ Len(split_array) = Cardinality(Found(s, seps, i))
      /\ \A k \in 1 .. Len(split_array) : IsWord(split_array, s, seps, k)
  BY <1>1 DEF WordsInv, WordsBehind, Behind
<1>3. /\ UNCHANGED <<splitting, input_string, seps, inword, split_array>>
      /\ i' = IF i = L - 1 THEN L + 1 ELSE i + 1
  BY <1>1 DEF BetweenWords, Counted, AtEnd
<1> HIDE DEF s, L
<1>4. CASE i # L - 1
  <2>1. s[i + 1] \in seps
    BY <1>1, <1>4 DEF found_sep, AtEnd, s, L
  <2>2. Found(s, seps, i + 1) = Found(s, seps, i)
    BY <1>1, <2>1, NoRun DEF L
  <2>3. i' = i + 1 /\ Behind' = i + 1 /\ i + 1 < L
    BY <1>1, <1>3, <1>4 DEF Behind
  <2>4. WordsBehind'
    BY <1>2, <1>3, <2>1, <2>2, <2>3 DEF WordsBehind, s
  <2> QED
    BY <1>1, <1>3, <2>3, <2>4 DEF WordsInv, s, L
<1>5. CASE i = L - 1
  <2>1. i' = L + 1
    BY <1>3, <1>5
  <2>2. \A e \in {L, L + 1} : Found(s, seps, e) = Runs(s, seps)
    BY <1>1, AllFound DEF L, s
  <2> SUFFICES WordsFound'
    BY <1>1, <1>3, <2>1 DEF WordsInv, s, L
  <2>3. CASE s[L] \in seps
    <3>1. Found(s, seps, i + 1) = Found(s, seps, i) /\ i + 1 = L
      BY <1>1, <1>5, <2>3, NoRun DEF L
    <3>2. Cardinality(Runs(s, seps)) = Len(split_array)
      BY <1>2, <2>2, <3>1
    <3> QED
      BY <1>2, <1>3, <3>2 DEF WordsFound, s
  <2>4. CASE s[L] \notin seps
    <3>1. L \in 1 .. L /\ L \in L .. L /\ L - 1 = i /\ L > 0 /\ L # 0 /\ (L # 1 => i # 0)
      BY <1>1, <1>5
    <3>2. (\A k \in L .. L : s[k] \notin seps) /\ (L # 1 => s[L - 1] \in seps)
      BY <1>1, <1>2, <2>4, <3>1
    <3>3. Cardinality(Runs(s, seps)) = Len(split_array) + 1
      <4>1. IsRun(s, seps, L, L)
        BY <1>1, <3>1, <3>2 DEF IsRun, L
      <4>2. /\ <<L, L>> \in Runs(s, seps)
            /\ \A p \in {L, L + 1} :
                  Cardinality(Found(s, seps, p)) = Cardinality(Found(s, seps, L - 1)) + 1
        BY <1>1, <4>1, NextRun
      <4> QED
        BY <1>2, <2>2, <3>1, <4>2
    <3>4. ~EndsCleanly(s, seps)
      BY <1>2, <2>4, <3>1 DEF EndsCleanly, L
    <3> QED
      BY <1>1, <1>2, <1>3, <3>3, <3>4 DEF WordsFound, s
  <2> QED
    BY <2>3, <2>4
<1> QED
  BY <1>4, <1>5

\* The other steps of the loop read on and leave the array alone.
LEMMA SplitStepWords ==
    ASSUME SplitIInv, WordsInv, SplitStep
    PROVE  WordsInv'
<1>1. CASE BeginWord
  <2>1. /\ i \in Nat /\ i + 1 < Len(input_string) /\ splitting = "scan" /\ ~inword
    BY <1>1 DEF BeginWord, Scanning, found_sep, AtEnd, SplitIInv, SplitTypeOK
  <2>2. /\ UNCHANGED <<splitting, input_string, seps, split_array>> /\ i' = i + 1
        /\ Behind' = Behind
    BY <1>1, <2>1 DEF BeginWord, Behind
  <2> QED
    BY <2>1, <2>2 DEF WordsInv, WordsBehind
<1>2. CASE InsideWord
  <2>1. /\ i \in Nat /\ word_length \in Nat /\ i + 1 < Len(input_string) /\ splitting = "scan"
        /\ inword
    BY <1>2 DEF InsideWord, Scanning, found_sep, AtEnd, SplitIInv, SplitTypeOK
  <2>2. /\ UNCHANGED <<splitting, input_string, seps, split_array>> /\ i' = i + 1
        /\ Behind' = Behind
    BY <1>2, <2>1 DEF InsideWord, Behind
  <2> QED
    BY <2>1, <2>2 DEF WordsInv, WordsBehind
<1>3. CASE FinishSplit
  BY <1>3 DEF FinishSplit, WordsInv, WordsFound, SplitIInv, SplitTypeOK
<1> QED
  BY <1>1, <1>2, <1>3, EndOfWordWords, BetweenWordsWords DEF SplitStep

\* What is right about the array in the terms of the definition of words.
LEMMA FoundWords ==
    ASSUME SplitIInv, WordsInv, splitting = "done"
    PROVE  LET words == Words(input_string, seps)
               n == Len(words)
           IN  /\ n \in {Len(split_array), Len(split_array) + 1}
               /\ EndsCleanly(input_string, seps) => split_array = words
               /\ \A k \in 1 .. Len(split_array) :
                     \/ k \in 1 .. n /\ split_array[k] = words[k]
                     \/ /\ k \in 1 .. n /\ k = n /\ ~EndsCleanly(input_string, seps)
                        /\ input_string[Len(input_string)] \in seps
                        /\ split_array[k] = Append(words[k], input_string[Len(input_string)])
<1> DEFINE words == Words(input_string, seps)
           n == Len(words)
           right(k) == k \in 1 .. n /\ split_array[k] = words[k]
           long(k) == /\ k \in 1 .. n /\ k = n /\ ~EndsCleanly(input_string, seps)
                      /\ input_string[Len(input_string)] \in seps
                      /\ split_array[k] = Append(words[k], input_string[Len(input_string)])
<1>1. input_string \in Seq(Characters) /\ split_array \in Seq(Seq(Characters)) /\ WordsFound
  BY DEF SplitIInv, SplitTypeOK, WordsInv
<1>2. /\ n = Cardinality(Runs(input_string, seps)) /\ n \in Nat /\ DOMAIN words = 1 .. n
      /\ words = [k \in 1 .. n |-> words[k]]
  BY <1>1, WordsLength, Zenon
<1>3. ASSUME NEW k \in 1 .. Len(split_array)
      PROVE  right(k) \/ long(k)
  <2>0. \A q \in Runs(input_string, seps), m \in Int :
            Cardinality(Before(input_string, seps, q)) = m - 1 =>
                /\ m \in 1 .. Cardinality(Runs(input_string, seps))
                /\ Words(input_string, seps)[m] = SubSeq(input_string, q[1], q[2])
    BY <1>1, NthWord, Zenon
  <2>1. CASE IsWord(split_array, input_string, seps, k)
    <3>1. PICK r \in Runs(input_string, seps) :
              /\ Cardinality(Before(input_string, seps, r)) = k - 1
              /\ split_array[k] = SubSeq(input_string, r[1], r[2])
      BY <2>1 DEF IsWord
    <3>2. k \in 1 .. Cardinality(Runs(input_string, seps))
          /\ words[k] = SubSeq(input_string, r[1], r[2])
      BY <2>0, <3>1
    <3> QED
      BY <1>2, <3>1, <3>2
  <2>2. CASE ~IsWord(split_array, input_string, seps, k)
    <3>1. k = n /\ ~EndsCleanly(input_string, seps) /\ IsLong(split_array, input_string, seps, k)
      BY <1>1, <1>2, <2>2 DEF WordsFound
    <3>2. PICK r \in Runs(input_string, seps) :
              /\ Cardinality(Before(input_string, seps, r)) = k - 1
              /\ split_array[k] = Append(SubSeq(input_string, r[1], r[2]),
                                         input_string[Len(input_string)])
      BY <3>1 DEF IsLong
    <3>3. k \in 1 .. Cardinality(Runs(input_string, seps))
          /\ words[k] = SubSeq(input_string, r[1], r[2])
      BY <2>0, <3>2
    <3> QED
      BY <1>2, <3>1, <3>2, <3>3 DEF IsLong
  <2> QED
    BY <2>1, <2>2
<1>4. n \in {Len(split_array), Len(split_array) + 1}
      /\ (EndsCleanly(input_string, seps) => n = Len(split_array))
  BY <1>1, <1>2 DEF WordsFound
<1>5. EndsCleanly(input_string, seps) => split_array = words
  <2> SUFFICES ASSUME EndsCleanly(input_string, seps) PROVE split_array = words
    OBVIOUS
  <2> HIDE DEF words
  <2>1. DOMAIN split_array = 1 .. n /\ \A k \in 1 .. n : split_array[k] = words[k]
    BY <1>1, <1>3, <1>4
  <2>2. split_array = [k \in 1 .. n |-> split_array[k]]
    BY <1>1, <2>1
  <2> QED
    BY <1>2, <2>1, <2>2
<1> QED
  BY <1>3, <1>4, <1>5

\* msplit finds the words.
THEOREM MsplitFindsWords == SplitSpec => []SplitGivesWords
<1>1. SplitInit => WordsInv
  BY DEF SplitInit, WordsInv
<1>2. SplitIInv /\ WordsInv /\ [SplitNext]_splitVars => WordsInv'
  <2> SUFFICES ASSUME SplitIInv, WordsInv, [SplitNext]_splitVars PROVE WordsInv'
    OBVIOUS
  <2>1. ASSUME NEW string \in BoundedSeq(Characters, MaxString), NEW s \in Separators,
               msplit(string, s)
        PROVE  WordsInv'
    BY <2>1, SplitConstants, BoundedIsSeq, BeginWords
  <2>2. CASE free_msplit
    BY <2>2 DEF free_msplit, WordsInv
  <2>3. CASE UNCHANGED splitVars
    BY <2>3 DEF splitVars, WordsInv, WordsBehind, WordsFound, Behind
  <2> QED
    BY <2>1, <2>2, <2>3, SplitStepWords DEF SplitNext
<1>3. SplitIInv /\ WordsInv => SplitGivesWords
  <2> SUFFICES ASSUME SplitIInv, WordsInv, splitting = "done"
               PROVE  LET words == Words(input_string, seps)
                      IN  /\ EndsCleanly(input_string, seps) => split_array = words
                          /\ Len(words) - Len(split_array) \in {0, 1}
                          /\ \A k \in 1 .. Len(words) - 1 : split_array[k] = words[k]
    BY DEF SplitGivesWords
  <2>1. Len(split_array) \in Nat
    BY DEF SplitIInv, SplitTypeOK
  <2> QED
    BY <2>1, FoundWords
<1> QED
  BY <1>1, <1>2, <1>3, SplitInitial, SplitInductive, PTL DEF SplitSpec

-----------------------------------------------------------------------------
(***************************************************************************)
(* bins: what has been printed is what find_bins prints for the pieces it  *)
(* has been called for.                                                    *)
(***************************************************************************)
BinsCall ==
    /\ splitting # "no" /\ input_string = PATH /\ seps = {Colon}
    /\ piece \in 0 .. Len(split_array)
    /\ splitting = "scan" => piece = 0
    /\ output = UNION {find_bins(split_array[k]) : k \in 1 .. piece}

\* A call of msplit belongs to bins, which has printed nothing before its first
\* piece.
BinsIInv ==
    /\ SplitIInv /\ WordsInv
    /\ bins \in {"idle", "main", "exited"}
    /\ bins # "main" => splitting = "no"
    /\ bins = "idle" => piece = 0 /\ output = {}
    /\ bins = "main" => BinsCall
    /\ BinsListsExecutables

\* Nothing has been searched.
LEMMA BinsInitial == BinsInit => BinsIInv
<1> SUFFICES ASSUME BinsInit PROVE BinsIInv
  OBVIOUS
<1>1. SplitIInv /\ SplitInit
  BY SplitInitial DEF BinsInit
<1>2. WordsInv
  BY <1>1 DEF SplitInit, WordsInv
<1> QED
  BY <1>1, <1>2 DEF BinsInit, SplitInit, BinsIInv, BinsListsExecutables

\* When all the pieces have been searched, the directories of PATH have been, and
\* nothing else but what has the last one's name with a colon at its end.
LEMMA AllSearched ==
    ASSUME BinsIInv, BinsExit
    PROVE  BinsListsExecutables'
<1> DEFINE dirs == Words(PATH, {Colon})
           searched == {k \in DOMAIN dirs : k < Len(dirs) \/ EndsCleanly(PATH, {Colon})}
           executables == {e \in dirents : e.type \in {"DT_REG", "DT_LNK"} /\ e.stat = "executable"}
           misread == {Append(dirs[k], Colon) :
                          k \in {m \in DOMAIN dirs : m = Len(dirs) /\ PATH[Len(PATH)] = Colon}}
           n == Len(dirs)
           words == split_array
<1>1. /\ splitting = "done" /\ input_string = PATH /\ seps = {Colon} /\ SplitIInv /\ WordsInv
      /\ output = UNION {find_bins(words[k]) : k \in 1 .. Len(words)}
  BY DEF BinsIInv, BinsCall, BinsExit
<1>2. PATH \in Seq(Characters) /\ words \in Seq(Seq(Characters)) /\ Len(words) \in Nat
  BY <1>1 DEF SplitIInv, SplitTypeOK
<1>3. n \in Nat /\ DOMAIN dirs = 1 .. n
  BY <1>2, WordsLength
<1>4. /\ n \in {Len(words), Len(words) + 1}
      /\ EndsCleanly(PATH, {Colon}) => words = dirs
      /\ \A k \in 1 .. Len(words) :
            \/ k \in 1 .. n /\ words[k] = dirs[k]
            \/ /\ k \in 1 .. n /\ k = n /\ ~EndsCleanly(PATH, {Colon}) /\ PATH[Len(PATH)] = Colon
               /\ words[k] = Append(dirs[k], Colon)
  BY <1>1, FoundWords
<1> HIDE DEF dirs, n, words
<1>5. ASSUME NEW k \in searched, NEW e \in executables, dirs[k] \in BinDirectories
      PROVE  <<dirs[k], e>> \in output
  <2>1. k \in 1 .. Len(words) /\ words[k] = dirs[k]
    <3>1. k \in 1 .. n /\ (k < n \/ EndsCleanly(PATH, {Colon}))
      BY <1>3 DEF n
    <3>2. CASE EndsCleanly(PATH, {Colon})
      BY <1>4, <3>1, <3>2 DEF n
    <3>3. CASE ~EndsCleanly(PATH, {Colon})
      BY <1>2, <1>3, <1>4, <3>1, <3>3
    <3> QED
      BY <3>2, <3>3
  <2>2. <<dirs[k], e>> \in find_bins(words[k])
    BY <1>5, <2>1 DEF find_bins, Printed
  <2> QED
    BY <1>1, <2>1, <2>2
<1>6. ASSUME NEW o \in output
      PROVE  /\ o[1] \in ToSet(dirs) \/ (o[1] \in misread /\ ~EndsCleanly(PATH, {Colon}))
             /\ o[2] \in dirents /\ o[2].type \in {"DT_REG", "DT_LNK"} /\ o[2].stat # "fails"
  <2>1. PICK k \in 1 .. Len(words) : o \in find_bins(words[k])
    BY <1>1
  <2>2. /\ o[1] = words[k] /\ o[2] \in dirents
        /\ o[2].type \in {"DT_REG", "DT_LNK"} /\ o[2].stat # "fails"
    BY <2>1 DEF find_bins, Printed
  <2>3. CASE k \in 1 .. n /\ words[k] = dirs[k]
    BY <1>3, <2>2, <2>3 DEF ToSet
  <2>4. CASE ~(k \in 1 .. n /\ words[k] = dirs[k])
    BY <1>3, <1>4, <2>2, <2>4 DEF n
  <2> QED
    BY <2>2, <2>3, <2>4
<1>7. UNCHANGED <<PATH, dirents, output>>
  BY DEF BinsExit
<1> QED
  BY <1>5, <1>6, <1>7 DEF BinsListsExecutables, dirs

\* Every step of bins keeps the output in accord with the pieces searched.
LEMMA BinsInductive == BinsIInv /\ [BinsNext]_<<binsVars, splitVars>> => BinsIInv'
<1> SUFFICES ASSUME BinsIInv, [BinsNext]_<<binsVars, splitVars>> PROVE BinsIInv'
  OBVIOUS
<1>0. SplitIInv /\ WordsInv
  BY DEF BinsIInv
<1>1. ASSUME NEW path \in BoundedSeq(Characters, MaxString), NEW contents \in Listings,
             BinsMain(path, contents)
      PROVE  BinsIInv'
  <2>1. /\ path \in Seq(Characters) /\ {Colon} \in SUBSET Characters /\ IsFiniteSet({Colon})
        /\ msplit(path, {Colon})
    BY <1>1, SplitConstants, BinsConstants, BoundedIsSeq, FS_Singleton DEF BinsMain
  <2>2. SplitIInv' /\ WordsInv'
    BY <2>1, BeginFits, BeginWords
  <2>3. /\ bins' = "main" /\ PATH' = path /\ piece' = 0 /\ output' = {}
        /\ splitting' = "scan" /\ input_string' = path /\ seps' = {Colon}
    BY <1>1, <2>1 DEF BinsMain, BinsIInv, msplit
  <2>4. BinsCall'
    <3>1. Len(split_array') \in Nat
      BY <2>2 DEF SplitIInv, SplitTypeOK
    <3> QED
      BY <2>3, <3>1 DEF BinsCall
  <2> QED
    BY <2>2, <2>3, <2>4 DEF BinsIInv, BinsListsExecutables
<1>2. CASE BinsSplit
  <2>1. /\ SplitStep /\ bins = "main" /\ BinsCall
        /\ UNCHANGED <<bins, PATH, dirents, piece, output>>
    BY <1>2 DEF BinsSplit, binsVars, BinsIInv
  <2>2. SplitIInv' /\ WordsInv'
    BY <1>0, <2>1, SplitInductive, SplitStepWords DEF SplitNext
  <2>3. /\ splitting = "scan" /\ splitting' \in {"scan", "done"}
        /\ UNCHANGED <<input_string, seps>>
    BY <2>1 DEF SplitStep, EndOfWord, BetweenWords, BeginWord, InsideWord, FinishSplit, Scanning
  <2>4. BinsCall'
    <3>1. Len(split_array') \in Nat /\ piece = 0 /\ output = {}
      BY <2>1, <2>2, <2>3 DEF SplitIInv, SplitTypeOK, BinsCall
    <3> QED
      BY <2>1, <2>3, <3>1 DEF BinsCall
  <2> QED
    BY <2>1, <2>2, <2>4 DEF BinsIInv, BinsListsExecutables
<1>3. CASE BinsNextPiece
  <2>1. /\ bins = "main" /\ splitting = "done" /\ piece < Len(split_array) /\ BinsCall
        /\ piece' = piece + 1
        /\ output' = output \cup find_bins(split_array[piece + 1])
        /\ UNCHANGED <<bins, PATH, dirents, splitVars>>
    BY <1>3 DEF BinsNextPiece, BinsIInv
  <2>2. SplitIInv' /\ WordsInv'
    BY <1>0, <2>1 DEF splitVars, SplitIInv, SplitTypeOK, CountersOK, WithoutRoom, WordsInv, WordsBehind,
                      WordsFound, Behind
  <2>3. piece \in Nat /\ Len(split_array) \in Nat
    BY <1>0, <2>1 DEF BinsCall, SplitIInv, SplitTypeOK
  <2>4. output' = UNION {find_bins(split_array[k]) : k \in 1 .. piece + 1}
    <3>1. 1 .. piece + 1 = (1 .. piece) \cup {piece + 1}
      BY <2>3
    <3> QED
      BY <2>1, <3>1 DEF BinsCall
  <2>5. BinsCall'
    <3>1. (UNION {find_bins(split_array[k]) : k \in 1 .. piece})'
          = UNION {find_bins(split_array[k]) : k \in 1 .. piece + 1}
      BY <2>1 DEF splitVars, find_bins
    <3> QED
      BY <2>1, <2>3, <2>4, <3>1 DEF splitVars, BinsCall
  <2> QED
    BY <2>1, <2>2, <2>5 DEF BinsIInv, BinsListsExecutables
<1>4. CASE BinsExit
  <2>1. /\ free_msplit /\ bins' = "exited"
    BY <1>4 DEF BinsExit
  <2>2. SplitIInv' /\ WordsInv' /\ splitting' = "no"
    BY <1>0, <2>1, SplitInductive DEF SplitNext, free_msplit, WordsInv
  <2> QED
    BY <1>4, <2>1, <2>2, AllSearched DEF BinsIInv
<1>5. CASE BinsEnded
  <2>1. /\ bins = "exited" /\ bins' = "idle" /\ piece' = 0 /\ output' = {} /\ UNCHANGED splitVars
    BY <1>5 DEF BinsEnded
  <2>2. SplitIInv' /\ WordsInv' /\ splitting' = "no"
    BY <1>0, <2>1 DEF BinsIInv, splitVars, SplitIInv, SplitTypeOK, CountersOK, WithoutRoom, WordsInv
  <2> QED
    BY <2>1, <2>2 DEF BinsIInv, BinsListsExecutables
<1>6. CASE UNCHANGED <<binsVars, splitVars>>
  <2>1. SplitIInv' /\ WordsInv'
    BY <1>0, <1>6 DEF splitVars, SplitIInv, SplitTypeOK, CountersOK, WithoutRoom, WordsInv, WordsBehind,
                      WordsFound, Behind
  <2>2. BinsCall' = BinsCall
    BY <1>6 DEF binsVars, splitVars, BinsCall, find_bins
  <2>3. BinsListsExecutables' = BinsListsExecutables
    BY <1>6 DEF binsVars, BinsListsExecutables
  <2> QED
    BY <1>6, <2>1, <2>2, <2>3 DEF binsVars, splitVars, BinsIInv
<1> QED
  BY <1>1, <1>2, <1>3, <1>4, <1>5, <1>6 DEF BinsNext

\* bins prints the executables of every directory of PATH but perhaps the last, whose
\* piece msplit may lose or leave a colon in.  Whatever the directories are called,
\* nothing comes from another one but that which has the last one's name and the
\* colon; files that are no executables are printed as well (find_bins called for
\* every piece of msplit's array).
THEOREM BinsSearchesPath == BinsSpec => []BinsListsExecutables
<1>1. BinsIInv => BinsListsExecutables
  BY DEF BinsIInv
<1> QED
  BY <1>1, BinsInitial, BinsInductive, PTL DEF BinsSpec

-----------------------------------------------------------------------------
(***************************************************************************)
(* base64.                                                                 *)
(***************************************************************************)
Sextets == 0 .. 63

\* The encoder's conversion yields numbers of six bits.
LEMMA ToSextets ==
    ASSUME NEW x \in Octets, NEW y \in Octets, NEW z \in Octets, NEW j \in 1 .. 4
    PROVE  convert_to_b64(x, y, z)[j] \in Sextets
<1>1. x \in Int /\ y \in Int /\ z \in Int
  BY DEF Octets
<1>2. \A v \in Int : v % 64 \in Sextets
  BY DEF Sextets
<1>3. /\ x \div 4 \in Int
      /\ x * 16 + (y \div 16) \in Int
      /\ y * 4 + (z \div 64) \in Int
  BY <1>1
<1>4. /\ (x \div 4) % 64 \in Sextets
      /\ (x * 16 + (y \div 16)) % 64 \in Sextets
      /\ (y * 4 + (z \div 64)) % 64 \in Sextets
      /\ z % 64 \in Sextets
  BY <1>1, <1>2, <1>3
<1> QED
  BY <1>4 DEF convert_to_b64

\* The two conversions are inverse to each other: no bit of a block is lost.
LEMMA BlockRoundTrip ==
    ASSUME NEW x \in Octets, NEW y \in Octets, NEW z \in Octets
    PROVE  LET c == convert_to_b64(x, y, z)
           IN  convert_from_b64(c[1], c[2], c[3], c[4]) = <<x, y, z>>
<1> DEFINE c1 == (x \div 4) % 64
           c2 == (x * 16 + (y \div 16)) % 64
           c3 == (y * 4 + (z \div 64)) % 64
           c4 == z % 64
<1>1. convert_to_b64(x, y, z) = <<c1, c2, c3, c4>>
  BY DEF convert_to_b64
<1>a. /\ x \in Int /\ 0 <= x /\ x <= 255
      /\ y \in Int /\ 0 <= y /\ y <= 255
      /\ z \in Int /\ 0 <= z /\ z <= 255
  BY DEF Octets
<1>b. /\ c1 = x \div 4
      /\ c2 = 16 * (x % 4) + (y \div 16)
      /\ c3 = 4 * (y % 16) + (z \div 64)
  BY <1>a
<1>2. ((c1 * 4) % 256) + (c2 \div 16) = x
  BY <1>a, <1>b
<1>3. ((c2 * 16) % 256) + (c3 \div 4) = y
  BY <1>a, <1>b
<1>4. ((c3 * 64) % 256) + c4 = z
  BY <1>a, <1>b
<1> HIDE DEF c1, c2, c3, c4
<1> QED
  BY <1>1, <1>2, <1>3, <1>4 DEF convert_from_b64

-----------------------------------------------------------------------------
\* Octets beyond the end of the data count as zero.
LEMMA OctetAtType ==
    ASSUME NEW data \in Seq(Octets), NEW n \in Nat \ {0}
    PROVE  OctetAt(data, n) \in Octets
<1>1. CASE n <= Len(data)
  BY <1>1, n \in DOMAIN data DEF OctetAt
<1>2. CASE ~(n <= Len(data))
  BY <1>2 DEF OctetAt, Octets
<1> QED
  BY <1>1, <1>2

\* Where there is no padding the encoded character is a number of six bits, and
\* with it or without, the decoder's table gives the number of the block back.
LEMMA CharDecodes ==
    ASSUME NEW data \in Seq(Octets), NEW b \in Nat, NEW j \in 1 .. 4, 3 * b < Len(data)
    PROVE  /\ EncodedChar(data, b, j) = Pad <=> 3 * b + j > Len(data) + 1
           /\ b64_alphabet_reverse(EncodedChar(data, b, j)) = EncodedBlock(data, b)[j]
<1> DEFINE x == OctetAt(data, 3 * b + 1)
           y == OctetAt(data, 3 * b + 2)
           z == OctetAt(data, 3 * b + 3)
<1>1. x \in Octets /\ y \in Octets /\ z \in Octets
  BY OctetAtType
<1>2. EncodedBlock(data, b)[j] \in Sextets
  BY <1>1, ToSextets DEF EncodedBlock
<1>3. CASE 3 * b + j > Len(data) + 1
  <2>1. EncodedChar(data, b, j) = Pad
    BY <1>3 DEF EncodedChar
  <2>2. z = 0 /\ (j = 3 => y = 0) /\ j \in {3, 4}
    BY <1>3 DEF OctetAt
  <2>3. EncodedBlock(data, b)[j] = 0
    <3>1. CASE j = 3
      BY <2>2, <3>1 DEF EncodedBlock, convert_to_b64
    <3>2. CASE j = 4
      BY <2>2, <3>2 DEF EncodedBlock, convert_to_b64
    <3> QED BY <2>2, <3>1, <3>2
  <2> QED
    BY <1>3, <2>1, <2>3 DEF b64_alphabet_reverse, Pad
<1>4. CASE ~(3 * b + j > Len(data) + 1)
  <2>1. EncodedChar(data, b, j) = EncodedBlock(data, b)[j]
    BY <1>4 DEF EncodedChar
  <2>2. EncodedChar(data, b, j) \in Int /\ EncodedChar(data, b, j) < 64
    <3>1. EncodedChar(data, b, j) \in Sextets
      BY <1>2, <2>1, Zenon
    <3>2. \A v \in Sextets : v \in Int /\ v < 64
      BY DEF Sextets
    <3> QED
      BY <3>1, <3>2, Zenon
  <2>3. EncodedChar(data, b, j) # Pad
    BY <2>2 DEF Pad
  <2>4. b64_alphabet_reverse(EncodedChar(data, b, j)) = EncodedChar(data, b, j)
    BY <2>2 DEF b64_alphabet_reverse
  <2> QED
    BY <1>4, <2>1, <2>3, <2>4
<1> QED
  BY <1>3, <1>4

\* The length of the encoding, and the block and position of each character.
LEMMA EncodedIndex ==
    ASSUME NEW data \in Seq(Octets)
    PROVE  /\ Len(mbase64_encode(data)) = 4 * ((Len(data) + 2) \div 3)
           /\ \A b \in Nat, j \in 1 .. 4 : 3 * b < Len(data) =>
                  mbase64_encode(data)[4 * b + j] = EncodedChar(data, b, j)
<1> DEFINE m == (Len(data) + 2) \div 3
<1>1. m \in Nat
  OBVIOUS
<1>2. Len(mbase64_encode(data)) = 4 * m
  BY <1>1 DEF mbase64_encode
<1>3. ASSUME NEW b \in Nat, NEW j \in 1 .. 4, 3 * b < Len(data)
      PROVE  mbase64_encode(data)[4 * b + j] = EncodedChar(data, b, j)
  <2>1. 4 * b + j \in 1 .. 4 * m
    BY <1>3
  <2>2. (4 * b + j - 1) \div 4 = b /\ ((4 * b + j - 1) % 4) + 1 = j
    BY <1>3
  <2> QED
    BY <2>1, <2>2 DEF mbase64_encode
<1> QED
  BY <1>2, <1>3

\* The decoder counts the padding that the encoder wrote.
LEMMA PaddingMatches ==
    ASSUME NEW data \in Seq(Octets)
    PROVE  3 * (Len(mbase64_encode(data)) \div 4) - Padding(mbase64_encode(data)) = Len(data)
<1> DEFINE n == Len(data)
           m == (n + 2) \div 3
           s == mbase64_encode(data)
<1>1. Len(s) = 4 * m /\ m \in Nat /\ n \in Nat
  BY EncodedIndex
<1>2. CASE n = 0
  BY <1>1, <1>2 DEF Padding
<1>3. CASE n > 0
  <2>1. m - 1 \in Nat /\ 3 * (m - 1) < n /\ n <= 3 * m
    BY <1>1, <1>3
  <2>2. s[4 * (m - 1) + 4] = EncodedChar(data, m - 1, 4) /\ s[4 * (m - 1) + 3] = EncodedChar(data, m - 1, 3)
    BY <2>1, EncodedIndex
  <2>3. /\ s[4 * m] = Pad <=> 3 * (m - 1) + 4 > n + 1
        /\ s[4 * m - 1] = Pad <=> 3 * (m - 1) + 3 > n + 1
    <3>1. 4 * (m - 1) + 4 = 4 * m /\ 4 * (m - 1) + 3 = 4 * m - 1
      BY <1>1
    <3> QED
      BY <2>1, <2>2, <3>1, CharDecodes
  <2> HIDE DEF s, m
  <2>4. (4 * m) \div 4 = m /\ 4 * m > 3
    BY <1>1, <2>1
  <2>5. Padding(s) = (IF s[4 * m] = Pad THEN 1 ELSE 0) + (IF s[4 * m - 1] = Pad THEN 1 ELSE 0)
    BY <1>1, <2>4 DEF Padding
  <2>6. n \in {3 * m - 2, 3 * m - 1, 3 * m}
    BY <1>1, <2>1
  <2>7. 3 * m - Padding(s) = n
    <3>1. CASE n = 3 * m
      BY <1>1, <2>3, <2>5, <3>1
    <3>2. CASE n = 3 * m - 1
      BY <1>1, <2>3, <2>5, <3>2
    <3>3. CASE n = 3 * m - 2
      BY <1>1, <2>3, <2>5, <3>3
    <3> QED
      BY <2>6, <3>1, <3>2, <3>3
  <2> QED
    BY <1>1, <2>4, <2>7 DEF s
<1> QED
  BY <1>1, <1>2, <1>3

\* Decoding a block of the encoding gives its three octets.
LEMMA BlockDecodes ==
    ASSUME NEW data \in Seq(Octets), NEW b \in Nat, 3 * b < Len(data)
    PROVE  DecodedBlock(mbase64_encode(data), b) =
               <<OctetAt(data, 3 * b + 1), OctetAt(data, 3 * b + 2), OctetAt(data, 3 * b + 3)>>
<1> DEFINE s == mbase64_encode(data)
<1>1. \A j \in 1 .. 4 : b64_alphabet_reverse(s[4 * b + j]) = EncodedBlock(data, b)[j]
  BY EncodedIndex, CharDecodes
<1>2. /\ OctetAt(data, 3 * b + 1) \in Octets
      /\ OctetAt(data, 3 * b + 2) \in Octets
      /\ OctetAt(data, 3 * b + 3) \in Octets
  BY OctetAtType
<1> HIDE DEF s
<1>3. DecodedBlock(s, b) =
          convert_from_b64(EncodedBlock(data, b)[1], EncodedBlock(data, b)[2],
                           EncodedBlock(data, b)[3], EncodedBlock(data, b)[4])
  BY <1>1 DEF DecodedBlock
<1> QED
  BY <1>2, <1>3, BlockRoundTrip DEF EncodedBlock, s

\* Decoding the encoding of any data gives the data: mbase64.c loses nothing and
\* invents nothing, whatever is left for the last block.
THEOREM DecodeEncode ==
    ASSUME NEW data \in Seq(Octets)
    PROVE  mbase64_decode(mbase64_encode(data)) = data
<1> DEFINE s == mbase64_encode(data)
<1>1. Len(s) % 4 = 0
  <2>1. (Len(data) + 2) \div 3 \in Nat /\ Len(s) = 4 * ((Len(data) + 2) \div 3)
    BY EncodedIndex
  <2> QED
    BY <2>1
<1>2. 3 * (Len(s) \div 4) - Padding(s) = Len(data)
  BY PaddingMatches
<1>3. ASSUME NEW k \in 1 .. Len(data)
      PROVE  DecodedBlock(s, (k - 1) \div 3)[((k - 1) % 3) + 1] = data[k]
  <2> DEFINE b == (k - 1) \div 3
             j == ((k - 1) % 3) + 1
  <2>1. b \in Nat /\ j \in 1 .. 3 /\ 3 * b + j = k /\ 3 * b < Len(data)
    OBVIOUS
  <2>2. DecodedBlock(s, b) =
            <<OctetAt(data, 3 * b + 1), OctetAt(data, 3 * b + 2), OctetAt(data, 3 * b + 3)>>
    BY <2>1, BlockDecodes
  <2> HIDE DEF b, j, s
  <2>3. DecodedBlock(s, b)[j] = OctetAt(data, 3 * b + j)
    BY <2>1, <2>2
  <2> QED
    BY <2>1, <2>3 DEF OctetAt, b, j
<1> HIDE DEF s
<1>4. mbase64_decode(s) = [k \in 1 .. Len(data) |-> DecodedBlock(s, (k - 1) \div 3)[((k - 1) % 3) + 1]]
  BY <1>1, <1>2 DEF mbase64_decode
<1>5. mbase64_decode(s) = [k \in 1 .. Len(data) |-> data[k]]
  BY <1>3, <1>4
<1> QED
  BY <1>5 DEF s

-----------------------------------------------------------------------------
(***************************************************************************)
(* The tool.  The invariant follows the reads: after the first one the     *)
(* buffer holds what has been read, and after several it still holds       *)
(* octets, whichever they are.                                             *)
(***************************************************************************)
Mb64TypeOK ==
    /\ mb64 \in {"idle", "read", "done", "exited", "undefined"}
    /\ encode \in BOOLEAN /\ test \in BOOLEAN /\ read_error \in BOOLEAN /\ mismatch \in BOOLEAN
    /\ input_file \in Seq(Octets)
    /\ reads \in Nat
    /\ buffer \in [1 .. BUFSIZE -> Octets]
    /\ input_size \in Int

\* The octets of the input that are in the buffer while it has been written once.
HoldsInput ==
    reads <= 1 => \A k \in 1 .. input_size : k <= BUFSIZE /\ buffer[k] = input_file[k]

\* Before anything is printed, the count is that of the octets read.
Mb64Reading ==
    /\ mb64 = "idle" => input_size = 0 /\ reads = 0
    /\ mb64 \in {"idle", "read"} => /\ ~read_error /\ ~mismatch
                                    /\ input_size \in 0 .. Len(input_file)
    /\ reads = 0 => input_size <= 0
    /\ mb64 \in {"done", "exited", "undefined"} =>
           /\ input_size <= Len(input_file)
           /\ ~read_error => input_size = Len(input_file)

\* What has been printed decodes to what was in the buffer.
Mb64Printed ==
    /\ mb64 \in {"idle", "read", "done"} => ~mismatch
    /\ mb64 = "exited" /\ encode =>
           /\ input_size \in 0 .. BUFSIZE
           /\ b64string = mbase64_encode(SubSeq(buffer, 1, input_size))
           /\ ~mismatch
    /\ mb64 = "undefined" => Len(input_file) > BUFSIZE \/ read_error

\* The invariant of mb64.
Mb64IInv == Mb64TypeOK /\ HoldsInput /\ Mb64Reading /\ Mb64Printed

\* The start of the buffer is data that the encoder can be given.
LEMMA BufferIsData ==
    ASSUME Mb64TypeOK, input_size \in 0 .. BUFSIZE
    PROVE  /\ SubSeq(buffer, 1, input_size) \in Seq(Octets)
           /\ Len(SubSeq(buffer, 1, input_size)) = input_size
           /\ \A k \in 1 .. input_size : SubSeq(buffer, 1, input_size)[k] = buffer[k]
<1>1. BUFSIZE \in Nat
  BY Mb64Constants
<1>2. buffer \in Seq(Octets) /\ Len(buffer) = BUFSIZE
  BY <1>1 DEF Mb64TypeOK
<1> QED
  BY <1>1, <1>2

\* mb64 starts with nothing read and nothing printed.
LEMMA Mb64Initial == Mb64Init => Mb64IInv
<1> SUFFICES ASSUME Mb64Init PROVE Mb64IInv
  OBVIOUS
<1>1. <<>> \in Seq(Octets) /\ Len(<<>>) = 0 /\ 0 \in Octets /\ 0 \in Nat /\ 0 \in Int
  BY DEF Octets
<1>a. buffer \in [1 .. BUFSIZE -> Octets]
  BY <1>1 DEF Mb64Init
<1>2. Mb64TypeOK
  BY <1>1, <1>a, Zenon DEF Mb64Init, Mb64TypeOK
<1> QED
  BY <1>1, <1>2 DEF Mb64Init, Mb64IInv, HoldsInput, Mb64Reading, Mb64Printed

\* Every read, and the printing after the last, keeps it.
LEMMA Mb64Inductive == Mb64IInv /\ [Mb64Next]_mb64Vars => Mb64IInv'
<1> SUFFICES ASSUME Mb64IInv, [Mb64Next]_mb64Vars
             PROVE  Mb64IInv'
  OBVIOUS
<1> USE DEF Mb64IInv
<1>0. Len(input_file) \in Nat /\ BUFSIZE \in Nat
  BY Mb64Constants DEF Mb64TypeOK
<1>1. ASSUME NEW enc \in BOOLEAN, NEW tst \in BOOLEAN,
             NEW contents \in BoundedSeq(InputOctets, MaxInput), NEW stack \in Indeterminate,
             Mb64Main(enc, tst, contents, stack)
      PROVE  Mb64IInv'
  <2>1. contents \in Seq(Octets)
    <3>1. PICK m \in 0 .. MaxInput : contents \in [1 .. m -> InputOctets]
      BY DEF BoundedSeq, SeqOf
    <3> QED
      BY <3>1, Mb64Constants
  <2>2. stack \in Octets
    BY Mb64Constants
  <2>3. Mb64TypeOK'
    BY <1>1, <2>1, <2>2 DEF Mb64Main, Mb64TypeOK
  <2> QED
    BY <1>1, <2>1, <2>3 DEF Mb64Main, HoldsInput, Mb64Reading, Mb64Printed
<1>2. CASE ReadSome
  <2>1. PICK n \in 1 .. BUFSIZE : /\ n <= Unread
                                  /\ buffer' = Received(n)
                                  /\ input_size' = input_size + n
    BY <1>2 DEF ReadSome
  <2>2. input_size \in 0 .. Len(input_file) /\ input_size + n <= Len(input_file)
    BY <1>0, <1>2, <2>1 DEF ReadSome, Unread, Mb64Reading, Mb64TypeOK
  <2>3. \A k \in 1 .. n : input_file[input_size + k] \in Octets
    BY <1>0, <2>2 DEF Mb64TypeOK
  <2>4. Received(n) \in [1 .. BUFSIZE -> Octets]
    BY <2>3 DEF Received, Mb64TypeOK
  <2>5. Mb64TypeOK'
    BY <1>2, <2>1, <2>2, <2>4 DEF ReadSome, Mb64TypeOK
  <2>6. HoldsInput'
    <3>1. CASE reads = 0
      <4>1. input_size = 0
        BY <2>2, <3>1 DEF Mb64Reading
      <4> QED
        BY <1>0, <1>2, <2>1, <4>1 DEF ReadSome, HoldsInput, Received
    <3>2. CASE reads # 0
      BY <1>2, <3>2 DEF ReadSome, HoldsInput, Mb64TypeOK
    <3> QED
      BY <3>1, <3>2
  <2>7. Mb64Reading'
    BY <1>0, <1>2, <2>1, <2>2 DEF ReadSome, Mb64Reading, Mb64TypeOK
  <2> QED
    BY <1>2, <2>5, <2>6, <2>7 DEF ReadSome, Mb64Printed
<1>3. CASE ReadEof
  BY <1>0, <1>3 DEF ReadEof, Unread, Mb64TypeOK, HoldsInput, Mb64Reading, Mb64Printed
<1>4. CASE ReadFails
  <2>1. Mb64TypeOK'
    BY <1>4 DEF ReadFails, Mb64TypeOK
  <2>2. HoldsInput'
    BY <1>4 DEF ReadFails, Mb64TypeOK, HoldsInput
  <2> QED
    BY <1>0, <1>4, <2>1, <2>2 DEF ReadFails, Mb64TypeOK, Mb64Reading, Mb64Printed
<1>5. CASE Mb64Encode
  <2>1. CASE input_size \in 0 .. BUFSIZE
    <3> DEFINE data == SubSeq(buffer, 1, input_size)
    <3>1. data \in Seq(Octets) /\ Len(data) = input_size
      BY <2>1, BufferIsData
    <3>2. mbase64_decode(mbase64_encode(data)) = data
      BY <3>1, DecodeEncode
    <3> HIDE DEF data
    <3>3. /\ mb64' = "exited"
          /\ b64string' = mbase64_encode(data)
          /\ mismatch' = (test /\ Len(mbase64_decode(mbase64_encode(data))) # input_size)
          /\ UNCHANGED <<encode, test, input_file, reads, read_error, buffer, input_size>>
      BY <1>5, <2>1 DEF Mb64Encode, data
    <3>4. mismatch' = FALSE
      BY <3>1, <3>2, <3>3
    <3>5. Mb64TypeOK'
      BY <3>3, <3>4 DEF Mb64TypeOK
    <3> QED
      BY <1>5, <2>1, <3>3, <3>4, <3>5 DEF Mb64Encode, data, HoldsInput, Mb64Reading, Mb64Printed
  <2>2. CASE input_size \notin 0 .. BUFSIZE
    <3>1. /\ mb64' = "undefined"
          /\ UNCHANGED <<encode, test, input_file, reads, read_error, buffer, input_size, mismatch>>
      BY <1>5, <2>2 DEF Mb64Encode
    <3>2. Len(input_file) > BUFSIZE \/ read_error
      BY <1>0, <1>5, <2>2 DEF Mb64Encode, Mb64Reading, Mb64TypeOK
    <3> QED
      BY <1>5, <3>1, <3>2 DEF Mb64Encode, Mb64TypeOK, HoldsInput, Mb64Reading, Mb64Printed
  <2> QED
    BY <2>1, <2>2
<1>6. CASE Mb64NoEncode
  BY <1>6 DEF Mb64NoEncode, Mb64TypeOK, HoldsInput, Mb64Reading, Mb64Printed
<1>7. CASE Mb64Ended
  <2>1. <<>> \in Seq(Octets) /\ Len(<<>>) = 0 /\ 0 \in Octets /\ 0 \in Nat /\ 0 \in Int
    BY DEF Octets
  <2>a. buffer' \in [1 .. BUFSIZE -> Octets]
    BY <1>7, <2>1 DEF Mb64Ended
  <2>2. Mb64TypeOK'
    BY <1>7, <2>1, <2>a, Zenon DEF Mb64Ended, Mb64TypeOK
  <2> QED
    BY <1>7, <2>1, <2>2 DEF Mb64Ended, HoldsInput, Mb64Reading, Mb64Printed
<1>8. CASE UNCHANGED mb64Vars
  BY <1>8 DEF mb64Vars, Mb64TypeOK, HoldsInput, Mb64Reading, Mb64Printed
<1> QED
  BY <1>1, <1>2, <1>3, <1>4, <1>5, <1>6, <1>7, <1>8 DEF Mb64Next

\* What the invariant says of the line that was printed.
LEMMA PrintedDecodes == Mb64IInv => Mb64Encodes
<1> SUFFICES ASSUME Mb64IInv PROVE Mb64Encodes
  OBVIOUS
<1> USE DEF Mb64IInv
<1>1. ASSUME mb64 = "exited", encode
      PROVE  /\ ~mismatch
             /\ Len(mbase64_decode(b64string)) = input_size
             /\ reads <= 1 => mbase64_decode(b64string) = SubSeq(input_file, 1, input_size)
             /\ ~read_error => input_size = Len(input_file)
  <2> DEFINE data == SubSeq(buffer, 1, input_size)
  <2>1. /\ ~mismatch /\ input_size \in 0 .. BUFSIZE
        /\ b64string = mbase64_encode(data)
    BY <1>1 DEF Mb64Printed
  <2>2. /\ data \in Seq(Octets) /\ Len(data) = input_size
        /\ \A k \in 1 .. input_size : data[k] = buffer[k]
    BY <2>1, BufferIsData
  <2>3. mbase64_decode(b64string) = data
    BY <2>1, <2>2, DecodeEncode
  <2>4. input_size <= Len(input_file) /\ (~read_error => input_size = Len(input_file))
    BY <1>1 DEF Mb64Reading
  <2> HIDE DEF data
  <2>5. ASSUME reads <= 1 PROVE data = SubSeq(input_file, 1, input_size)
    <3> DEFINE first == SubSeq(input_file, 1, input_size)
    <3>1. first \in Seq(Octets) /\ Len(first) = input_size
          /\ \A k \in 1 .. input_size : first[k] = input_file[k]
      BY <2>1, <2>4 DEF Mb64TypeOK
    <3>2. \A k \in 1 .. input_size : data[k] = input_file[k]
      BY <2>2, <2>5 DEF HoldsInput
    <3> HIDE DEF first
    <3>3. data = first
      BY <2>2, <3>1, <3>2
    <3> QED
      BY <3>3 DEF first
  <2> QED
    BY <2>1, <2>2, <2>3, <2>4, <2>5
<1>2. mb64 = "undefined" => Len(input_file) > BUFSIZE \/ read_error
  BY DEF Mb64Printed
<1> QED
  BY <1>1, <1>2 DEF Mb64Encodes

\* mb64 encodes every input that arrives in one read, of whatever length and into a
\* buffer of whatever size, so that decoding the line gives the input back.
THEOREM Mb64Correct == Mb64Spec => []Mb64Encodes
  BY Mb64Initial, Mb64Inductive, PrintedDecodes, PTL DEF Mb64Spec
=============================================================================
