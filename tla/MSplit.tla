------------------------------- MODULE MSplit -------------------------------
(***************************************************************************)
(* msplit and free_msplit of mstr.c.  The loop over the input string is    *)
(* one step per character, as the counters it keeps from one character to  *)
(* the next are what can go wrong: whether it is inside a word, the length *)
(* of the word so far, and the capacity of the array of words.             *)
(*                                                                         *)
(* A string is a sequence of characters, without its terminator.  Every    *)
(* write to memory that msplit has allocated is compared with what was     *)
(* allocated, and one that lies outside is recorded; what it damages there *)
(* is up to the heap, and msplit goes on as if it were nothing.            *)
(***************************************************************************)
EXTENDS Integers, Sequences, FiniteSets, SequencesExt

CONSTANTS
    Characters,          \* what strings are made of
    Separators,          \* the separator sets of the callers
    default_sep,         \* the set that a caller gets for NULL
    MaxString,           \* bound: length of an input string
    SPLIT_SIZE_INITIAL,
    SPLIT_GROW_FACTOR

ASSUME SplitConstants ==
    /\ Separators \subseteq SUBSET Characters
    /\ \A s \in Separators : IsFiniteSet(s)
    /\ MaxString \in Nat
    /\ SPLIT_SIZE_INITIAL \in Nat \ {0}
    /\ SPLIT_GROW_FACTOR \in Nat /\ SPLIT_GROW_FACTOR > 1

VARIABLES
    splitting,       \* "no", "scan" (in the loop) or "done" (the caller has the array)
    input_string, seps,
    i, inword, word_length,
    array_length,    \* capacity of split_array
    split_array,     \* the words found; nwords is its length
    outside          \* the writes outside of what was allocated

splitVars == <<splitting, input_string, seps, i, inword, word_length, array_length,
               split_array, outside>>

\* A write at an index of a block (of the nr-th word, for words) of some size.
Outside(block, nr, at, size) ==
    IF at < size THEN {} ELSE {[block |-> block, nr |-> nr, at |-> at]}

SplitInit ==
    /\ splitting = "no"
    /\ input_string = <<>> /\ seps = {}
    /\ i = 0 /\ inword = FALSE /\ word_length = 0
    /\ array_length = 0 /\ split_array = <<>> /\ outside = {}

\* The copy of the caller's separators gets as many bytes as there are separators;
\* that of the default ones has a byte more, for the terminator.
SepsSize(separators) == Cardinality(separators) + IF separators = default_sep THEN 1 ELSE 0

msplit(string, separators) ==
    /\ splitting = "no"
    /\ splitting' = "scan"
    /\ input_string' = string /\ seps' = separators
    /\ i' = 0 /\ inword' = FALSE /\ word_length' = 0
    /\ array_length' = SPLIT_SIZE_INITIAL /\ split_array' = <<>>
    /\ outside' = Outside("seps", 0, Cardinality(separators), SepsSize(separators))

-----------------------------------------------------------------------------
Scanning == splitting = "scan" /\ i < Len(input_string)

AtEnd == i = Len(input_string) - 1

\* found_sep: the end of the string counts as a separator.
found_sep == input_string[i + 1] \in seps \/ AtEnd

\* Mutant: the last character is not added to the word.
Counted_NotLast == [i |-> i, word_length |-> word_length]

\* i and word_length after the test for the end of the string.
Counted ==
    IF AtEnd THEN [i |-> i + 1, word_length |-> word_length + 1]
             ELSE [i |-> i, word_length |-> word_length]

\* The word goes to split_array[nwords], in a block of word_length bytes, and its
\* terminator to the byte at word_length.
EndOfWord ==
    /\ Scanning /\ found_sep /\ inword
    /\ outside' = outside \cup Outside("array", 0, Len(split_array), array_length)
           \cup Outside("word", Len(split_array) + 1, Counted.word_length, Counted.word_length)
    /\ split_array' = Append(split_array,
           SubSeq(input_string, Counted.i - Counted.word_length + 1, Counted.i))
    /\ inword' = FALSE
    /\ word_length' = Counted.word_length
    /\ i' = Counted.i + 1
    /\ UNCHANGED <<splitting, input_string, seps, array_length>>

BetweenWords ==
    /\ Scanning /\ found_sep /\ ~inword
    /\ word_length' = Counted.word_length
    /\ i' = Counted.i + 1
    /\ UNCHANGED <<splitting, input_string, seps, inword, array_length, split_array, outside>>

\* Mutant: the array grows one word late.
Grown_Late == IF Len(split_array) > array_length THEN array_length * SPLIT_GROW_FACTOR ELSE array_length

\* The capacity once there is room for another word.
Grown == IF Len(split_array) + 1 > array_length THEN array_length * SPLIT_GROW_FACTOR ELSE array_length

BeginWord ==
    /\ Scanning /\ ~found_sep /\ ~inword
    /\ inword' = TRUE
    /\ word_length' = 1
    /\ array_length' = Grown
    /\ i' = i + 1
    /\ UNCHANGED <<splitting, input_string, seps, split_array, outside>>

InsideWord ==
    /\ Scanning /\ ~found_sep /\ inword
    /\ word_length' = word_length + 1
    /\ i' = i + 1
    /\ UNCHANGED <<splitting, input_string, seps, inword, array_length, split_array, outside>>

\* The NULL behind the words goes to split_array[nwords].
FinishSplit ==
    /\ splitting = "scan" /\ i >= Len(input_string)
    /\ splitting' = "done"
    /\ outside' = outside \cup Outside("array", 0, Len(split_array), array_length)
    /\ UNCHANGED <<input_string, seps, i, inword, word_length, array_length, split_array>>

SplitStep == EndOfWord \/ BetweenWords \/ BeginWord \/ InsideWord \/ FinishSplit

free_msplit ==
    /\ splitting = "done"
    /\ splitting' = "no"
    /\ input_string' = <<>> /\ seps' = {}
    /\ i' = 0 /\ inword' = FALSE /\ word_length' = 0
    /\ array_length' = 0 /\ split_array' = <<>> /\ outside' = {}

SplitNext ==
    \/ \E string \in BoundedSeq(Characters, MaxString), s \in Separators : msplit(string, s)
    \/ SplitStep
    \/ free_msplit

SplitSpec == SplitInit /\ [][SplitNext]_splitVars

-----------------------------------------------------------------------------
\* What splitting means: the longest runs of characters that are no separators.
Runs(s, S) ==
    {r \in (DOMAIN s) \X (DOMAIN s) :
        /\ r[1] <= r[2]
        /\ \A k \in r[1] .. r[2] : s[k] \notin S
        /\ r[1] - 1 \in DOMAIN s => s[r[1] - 1] \in S
        /\ r[2] + 1 \in DOMAIN s => s[r[2] + 1] \in S}

\* The words in the order of their runs: before the k-th one begin k - 1 others.
Words(s, S) ==
    LET before(r) == Cardinality({q \in Runs(s, S) : q[1] < r[1]})
        nth(k) == CHOOSE r \in Runs(s, S) : before(r) = k - 1
    IN  [k \in 1 .. Cardinality(Runs(s, S)) |-> SubSeq(s, nth(k)[1], nth(k)[2])]

\* The last character continues what was before it: a word or a separator.
EndsCleanly(s, S) ==
    LET sep(k) == k = 0 \/ s[k] \in S
    IN  Len(s) > 0 => (sep(Len(s)) <=> sep(Len(s) - 1))

\* msplit finds the words.  The last one is right if the string ends with two
\* characters of a word or with two separators; otherwise it may be missing or have
\* the separator at its end, and the words before it are right all the same.
SplitGivesWords ==
    splitting = "done" =>
        LET words == Words(input_string, seps)
        IN  /\ EndsCleanly(input_string, seps) => split_array = words
            /\ Len(words) - Len(split_array) \in {0, 1}
            /\ \A k \in 1 .. Len(words) - 1 : split_array[k] = words[k]

\* The terminators written so far that had no room: of the caller's separators, of
\* every word, and of the array if the words fill it.
WithoutRoom ==
    {[block |-> "seps", nr |-> 0, at |-> Cardinality(S)] :
        S \in IF splitting = "no" THEN {} ELSE {seps} \ {default_sep}}
    \cup {[block |-> "word", nr |-> k, at |-> Len(split_array[k])] : k \in DOMAIN split_array}
    \cup {[block |-> "array", nr |-> 0, at |-> n] :
              n \in IF splitting = "done" THEN {array_length} \cap {Len(split_array)} ELSE {}}

\* The counters that survive an iteration agree with the string and the array.  The
\* word being read is what lies behind i, without a separator, so that the assertion
\* i >= word_length of mstr.c holds.  The array has a slot for every word, and no
\* write leaves its block but that of a terminator, to the place next to the block:
\* behind the words of the array only when these are as many as it has slots.
WordsFit ==
    /\ inword => /\ word_length \in 1 .. i
                 /\ i < Len(input_string)
                 /\ \A k \in i - word_length + 1 .. i : input_string[k] \notin seps
                 /\ Len(split_array) < array_length
    /\ \A k \in DOMAIN split_array : Len(split_array[k]) > 0
    /\ outside = WithoutRoom

\* "Take a string a split on whitespace, returning an array of strings" (mstr.h).
SplitsIntoWords == splitting = "done" => split_array = Words(input_string, seps)

\* "Note that the strings AND the array are both NULL terminated" (mstr.h): all that
\* was written lies inside of what was allocated for it.
HasTerminators == splitting = "done" => outside = {}
=============================================================================
