------------------------------- MODULE MBins -------------------------------
(***************************************************************************)
(* The tool bins (bins.c), a client of msplit: main splits PATH at the     *)
(* colons, calls find_bins for every piece and frees the pieces.  The file *)
(* system is external: some names are those of directories, which all hold *)
(* the same entries.                                                       *)
(***************************************************************************)
EXTENDS MSplit

CONSTANTS
    Colon,
    BinDirectories,   \* the strings that opendir accepts
    Listings          \* what may be in them: sets of a type and what stat answers

ASSUME BinsConstants == Colon \in Characters

VARIABLES
    bins,     \* "idle", "main" or "exited"
    PATH,
    dirents,  \* the entries of the directories
    piece,    \* pieces that find_bins has been called for
    output    \* what was printed: directories and entries

binsVars == <<bins, PATH, dirents, piece, output>>

BinsInit ==
    /\ SplitInit
    /\ bins = "idle" /\ PATH = <<>> /\ dirents = {} /\ piece = 0 /\ output = {}

BinsMain(path, contents) ==
    /\ bins = "idle"
    /\ msplit(path, {Colon})
    /\ bins' = "main"
    /\ PATH' = path /\ dirents' = contents
    /\ UNCHANGED <<piece, output>>

BinsSplit == bins = "main" /\ SplitStep /\ UNCHANGED binsVars

\* The test of the mode is (st_mode & S_IXUSR) | S_IXGRP | S_IXOTH, never zero: the
\* mode does not matter.
Printed(entry) == entry.type \in {"DT_REG", "DT_LNK"} /\ entry.stat # "fails"

\* Mutant: only regular files.
find_bins_Regular(dirpath) ==
    IF dirpath \in BinDirectories
    THEN {<<dirpath, e>> : e \in {f \in dirents : Printed(f) /\ f.type = "DT_REG"}}
    ELSE {}

\* What find_bins prints.
find_bins(dirpath) ==
    IF dirpath \in BinDirectories THEN {<<dirpath, e>> : e \in {f \in dirents : Printed(f)}} ELSE {}

BinsNextPiece ==
    /\ bins = "main" /\ splitting = "done" /\ piece < Len(split_array)
    /\ piece' = piece + 1
    /\ output' = output \cup find_bins(split_array[piece + 1])
    /\ UNCHANGED <<bins, PATH, dirents, splitVars>>

BinsExit ==
    /\ bins = "main" /\ splitting = "done" /\ piece = Len(split_array)
    /\ free_msplit
    /\ bins' = "exited"
    /\ UNCHANGED <<PATH, dirents, piece, output>>

\* The next run of the tool.
BinsEnded ==
    /\ bins = "exited"
    /\ bins' = "idle" /\ PATH' = <<>> /\ dirents' = {} /\ piece' = 0 /\ output' = {}
    /\ UNCHANGED splitVars

BinsNext ==
    \/ \E path \in BoundedSeq(Characters, MaxString), contents \in Listings :
          BinsMain(path, contents)
    \/ BinsSplit \/ BinsNextPiece \/ BinsExit \/ BinsEnded

BinsSpec == BinsInit /\ [][BinsNext]_<<binsVars, splitVars>>

-----------------------------------------------------------------------------
\* What bins prints for a PATH of these directories, whatever msplit does to the last
\* one.  The executable files of every directory are printed, but for the last one's
\* when PATH ends in one letter of its name or in a single colon.  What is printed are
\* files that stat finds, executable or not, of a directory of PATH or, if PATH ends in
\* a single colon, of the one that has the last one's name with the colon at its end.
BinsListsExecutables ==
    bins = "exited" =>
        LET dirs == Words(PATH, {Colon})
            searched == {k \in DOMAIN dirs : k < Len(dirs) \/ EndsCleanly(PATH, {Colon})}
            misread == {Append(dirs[k], Colon) :
                           k \in {n \in DOMAIN dirs : n = Len(dirs) /\ PATH[Len(PATH)] = Colon}}
            executables == {e \in dirents : e.type \in {"DT_REG", "DT_LNK"} /\ e.stat = "executable"}
        IN  /\ \A k \in searched, e \in executables :
                  dirs[k] \in BinDirectories => <<dirs[k], e>> \in output
            /\ \A o \in output :
                  /\ o[1] \in ToSet(dirs) \/ (o[1] \in misread /\ ~EndsCleanly(PATH, {Colon}))
                  /\ o[2] \in dirents /\ o[2].type \in {"DT_REG", "DT_LNK"} /\ o[2].stat # "fails"
=============================================================================
