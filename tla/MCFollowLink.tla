---------------------------- MODULE MCFollowLink ----------------------------
(***************************************************************************)
(* Places, and paths that begin others, for runs of TLC: "x" begins "xy".  *)
(***************************************************************************)
EXTENDS MFollowLink

AnAbsolute(d, n) == [to |-> "absolute", dir |-> d, name |-> n]
ARelative(n) == [to |-> "relative", name |-> n]

LongerNames ==
    {<<AnAbsolute("cwd", "x"), AnAbsolute("cwd", "xy")>>, <<ARelative("x"), ARelative("xy")>>}

\* Two places in the program's directory, and one in another.
ThreePlaces ==
    {[dir |-> "cwd", name |-> "x"], [dir |-> "cwd", name |-> "xy"], [dir |-> "d", name |-> "x"]}

AnythingThere == [Places -> Entries]

\* The same with two files.
Files == {[dir |-> "cwd", name |-> "z"], [dir |-> "d", name |-> "z"]}

FivePlaces == ThreePlaces \cup Files

FilesThere ==
    {[p \in Places |-> IF p \in Files THEN [to |-> "file"] ELSE f[p]] :
        f \in [Places \ Files -> Entries]}
=============================================================================
