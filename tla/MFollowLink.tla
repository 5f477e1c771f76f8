---------------------------- MODULE MFollowLink ----------------------------
(***************************************************************************)
(* followlink of mutil.c, one step per system call.  The file system is    *)
(* external: at each place, a directory and a name in it, there is a file, *)
(* nothing, or a link to a path, which is absolute or relative.  It does   *)
(* not change while followlink runs, and buf has room for every path.      *)
(*                                                                         *)
(* strncpy(pathname, buf, nbytes) writes no terminator into the array on   *)
(* the stack that it fills: the next call is given buf's path, or a longer *)
(* one that begins with it, and ends where the stack happens to hold a     *)
(* zero.  It may be the path of another file or link.                      *)
(***************************************************************************)
EXTENDS Integers, FiniteSets

CONSTANTS
    Places,      \* records of a directory and a name in it
    Cwd,         \* the directory the program runs in
    Extensions,  \* pairs of paths: the text of the second begins with that of the first
    FileSystems  \* what may be at the places

Absolute == {[to |-> "absolute", dir |-> p.dir, name |-> p.name] : p \in Places}
Relative == {[to |-> "relative", name |-> p.name] : p \in Places}
Paths == Absolute \cup Relative
Entries == Paths \cup {[to |-> "file"], [to |-> "nothing"]}
Overlong == [to |-> "overlong"]   \* any longer path that names none of the places

ASSUME FollowConstants ==
    /\ IsFiniteSet(Places)
    /\ Extensions \subseteq Paths \X Paths
    /\ FileSystems \subseteq [Places -> Entries]

VARIABLES
    fs,        \* what is at each place
    origin,    \* the path followlink was first called with
    pathname,  \* its argument in the current call
    buf,
    following  \* "idle", "readlink", "lstat", "found" (nbytes returned) or "error" (-1)

followVars == <<fs, origin, pathname, buf, following>>

FollowInit ==
    /\ fs = [p \in Places |-> [to |-> "nothing"]]
    /\ origin = Overlong /\ pathname = Overlong /\ buf = Overlong
    /\ following = "idle"

-----------------------------------------------------------------------------
\* The content of a place.
Content(p) == IF p \in Places THEN fs[p] ELSE [to |-> "nothing"]

\* The place a path names for a process or a link in directory dir.
Place(path, dir) ==
    [dir |-> IF path.to = "absolute" THEN path.dir ELSE dir, name |-> path.name]

At(path) == IF path = Overlong THEN [to |-> "nothing"] ELSE Content(Place(path, Cwd))

IsLink(content) == content \in Paths

followlink(files, path) ==
    /\ following = "idle"
    /\ fs' = files
    /\ origin' = path /\ pathname' = path /\ buf' = Overlong
    /\ following' = "readlink"

Readlink ==
    /\ following = "readlink" /\ IsLink(At(pathname))
    /\ buf' = At(pathname)
    /\ following' = "lstat"
    /\ UNCHANGED <<fs, origin, pathname>>

ReadlinkFails ==
    /\ following = "readlink" /\ ~IsLink(At(pathname))
    /\ following' = "error"
    /\ UNCHANGED <<fs, origin, pathname, buf>>

\* The paths an unterminated copy may read as.
Unterminated(path) == {path, Overlong} \cup {p \in Paths : <<path, p>> \in Extensions}

\* Mutant: the recursive call is given the path it came from.
LstatLink_Again ==
    /\ following = "lstat" /\ IsLink(At(buf))
    /\ pathname' \in Unterminated(pathname)
    /\ following' = "readlink"
    /\ UNCHANGED <<fs, origin, buf>>

\* buf names a link again: the recursive call.
LstatLink ==
    /\ following = "lstat" /\ IsLink(At(buf))
    /\ pathname' \in Unterminated(buf)
    /\ following' = "readlink"
    /\ UNCHANGED <<fs, origin, buf>>

LstatFile ==
    /\ following = "lstat" /\ At(buf).to = "file"
    /\ following' = "found"
    /\ UNCHANGED <<fs, origin, pathname, buf>>

\* Mutant: what buf names does not have to exist.
LstatFails_Found ==
    /\ following = "lstat" /\ At(buf).to = "nothing"
    /\ following' = "found"
    /\ UNCHANGED <<fs, origin, pathname, buf>>

LstatFails ==
    /\ following = "lstat" /\ At(buf).to = "nothing"
    /\ following' = "error"
    /\ UNCHANGED <<fs, origin, pathname, buf>>

FollowStep == Readlink \/ ReadlinkFails \/ LstatLink \/ LstatFile \/ LstatFails

\* The caller has the answer, and may call again.
FollowReturned ==
    /\ following \in {"found", "error"}
    /\ following' = "idle"
    /\ fs' = [p \in Places |-> [to |-> "nothing"]]
    /\ origin' = Overlong /\ pathname' = Overlong /\ buf' = Overlong

FollowNext ==
    \/ \E files \in FileSystems, path \in Paths : followlink(files, path)
    \/ FollowStep
    \/ FollowReturned

\* A running followlink goes on; nobody has to call it.
FollowSpec == FollowInit /\ [][FollowNext]_followVars /\ WF_followVars(FollowStep)

-----------------------------------------------------------------------------
\* Where the links lead to from a place, as the kernel resolves them: a relative
\* path is relative to the directory its link is in.
Target(p) == IF IsLink(Content(p)) THEN Place(Content(p), p.dir) ELSE p

\* The places the links lead through, from the one the caller's path names; more
\* steps than there are places lead nowhere new.
Way[n \in 0 .. Cardinality(Places)] ==
    IF n = 0 THEN Place(origin, Cwd) ELSE Target(Way[n - 1])

LinksEnd == Way[Cardinality(Places)]

OnTheWay == {Way[n] : n \in 0 .. Cardinality(Places)}

\* followlink hands a relative path to the kernel as it stands, so that it is right
\* about links in the directory the program runs in and about absolute ones.
Resolvable == \A p \in OnTheWay : IsLink(Content(p)) /\ Content(p).to = "relative" => p.dir = Cwd

\* No link on the way is to a path that begins the path of another link.
Unambiguous ==
    \A p \in OnTheWay, path \in Paths :
        IsLink(Content(p)) /\ <<Content(p), path>> \in Extensions => ~IsLink(At(path))

\* followlink finds the file the links lead to (mutil.h: "recursively follow the
\* link and any link it points to until we find a non-symbolic-link file"), whatever
\* is on the stack, if no longer path can be mistaken for one of the links.  It
\* answers -1 only if there is no such file, or nothing to follow, or the path of the
\* link that was to be followed next did not end where it should.
FollowFindsTarget ==
    /\ following = "found" /\ Resolvable /\ Unambiguous =>
           Content(LinksEnd).to = "file" /\ Place(buf, Cwd) = LinksEnd
    /\ following = "error" /\ Resolvable /\ Unambiguous =>
           \/ Content(LinksEnd).to # "file" \/ LinksEnd = Place(origin, Cwd)
           \/ IsLink(At(buf)) /\ pathname # buf

\* It returns, unless the links form a cycle: the recursion gets nearer to the end.
FollowEnds ==
    following = "readlink" /\ Resolvable /\ Unambiguous /\ ~IsLink(Content(LinksEnd))
        ~> following \in {"found", "error"}

\* "Recursively follow the link and any link it points to until we find a
\* non-symbolic-link file.  Populate the provided buffer with this path" (mutil.h): if
\* the links lead to a file, no other file is returned as found.
FollowReturnsTarget ==
    following = "found" /\ Resolvable /\ Content(LinksEnd).to = "file" => Place(buf, Cwd) = LinksEnd
=============================================================================
