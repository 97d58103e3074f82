----------------------------- MODULE VirtualPath -----------------------------
(***************************************************************************)
(* Virtual paths and the folders derived from them.  A path is the         *)
(* sequence of its segments, what lies between the slashes, so "a/../b" is *)
(* <<"a", "..", "b">>.  A file name has no slash: the browser sends a base *)
(* name and mime/multipart keeps only the base.                            *)
(***************************************************************************)
EXTENDS Naturals, Sequences, SequencesExt

CONSTANTS Empty, Here, Up   \* the segments "", "." and ".."

Root == <<>>

\* path.Clean on a path that starts with a slash: ".." at the root is lost.
CleanRooted(p) ==
    FoldLeft(LAMBDA done, s :
                CASE s \in {Empty, Here} -> done
                  [] s = Up              -> IF done = Root THEN Root ELSE Front(done)
                  [] OTHER               -> Append(done, s),
             Root, p)

\* path.Clean on a relative path: leading ".." segments stay.
CleanRelative(p) ==
    FoldLeft(LAMBDA done, s :
                CASE s \in {Empty, Here} -> done
                  [] s = Up              -> IF done = Root \/ Last(done) = Up
                                            THEN Append(done, Up) ELSE Front(done)
                  [] OTHER               -> Append(done, s),
             Root, p)

\* Faulty variant: cleaned without anchoring it at the root first.
NormalizeRelative(p) == CleanRelative(p)

\* normalizeVirtualPath; the root itself is the empty path, which is refused.
Normalize(p) == CleanRooted(p)

\* handleUpload joins the folder it was sent, if any, and the file's name.
Joined(folder, name) ==
    IF folder = Root THEN <<name>> ELSE CleanRelative(Append(folder, name))

\* What Upload stores for a file sent to a folder, as the pair of its
\* directory and its base name.
UploadPath(folder, name) ==
    LET p == Normalize(Joined(folder, name)) IN <<Front(p), Last(p)>>

\* dirname in app.js.
Dirname(path) == path[1]

\* The folder rows that renderFiles derives for a folder from the paths it knows.
SubFolders(paths, folder) ==
    {Dirname(p)[Len(folder) + 1] :
        p \in {q \in paths : IsStrictPrefix(folder, Dirname(q))}}

-----------------------------------------------------------------------------
(* Reference definitions *)

Real(s) == s \notin {Empty, Here, Up}

Count(p, from, to, Test(_)) == Cardinality({k \in from..to : Test(p[k])})

\* A segment is part of the path meant if it is a name and the ".." after it
\* never outnumber the names after it, which they cancel first.
Stays(p, i) ==
    /\ Real(p[i])
    /\ \A j \in i + 1..Len(p) :
          Count(p, i + 1, j, LAMBDA s : s = Up) <= Count(p, i + 1, j, Real)

Meant(p) ==
    LET stay == {i \in DOMAIN p : Stays(p, i)}
        nth(k) == CHOOSE i \in stay : Cardinality({j \in stay : j <= i}) = k
    IN  [k \in 1..Cardinality(stay) |-> p[nth(k)]]
=============================================================================
