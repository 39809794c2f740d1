------------------------------ MODULE WalkSpec ------------------------------
(***************************************************************************)
(* What skfs.walk() promises, without its stack (spec 4.5): starting from *)
(* one directory, each step visits some directory not yet visited that is *)
(* waiting, and makes its subdirectories wait; a directory whose listing  *)
(* fails contributes only some of its subdirectories.  The walk ends when *)
(* nothing waits.  Directories are inodes; paths and order are left out.   *)
(***************************************************************************)
EXTENDS FiniteSets

CONSTANT Unreadable     \* directories whose listing may fail part-way

VARIABLES
    pending,    \* directories waiting to be visited
    visited,    \* directories visited so far
    children,   \* each directory's subdirectories to descend into
    done        \* the walk has signalled its end

vars == <<pending, visited, children, done>>

Init ==
    /\ Cardinality(pending) = 1
    /\ visited = {}
    /\ done = FALSE

\* Visit d: a readable directory gives all its subdirectories, one that
\* fails gives some.
Visit(d) ==
    /\ d \notin visited
    /\ \E K \in SUBSET children[d] :
          /\ d \notin Unreadable => K = children[d]
          /\ pending' = (pending \ {d}) \cup K
    /\ visited' = visited \cup {d}
    /\ UNCHANGED <<children, done>>

Finish ==
    /\ pending = {}
    /\ done' = TRUE
    /\ UNCHANGED <<pending, visited, children>>

Next == (\E d \in pending : Visit(d)) \/ Finish

Spec == Init /\ [][Next]_vars /\ WF_vars(Next)

=============================================================================
