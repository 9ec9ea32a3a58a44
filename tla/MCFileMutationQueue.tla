---------------------- MODULE MCFileMutationQueue ----------------------
(* Model checking of FileMutationQueue: two files; direct and link lead to  *)
(* one of them, other to the second.                                       *)
EXTENDS FileMutationQueue, TLC

CONSTANTS c1, c2, c3, a, b, direct, link, other

MCFileOf == (direct :> a) @@ (link :> a) @@ (other :> b)
MCCalls == {c1, c2, c3}
MCFiles == {a, b}
MCPaths == {direct, link, other}
\* One path only, through a link.
MCLinkOf == link :> a
MCLinkFiles == {a}
MCLinkPaths == {link}
=============================================================================
