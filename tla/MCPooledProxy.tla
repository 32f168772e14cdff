--------------------------- MODULE MCPooledProxy ---------------------------
(***************************************************************************)
(* Two requests and a pool of two: both may wait for their second          *)
(* connection, and an audit row may find the pool empty.                   *)
(***************************************************************************)
EXTENDS PooledProxy, MCDnsProxy

\* A contended lock, with and without an OAuth credential, an exempt call, a create.
PooledCalls ==
    {Call("exact", "PATCH", z1, r1, NoBody),
     Call("wide", "DELETE", z1, r1, NoBody),
     Call("pinned", "PATCH", z1, r1, Body(b, None)),
     Call("wide", "POST", z1, None, Body(b, "A"))}
=============================================================================
