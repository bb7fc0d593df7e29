----------------------------- MODULE MCPthreads -----------------------------
(***************************************************************************)
(* TLC instances of Pthreads: children that any thread may create, fewer   *)
(* handles than threads, so that handles are reused.                       *)
(***************************************************************************)
EXTENDS Pthreads

CONSTANTS c1, c2, c3, f1, f2, h2, h3

MCChild == {c1, c2, c3}
MCForeign == {f1, f2}
MCHandle == {h1, h2, h3}

Setup(children, foreign, spurious, locks) ==
    [children |-> children, foreign |-> foreign, spurious |-> spurious, locks |-> locks]

\* A program that only creates threads, and one of which some announce themselves.
MCSetups == {Setup(MCChild, {}, FALSE, TRUE), Setup({c1}, MCForeign, TRUE, FALSE)}
MCNotifies == {Setup({c1, c2}, {f1}, FALSE, FALSE)}
MCLocks == {Setup({c1, c2}, {}, FALSE, TRUE)}
=============================================================================
