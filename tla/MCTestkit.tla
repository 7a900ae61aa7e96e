----------------------------- MODULE MCTestkit -----------------------------
(***************************************************************************)
(* Runtime codes of many lengths, of bytes that differ from their          *)
(* neighbours, so that a copy that is shifted or cut short shows; with one *)
(* of them the harness does everything else too.                           *)
(***************************************************************************)
EXTENDS Testkit

CONSTANT Lengths

MCForks    == {London, Shanghai}
MCRuntimes == { [i \in 1 .. n |-> (7 * i) % 251] : n \in Lengths }
MCSampled  == { r \in MCRuntimes : Len(r) = 1 }

\* With base two a length and an offset have many widths; two lengths that
\* do not fit a byte of the machine the initcode runs on.
MCLengths == (0 .. 40) \cup {255, 300}

\* Called code changes every field of the accounts it touches.
MCWritten == {[balance |-> 0, code |-> <<2>>, storage |-> 1]}

MCCodes == {<<>>, <<1>>, <<2>>}
=============================================================================
