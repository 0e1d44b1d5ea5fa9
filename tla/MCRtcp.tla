------------------------------- MODULE MCRtcp -------------------------------
(***************************************************************************)
(* Small instances of Rtcp. The words of the widths are scaled down: a     *)
(* sequence number has 4 values, a 32-bit word 64, a fraction 8.           *)
(***************************************************************************)
EXTENDS Rtcp

CONSTANTS s1, s2, s3

One == <<s1>>
Two == <<s1, s2>>
Three == <<s1, s2, s3>>

Hdr(ver, pt, len) == [ver |-> ver, pad |-> FALSE, pt |-> pt, len |-> len]
Data == Hdr(0, "SR", 0)

\* An SR and an SDES; the same with a chain that does not add up; one that ends
\* in a packet of another version; a single BYE that says it is longer than it
\* is; a single packet of an unknown type, and a compound with one in it.
Good == [words |-> 4, at |-> <<Hdr(2, "SR", 1), Data, Hdr(2, "SDES", 1), Data>>]
Long == [words |-> 4, at |-> <<Hdr(2, "SR", 1), Data, Hdr(2, "SDES", 3), Data>>]
Old  == [words |-> 4, at |-> <<Hdr(2, "RR", 1), Data, Hdr(1, "SDES", 1), Data>>]
Cut  == [words |-> 2, at |-> <<Hdr(2, "BYE", 3), Data>>]
Odd  == [words |-> 3, at |-> <<Hdr(2, "RR", 1), Data, Hdr(2, "XR", 0)>>]
Solo == [words |-> 1, at |-> <<Hdr(2, "XR", 0)>>]

\* Words are numbered from 0.
At0(d) == [d EXCEPT !.at = [i \in 0 .. d.words - 1 |-> d.at[i + 1]]]

AllDatagrams == {At0(d) : d \in {Good, Long, Old, Cut, Odd, Solo}}
GoodOnly == {At0(Good)}
NoDatagrams == {}

Light == {<<2, 1, 10>>}
=============================================================================
