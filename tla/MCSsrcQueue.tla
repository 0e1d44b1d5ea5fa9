---------------------------- MODULE MCSsrcQueue ----------------------------
(***************************************************************************)
(* Small instances of SsrcQueue: a server srv whose stream x may also be     *)
(* claimed from another address, and a second sender y.                    *)
(***************************************************************************)
EXTENDS SsrcQueue

CONSTANTS x, y, f, g, srv, oth

OneSender == {<<x, srv>>}
OtherSender == {<<y, srv>>}
Impostor == {<<x, srv>>, <<x, oth>>}
TwoSenders == {<<x, srv>>, <<y, srv>>}
OneReport == {<<"RR", "SDES", "BYE">>}
Reports == {<<"SR", "SDES">>, <<"RR", "SDES", "BYE">>}
=============================================================================
