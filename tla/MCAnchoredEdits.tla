-------------------------- MODULE MCAnchoredEdits --------------------------
(* Two files of two lines and requests for one of them or both.              *)
EXTENDS AnchoredEdits

Edit(kind, start, end, text) == [kind |-> kind, start |-> start, end |-> end, text |-> text]

MCFile  == 1..2
MCBegin == {<<"a", "b">>}
MCSaves == {<<"a", "b">>, <<"b">>}
MCRanges == {<<1, 2>>}

(* Edits that move each other's lines, and edits that overlap, of one file;  *)
(* of the other one three edits that meet at both ends, in two orders.       *)
Moving  == <<Edit("replace", 1, 1, <<"x", "y">>), Edit("insert_after", 2, 2, <<"z">>)>>
Overlap == <<Edit("delete", 1, 2, <<>>), Edit("insert_after", 1, 1, <<"y">>)>>
Meeting == <<Edit("insert_before", 1, 1, <<"x">>), Edit("insert_after", 2, 2, <<"z">>),
             Edit("replace", 1, 2, <<"y">>)>>

MCPlans == [f \in MCFile |-> IF f = 1 THEN {Moving, Overlap}
                             ELSE {Meeting, Reverse(Meeting)}]

(* Two edits of one line: both orders of an insertion and a replacement.     *)
SameLine == <<Edit("insert_before", 1, 1, <<"x">>), Edit("replace", 1, 1, <<"y">>)>>

SameLinePlans == [f \in MCFile |-> {SameLine, Reverse(SameLine)}]
=============================================================================
