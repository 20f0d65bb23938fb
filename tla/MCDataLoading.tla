--------------------------- MODULE MCDataLoading ---------------------------
(* Instances of DataLoading. *)
EXTENDS DataLoading

CONSTANTS oa, nominatim, street, avenue

SomeItems  == {[id |-> 1, word |-> street, at |-> 1],
               [id |-> 2, word |-> NoWord, at |-> 1],
               [id |-> NoId, word |-> street, at |-> NoPoint]}
OldItem    == [id |-> 2, word |-> avenue, at |-> 1]
OneOldItem == {[t \in Sources |-> {}],
               [t \in Sources |-> IF t = oa THEN {OldItem} ELSE {}]}
ShortOrder == <<oa, nominatim>>
=============================================================================
