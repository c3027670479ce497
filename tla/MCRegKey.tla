------------------------------- MODULE MCRegKey -------------------------------
(* A key with two keys below it, one of which has two itself; one of these *)
(* is locked.  Strings of up to one character, lists of up to two, the     *)
(* first of which is not empty.                                            *)
EXTENDS RegKey

CONSTANTS a, b

MCNames == <<a, b>>
MCPaths == {<<>>, <<a>>, <<b>>, <<a, a>>, <<a, b>>}
MCLocked == {<<a, a>>}
MCStrings == {<<>>, <<1>>}
MCLists == {<<>>} \cup {<<x>> : x \in MCStrings} \cup {<<<<1>>, x>> : x \in MCStrings}
=============================================================================
