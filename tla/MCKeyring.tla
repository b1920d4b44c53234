----------------------------- MODULE MCKeyring -----------------------------
(* Two commands at a time on the founder a, one on b, which is to be       *)
(* enrolled, and none on c, which is only listed.                          *)
EXTENDS Keyring
CONSTANTS a, b, c
Commanding == {<<a, 1>>, <<a, 2>>, <<b, 1>>}
Enrolments == {{}, {a, c}}
=============================================================================
