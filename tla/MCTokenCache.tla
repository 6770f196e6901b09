---------------------------- MODULE MCTokenCache ----------------------------
(***************************************************************************)
(* One process after another over the cache, and how the server may answer *)
(* a refresh: with a new access token and the same refresh token, with new *)
(* ones, or with nothing new but the time of expiry.                       *)
(***************************************************************************)
EXTENDS TokenCache

Answer(rotates, repeats) == [rotates |-> rotates, repeats |-> repeats]

SomeAnswers == {Answer(FALSE, FALSE), Answer(TRUE, FALSE), Answer(FALSE, TRUE)}
=============================================================================
