------------------------------- MODULE MCSignIn -------------------------------
EXTENDS SignIn, TLC

CONSTANTS d1, d2, p1, p2, s1
OnePageEach == (p1 :> d1) @@ (p2 :> d2)
AdminAndFirst == {None, s1}
=============================================================================
