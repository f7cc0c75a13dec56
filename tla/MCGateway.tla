------------------------------ MODULE MCGateway ------------------------------
(* TLC instance of Gateway: alice logs in, delegates what she shares with bob, *)
(* asks for more than she has, and every token holder and the public invoke.   *)
EXTENDS Gateway

CONSTANTS t1, t2, u1, u2, u3, u4, u5, u6, u7, u8, alice, bob, faasten

Either       == Or(Only(alice), Only(bob))
MCFacet      == {Ufacet(p) : p \in Component}
Both         == And(Only(alice), Only(bob))
MCDelegated  == {Both, Either}
MCClearances == {Only(bob)}
MCAsked      == {Labeled(Only(bob), Only(alice))}
MCFaasten    == Only(faasten)

\* The first unused uid in a fixed order: which one is drawn makes no difference, uids are
\* only compared.
MCDraw(unused) == IF unused = {} THEN {} ELSE {CHOOSE u \in unused : TRUE}

=============================================================================
