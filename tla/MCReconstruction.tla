-------------------------- MODULE MCReconstruction --------------------------
(* Instances of Reconstruction for TLC. *)
EXTENDS Reconstruction

CONSTANT MaxFragments  \* bound: fragments of an article

\* Each algorithm gets the fragments that tell its cases apart.
Type1Texts ==
  {<<>>, <<"a">>, <<"a", "a">>, <<"a", "b">>, <<"b", "a">>, <<"a", "b", "a">>, <<"b", "a", "b">>}
Type2Texts ==
  {<<"a">>, <<"a", "a">>, <<"a", "b", "a">>, <<"a", "-">>, <<"-", "a">>}

MCTexts == Type1Texts \cup Type2Texts

Articles(texts, positions) ==
  {f \in BoundedSeq([text : texts, pos : positions], MaxFragments) :
     \A i \in 1 .. Len(f) - 1 : f[i].pos <= f[i + 1].pos}

\* The budget of type 2 makes no difference to an article of type 1.
MCInit ==
  /\ \/ kind = 1 /\ input \in Articles(Type1Texts, {0, 10, 20}) /\ budget = 0
     \/ kind = 2 /\ input \in Articles(Type2Texts, {0, 1, 3}) /\ budget \in Budgets
  /\ ArticleInit

MCSpec == MCInit /\ [][ArticleNext]_articleVars

=============================================================================
