------------------------------ MODULE MCSkills ------------------------------
(***************************************************************************)
(* A small instance of Skills: two runs that overlap on one repository.    *)
(***************************************************************************)
EXTENDS Skills

CONSTANTS r1, r2, n1, t1

TwoRuns  == {r1, r2}
TwoDocs  == {1, 2}
OneName  == {n1}
OneTag   == {t1}
AllTagged == [d \in Docs |-> Tags]

\* What administrators enter: an old row, with the URL of the repository, under
\* the slug that the workers would choose for the second document.
SlugOf(d) == [name |-> n1, url |-> d, suffix |-> 0]
MCPayloads == {[slug |-> SlugOf(2), url |-> Repo, tags |-> Tags]}
=============================================================================
