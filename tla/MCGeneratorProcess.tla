------------------------ MODULE MCGeneratorProcess ------------------------
(* Model values and symmetry for the helper process of the dialog.         *)
EXTENDS GeneratorProcess, TLC
CONSTANTS a, b
TwoPaths == {a, b}
OnePath == {a}
Symmetry == Permutations(TwoPaths)
=============================================================================
