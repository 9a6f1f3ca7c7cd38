-------------------------- MODULE MCSourceRegistry --------------------------
(* Model values and symmetry for checking SourceRegistry with TLC. Uploads *)
(* are interchangeable, and so are tabs when all or none are Editors.      *)
EXTENDS SourceRegistry, TLC

UploadsAndTabs == Permutations(Upload) \union Permutations(Tabs)

=============================================================================
