-------------------------- MODULE MCSettingsEditor ---------------------------
\* Every kind of text, two users that differ in their names only, with one password,
\* a Basic and an open proxy.
EXTENDS SettingsEditor, TLC

UserSymmetry == Permutations(Users)
=============================================================================
